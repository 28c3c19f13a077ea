---------------------- MODULE RateLimitSemaphoreProofs ----------------------
(***************************************************************************)
(* What RateLimitSemaphore guarantees for every set of callers, caps and   *)
(* queue sizes and any number of cooldown timers, those of deleted gates   *)
(* included: its types, its accounting of waiters and slots, the cooldown  *)
(* behind every idle gate, the order of admission, and the abstract        *)
(* limiter.                                                                *)
(***************************************************************************)
EXTENDS RateLimitSemaphore, FiniteSetTheorems, SequenceTheorems, TLAPS

Statuses == {"idle", "waiting", "holding"}
Limits == {"none", "active", "lapsed"}

Holders(st) == {r \in Requests : st[r] = "holding"}
Waiters(st) == {r \in Requests : st[r] = "waiting"}

(* The callers in a queue q, the first k of them, and that nobody is in it twice. *)
Members(q) == {q[i] : i \in 1..Len(q)}
Front(q, k) == {q[i] : i \in 1..k}
Distinct(q) == \A i, j \in 1..Len(q) : q[i] = q[j] => i = j

(* A key without a gate has neither slots in use, nor waiters, nor a cooldown,
   nor timers of its own; a cooldown always has the timer that will end it; and
   only a cooldown keeps a gate of which no slot is in use, even when it has
   waiters: the last of them may time out. *)
GateShape ==
  /\ ~present => running = 0 /\ queue = <<>> /\ limited = "none" /\ timers = 0
  /\ limited # "none" => timers > 0
  /\ present /\ running = 0 => limited # "none"

IInv ==
  /\ TypeOK
  /\ QueueIsWaiting
  /\ SlotsAccounted
  /\ GateShape

-----------------------------------------------------------------------------
(* Queues *)

(* The elements of a queue without its first k. *)
LEMMA AfterFront ==
  ASSUME NEW q \in Seq(Requests), NEW k \in 0..Len(q)
  PROVE  /\ SubSeq(q, k + 1, Len(q)) \in Seq(Requests)
         /\ Len(SubSeq(q, k + 1, Len(q))) = Len(q) - k
         /\ \A i \in 1..(Len(q) - k) : SubSeq(q, k + 1, Len(q))[i] = q[k + i]
<1> DEFINE rest == SubSeq(q, k + 1, Len(q))
<1>1. Len(q) \in Nat /\ q \in [1..Len(q) -> Requests]
  BY LenProperties
<1>k. Len(q) \in Nat /\ k \in Nat /\ k <= Len(q)
  BY <1>1
<1>2. \A i \in (k + 1)..Len(q) : q[i] \in Requests
  BY <1>1, <1>k
<1>3. /\ rest \in Seq(Requests)
      /\ Len(rest) = IF k + 1 <= Len(q) THEN Len(q) - (k + 1) + 1 ELSE 0
      /\ \A i \in 1..(Len(q) - (k + 1) + 1) : rest[i] = q[(k + 1) + i - 1]
  BY <1>1, <1>k, <1>2, SubSeqProperties
<1> HIDE DEF rest
<1>4. Len(rest) = Len(q) - k
  <2>1. CASE k + 1 <= Len(q)
    <3>1. Len(rest) = Len(q) - (k + 1) + 1
      BY <1>3, <2>1
    <3> QED
      BY <1>1, <1>k, <3>1
  <2>2. CASE ~(k + 1 <= Len(q))
    <3>1. Len(rest) = 0
      BY <1>3, <2>2
    <3>2. Len(q) - k = 0
      BY <1>k, <2>2
    <3> QED
      BY <3>1, <3>2
  <2> QED
    BY <2>1, <2>2
<1>5. ASSUME NEW i \in 1..(Len(q) - k)
      PROVE  rest[i] = q[k + i]
  <2>1. i \in 1..(Len(q) - (k + 1) + 1) /\ (k + 1) + i - 1 = k + i
    BY <1>1, <1>k
  <2>2. rest[i] = q[(k + 1) + i - 1]
    BY <1>3, <2>1
  <2> QED
    BY <2>1, <2>2
<1> QED
  BY <1>3, <1>4, <1>5 DEF rest

(* What is left when the first k have gone. *)
LEMMA DropFront ==
  ASSUME NEW q \in Seq(Requests), Distinct(q), NEW k \in 0..Len(q),
         NEW rest \in Seq(Requests), Len(rest) = Len(q) - k,
         \A i \in 1..(Len(q) - k) : rest[i] = q[k + i]
  PROVE  /\ Distinct(rest)
         /\ Members(rest) = Members(q) \ Front(q, k)
<1>1. Len(q) \in Nat /\ k \in Nat /\ k <= Len(q)
  BY LenProperties
<1>5. ASSUME NEW i \in 1..Len(rest)
      PROVE  rest[i] = q[k + i] /\ k + i \in 1..Len(q) /\ k + i > k
  BY <1>1
<1>6. Distinct(rest)
  <2> SUFFICES ASSUME NEW i \in 1..Len(rest), NEW j \in 1..Len(rest), rest[i] = rest[j]
               PROVE  i = j
    BY DEF Distinct
  <2>1. k + i = k + j
    BY <1>5 DEF Distinct
  <2> QED
    BY <1>1, <2>1
<1>7. ASSUME NEW x \in Members(rest)
      PROVE  x \in Members(q) \ Front(q, k)
  <2>1. PICK i \in 1..Len(rest) : x = rest[i]
    BY DEF Members
  <2>2. x = q[k + i] /\ k + i \in 1..Len(q) /\ k + i > k
    BY <1>5, <2>1
  <2>3. ASSUME NEW j \in 1..k PROVE q[j] # q[k + i]
    <3>1. j \in 1..Len(q) /\ j # k + i
      BY <1>1, <2>2
    <3> QED
      BY <2>2, <3>1 DEF Distinct
  <2> QED
    BY <2>2, <2>3 DEF Members, Front
<1>8. ASSUME NEW x \in Members(q) \ Front(q, k)
      PROVE  x \in Members(rest)
  <2>1. PICK j \in 1..Len(q) : x = q[j]
    BY DEF Members
  <2>2. j > k
    BY <1>1, <2>1 DEF Front
  <2>3. j - k \in 1..Len(rest) /\ k + (j - k) = j
    BY <1>1, <2>2
  <2>4. rest[j - k] = x
    BY <1>5, <2>1, <2>3
  <2> QED
    BY <2>3, <2>4 DEF Members
<1> QED
  BY <1>6, <1>7, <1>8

(* The elements of a queue without the i-th. *)
LEMMA WithoutOne ==
  ASSUME NEW q \in Seq(Requests), NEW i \in 1..Len(q)
  PROVE  LET rest == SubSeq(q, 1, i - 1) \o SubSeq(q, i + 1, Len(q))
         IN  /\ rest \in Seq(Requests)
             /\ Len(rest) = Len(q) - 1
             /\ \A j \in 1..(Len(q) - 1) : rest[j] = IF j < i THEN q[j] ELSE q[j + 1]
<1> DEFINE front == SubSeq(q, 1, i - 1)
           back == SubSeq(q, i + 1, Len(q))
<1>1. /\ Len(q) \in Nat /\ q \in [1..Len(q) -> Requests]
      /\ i \in Nat /\ 1 <= i /\ i <= Len(q)
  BY LenProperties
<1>2. front \in Seq(Requests) /\ Len(front) = i - 1 /\ \A j \in 1..(i - 1) : front[j] = q[j]
  <2>1. \A j \in 1..(i - 1) : q[j] \in Requests
    BY <1>1
  <2>2. /\ front \in Seq(Requests)
        /\ Len(front) = IF 1 <= i - 1 THEN (i - 1) - 1 + 1 ELSE 0
        /\ \A j \in 1..((i - 1) - 1 + 1) : front[j] = q[1 + j - 1]
    BY <1>1, <2>1, SubSeqProperties
  <2>3. \A j \in 1..(i - 1) : j \in 1..((i - 1) - 1 + 1) /\ 1 + j - 1 = j
    BY <1>1
  <2> HIDE DEF front
  <2> QED
    BY <1>1, <2>2, <2>3
<1>3. /\ back \in Seq(Requests) /\ Len(back) = Len(q) - i
      /\ \A j \in 1..(Len(q) - i) : back[j] = q[i + j]
  <2>1. i \in 0..Len(q)
    BY <1>1
  <2> QED
    BY <2>1, AfterFront
<1> HIDE DEF front, back
<1>4. /\ front \o back \in Seq(Requests)
      /\ Len(front \o back) = Len(front) + Len(back)
      /\ \A j \in 1..(Len(front) + Len(back)) :
           (front \o back)[j] = IF j <= Len(front) THEN front[j] ELSE back[j - Len(front)]
  BY <1>2, <1>3, ConcatProperties
<1>5. Len(front) + Len(back) = Len(q) - 1
  BY <1>1, <1>2, <1>3
<1>6. ASSUME NEW j \in 1..(Len(q) - 1)
      PROVE  (front \o back)[j] = IF j < i THEN q[j] ELSE q[j + 1]
  <2>1. /\ j \in 1..(Len(front) + Len(back))
        /\ j < i <=> j <= Len(front)
    BY <1>1, <1>2, <1>5
  <2>2. (front \o back)[j] = IF j < i THEN front[j] ELSE back[j - Len(front)]
    BY <1>4, <2>1
  <2>3. CASE j < i
    <3>1. j \in 1..(i - 1)
      BY <1>1, <2>3
    <3> QED
      BY <1>2, <2>2, <2>3, <3>1
  <2>4. CASE ~(j < i)
    <3>1. j - Len(front) \in 1..(Len(q) - i) /\ i + (j - Len(front)) = j + 1
      BY <1>1, <1>2, <2>4
    <3> QED
      BY <1>3, <2>2, <2>4, <3>1
  <2> QED
    BY <2>3, <2>4
<1> QED
  BY <1>4, <1>5, <1>6 DEF front, back

(* What is left when one somewhere in the queue has gone. *)
LEMMA DropOne ==
  ASSUME NEW q \in Seq(Requests), Distinct(q), NEW i \in 1..Len(q),
         NEW rest \in Seq(Requests), Len(rest) = Len(q) - 1,
         \A j \in 1..(Len(q) - 1) : rest[j] = IF j < i THEN q[j] ELSE q[j + 1]
  PROVE  /\ Distinct(rest)
         /\ Members(rest) = Members(q) \ {q[i]}
<1>1. Len(q) \in Nat /\ i \in Nat /\ 1 <= i /\ i <= Len(q)
  BY LenProperties
<1>2. \A j \in 1..Len(rest) :
        \E m \in 1..Len(q) : rest[j] = q[m] /\ m = IF j < i THEN j ELSE j + 1
  <2> TAKE j \in 1..Len(rest)
  <2>1. j \in 1..(Len(q) - 1) /\ j \in 1..Len(q) /\ j + 1 \in 1..Len(q)
    BY <1>1
  <2>2. rest[j] = IF j < i THEN q[j] ELSE q[j + 1]
    BY <2>1
  <2> QED
    BY <2>1, <2>2
<1>3. ASSUME NEW j \in 1..Len(rest), NEW l \in 1..Len(rest), rest[j] = rest[l]
      PROVE  j = l
  <2>1. PICK m \in 1..Len(q) : rest[j] = q[m] /\ m = IF j < i THEN j ELSE j + 1
    BY <1>2
  <2>2. PICK o \in 1..Len(q) : rest[l] = q[o] /\ o = IF l < i THEN l ELSE l + 1
    BY <1>2
  <2>3. m = o
    BY <1>3, <2>1, <2>2 DEF Distinct
  <2> QED
    BY <1>1, <2>1, <2>2, <2>3
<1>4. ASSUME NEW x \in Members(rest)
      PROVE  x \in Members(q) \ {q[i]}
  <2>1. PICK j \in 1..Len(rest) : x = rest[j]
    BY DEF Members
  <2>2. PICK m \in 1..Len(q) : rest[j] = q[m] /\ m = IF j < i THEN j ELSE j + 1
    BY <1>2
  <2>3. m # i
    BY <1>1, <2>2
  <2> QED
    BY <2>1, <2>2, <2>3 DEF Members, Distinct
<1>5. ASSUME NEW x \in Members(q) \ {q[i]}
      PROVE  x \in Members(rest)
  <2>1. PICK m \in 1..Len(q) : x = q[m]
    BY DEF Members
  <2>2. m # i
    BY <1>5, <2>1
  <2>3. CASE m < i
    <3>1. m \in 1..(Len(q) - 1) /\ m \in 1..Len(rest)
      BY <1>1, <2>3
    <3>2. rest[m] = x
      BY <2>1, <2>3, <3>1
    <3> QED
      BY <3>1, <3>2 DEF Members
  <2>4. CASE m > i
    <3>1. /\ m - 1 \in 1..(Len(q) - 1) /\ m - 1 \in 1..Len(rest)
          /\ ~(m - 1 < i) /\ (m - 1) + 1 = m
      BY <1>1, <2>4
    <3>2. rest[m - 1] = x
      BY <2>1, <3>1
    <3> QED
      BY <3>1, <3>2 DEF Members
  <2> QED
    BY <1>1, <2>2, <2>3, <2>4
<1> QED
  BY <1>3, <1>4, <1>5 DEF Distinct

(* A newcomer at the end. *)
LEMMA AddLast ==
  ASSUME NEW q \in Seq(Requests), Distinct(q), NEW r \in Requests \ Members(q),
         NEW more, more = Append(q, r)
  PROVE  /\ more \in Seq(Requests) /\ more # <<>>
         /\ Distinct(more)
         /\ Members(more) = Members(q) \cup {r}
<1>1. Len(q) \in Nat
  BY LenProperties
<1>2. /\ more \in Seq(Requests) /\ more # <<>> /\ Len(more) = Len(q) + 1
      /\ \A i \in 1..Len(q) : more[i] = q[i]
      /\ more[Len(q) + 1] = r
  BY AppendProperties
<1>3. \A i \in 1..Len(q) : q[i] # r
  BY DEF Members
<1>4. Distinct(more)
  BY <1>1, <1>2, <1>3 DEF Distinct
<1>5. Members(more) = Members(q) \cup {r}
  BY <1>1, <1>2 DEF Members
<1> QED
  BY <1>2, <1>4, <1>5

(* The first k of a queue are k different callers of it. *)
LEMMA FrontSize ==
  ASSUME NEW q \in Seq(Requests), Distinct(q), NEW k \in 0..Len(q)
  PROVE  /\ Front(q, k) \subseteq Members(q)
         /\ IsFiniteSet(Front(q, k))
         /\ Cardinality(Front(q, k)) = k
<1>1. Len(q) \in Nat
  BY LenProperties
<1>2. Front(q, k) \subseteq Members(q)
  BY <1>1 DEF Front, Members
<1> DEFINE f == [i \in 1..k |-> q[i]]
<1>3. f \in Bijection(1..k, Front(q, k))
  <2>1. f \in [1..k -> Front(q, k)]
    BY DEF Front
  <2>2. \A i, j \in 1..k : f[i] = f[j] => i = j
    BY <1>1 DEF Distinct
  <2>3. \A x \in Front(q, k) : \E i \in 1..k : f[i] = x
    BY DEF Front
  <2> QED
    BY <2>1, <2>2, <2>3 DEF Bijection, Injection, Surjection, IsInjective
<1>4. ExistsBijection(1..k, Front(q, k))
  BY <1>3 DEF ExistsBijection
<1>5. IsFiniteSet(1..k) /\ Cardinality(1..k) = k
  BY <1>1, FS_Interval
<1> QED
  BY <1>1, <1>2, <1>4, <1>5, FS_Bijection

(* QueueIsWaiting in these words. *)
LEMMA QueueOfWaiters == QueueIsWaiting <=> Members(queue) = Waiting /\ Distinct(queue)
BY DEF QueueIsWaiting, Members, Distinct

-----------------------------------------------------------------------------
(* drainQueue *)

(* What drainQueue does to the callers, whatever it finds: the first k waiters
   leave the queue and are the new holders. *)
LEMMA DrainEffect ==
  ASSUME TypeOK, QueueIsWaiting,
         NEW n \in Nat, NEW b \in Limits, NEW st \in [Requests -> Statuses],
         Waiters(st) = Waiting,
         NEW own, NEW others,
         Drain(n, b, st, own, others)
  PROVE  /\ Admissible(n, b) \in 0..Len(queue)
         /\ queue' \in Seq(Requests)
         /\ Len(queue') = Len(queue) - Admissible(n, b)
         /\ status' \in [Requests -> Statuses]
         /\ running' = n + Admissible(n, b)
         /\ QueueIsWaiting'
         /\ Holding' = Holders(st) \cup Front(queue, Admissible(n, b))
         /\ Waiting' = Waiting \ Front(queue, Admissible(n, b))
         /\ Cardinality(Holding') = Cardinality(Holders(st)) + Admissible(n, b)
<1> DEFINE k == Admissible(n, b)
<1>1. Len(queue) \in Nat /\ max \in Nat /\ queue \in Seq(Requests)
  BY LenProperties DEF TypeOK
<1>2. k \in 0..Len(queue)
  BY <1>1 DEF Admissible
<1> HIDE DEF k
<1>3. /\ queue' = SubSeq(queue, k + 1, Len(queue))
      /\ running' = n + k
      /\ status' = [r \in Requests |->
                      IF \E i \in 1..k : queue[i] = r THEN "holding" ELSE st[r]]
  BY DEF Drain, Admit, k
<1>4. Members(queue) = Waiting /\ Distinct(queue)
  BY QueueOfWaiters
<1>5. /\ queue' \in Seq(Requests) /\ Len(queue') = Len(queue) - k
      /\ Distinct(queue') /\ Members(queue') = Members(queue) \ Front(queue, k)
  BY <1>1, <1>2, <1>3, <1>4, AfterFront, DropFront
<1>6. /\ Front(queue, k) \subseteq Waiting
      /\ IsFiniteSet(Front(queue, k)) /\ Cardinality(Front(queue, k)) = k
  BY <1>1, <1>2, <1>4, FrontSize
<1>7. status' \in [Requests -> Statuses]
  BY <1>3 DEF Statuses
<1>8. \A r \in Requests : st[r] = "waiting" <=> status[r] = "waiting"
  BY DEF Waiters, Waiting
<1>9. Holding' = Holders(st) \cup Front(queue, k)
  BY <1>3, <1>6 DEF Holding, Holders, Front, Waiting
<1>10. Waiting' = Waiting \ Front(queue, k)
  BY <1>3, <1>8 DEF Waiting, Front
<1>11. QueueIsWaiting'
  BY <1>4, <1>5, <1>10 DEF QueueIsWaiting, Members, Distinct
<1>12. Cardinality(Holding') = Cardinality(Holders(st)) + k
  <2>1. IsFiniteSet(Holders(st)) /\ Cardinality(Holders(st)) \in Nat
    BY RequestsFinite, FS_Subset, FS_CardinalityType DEF Holders
  <2>2. Holders(st) \cap Front(queue, k) = {}
    BY <1>6, <1>8 DEF Holders, Waiting
  <2>3. Cardinality(Holders(st) \cup Front(queue, k))
          = Cardinality(Holders(st)) + Cardinality(Front(queue, k))
              - Cardinality(Holders(st) \cap Front(queue, k))
    BY <1>6, <2>1, FS_Union
  <2>4. Cardinality(Holding') = Cardinality(Holders(st) \cup Front(queue, k))
    BY <1>9, Zenon
  <2>5. Cardinality(Holders(st) \cap Front(queue, k)) = 0
    BY <2>2, FS_EmptySet, Zenon
  <2> QED
    BY <1>1, <1>2, <1>6, <2>1, <2>3, <2>4, <2>5
<1> QED
  BY <1>2, <1>3, <1>5, <1>7, <1>9, <1>10, <1>11, <1>12 DEF k

(* drainQueue leaves nobody with a slot, and nobody waiting. *)
Empties(n, b) == n + Admissible(n, b) = 0 /\ queue = <<>>

(* What it does to the gate: a gate without slots in use and waiters goes, and
   leaves its timers behind; another keeps its timers, and its cooldown unless
   that is over. *)
LEMMA DrainedGate ==
  ASSUME TypeOK,
         NEW n \in Nat, NEW b \in Limits, NEW st, NEW own, NEW others,
         Drain(n, b, st, own, others)
  PROVE  /\ present' = ~Empties(n, b)
         /\ limited' \in Limits
         /\ Empties(n, b) => limited' = "none"
         /\ limited' # "none" => b # "none"
         /\ limited' = "active" => b = "active"
         /\ ~Empties(n, b) /\ n + Admissible(n, b) = 0 => limited' # "none"
         /\ timers' = IF Empties(n, b) THEN 0 ELSE own
         /\ orphans' = IF Empties(n, b) THEN others + own ELSE others
<1>1. /\ present' = ~Empties(n, b)
      /\ timers' = IF Empties(n, b) THEN 0 ELSE own
      /\ orphans' = IF Empties(n, b) THEN others + own ELSE others
  BY DEF Drain, Empties
<1>2. limited' = CASE Empties(n, b) -> "none"
                   [] ~Empties(n, b) /\ queue # <<>> /\ n < max -> Forget(b)
                   [] OTHER -> b
  BY DEF Drain, Empties
<1>3. /\ limited' \in Limits
      /\ Empties(n, b) => limited' = "none"
      /\ limited' # "none" => b # "none"
      /\ limited' = "active" => b = "active"
  <2>1. CASE Empties(n, b)
    BY <1>2, <2>1 DEF Limits
  <2>2. CASE ~Empties(n, b) /\ queue # <<>> /\ n < max
    BY <1>2, <2>2 DEF Limits, Forget
  <2>3. CASE ~Empties(n, b) /\ ~(queue # <<>> /\ n < max)
    BY <1>2, <2>3 DEF Limits
  <2> QED
    BY <2>1, <2>2, <2>3
<1>4. ASSUME ~Empties(n, b), n + Admissible(n, b) = 0
      PROVE  limited' # "none"
  <2>1. queue # <<>> /\ queue \in Seq(Requests) /\ max \in Nat /\ max > 0
    BY <1>4 DEF Empties, TypeOK
  <2>2. Len(queue) \in Nat /\ Len(queue) > 0
    BY <2>1, LenProperties, EmptySeq
  <2>3. n = 0 /\ b = "active"
    BY <1>4, <2>1, <2>2 DEF Admissible
  <2> QED
    BY <1>2, <1>4, <2>1, <2>3 DEF Forget
<1> QED
  BY <1>1, <1>3, <1>4

(* A call or a timer that ends in drainQueue keeps the invariant when what it
   hands over is accounted for. *)
LEMMA DrainKeeps ==
  ASSUME IInv,
         NEW n \in Nat, NEW b \in Limits, NEW st \in [Requests -> Statuses],
         Waiters(st) = Waiting, n = Cardinality(Holders(st)),
         NEW own \in Nat, NEW others \in Nat, own + others <= MaxTimers,
         b # "none" => own > 0,
         Drain(n, b, st, own, others), UNCHANGED <<max, cooling>>
  PROVE  IInv'
<1> DEFINE k == Admissible(n, b)
<1> USE DEF IInv
<1>1. /\ k \in 0..Len(queue)
      /\ queue' \in Seq(Requests) /\ Len(queue') = Len(queue) - k
      /\ status' \in [Requests -> Statuses]
      /\ running' = n + k
      /\ QueueIsWaiting'
      /\ Cardinality(Holding') = n + k
  BY DrainEffect
<1>2. /\ present' = ~Empties(n, b)
      /\ limited' \in Limits
      /\ Empties(n, b) => limited' = "none"
      /\ limited' # "none" => b # "none"
      /\ ~Empties(n, b) /\ n + k = 0 => limited' # "none"
      /\ timers' = IF Empties(n, b) THEN 0 ELSE own
      /\ orphans' = IF Empties(n, b) THEN others + own ELSE others
  BY DrainedGate
<1>3. /\ Len(queue) \in Nat
      /\ queue = <<>> <=> Len(queue) = 0
      /\ queue' = <<>> <=> Len(queue') = 0
  BY <1>1, LenProperties, EmptySeq DEF TypeOK
<1>4. Empties(n, b) <=> n + k = 0 /\ Len(queue) = 0
  BY <1>3 DEF Empties
<1> HIDE DEF k
<1>5. k \in Nat /\ running' \in Nat
  BY <1>1, <1>3
<1>6. timers' \in Nat /\ orphans' \in Nat /\ timers' + orphans' <= MaxTimers
  BY <1>2, BoundsNat
<1>7. TypeOK'
  <2>1. max' \in Nat \ {0} /\ cooling' \in BOOLEAN
    BY DEF TypeOK
  <2>2. present' \in BOOLEAN
    BY <1>2
  <2> QED
    BY <1>1, <1>2, <1>5, <1>6, <2>1, <2>2 DEF TypeOK, Statuses, Limits
<1>8. SlotsAccounted'
  BY <1>1 DEF SlotsAccounted
<1>9. Empties(n, b) <=> running' = 0 /\ queue' = <<>>
  BY <1>1, <1>3, <1>4, <1>5
<1>10. GateShape'
  <2>1. CASE Empties(n, b)
    BY <1>2, <1>9, <2>1 DEF GateShape
  <2>2. CASE ~Empties(n, b)
    BY <1>1, <1>2, <2>2 DEF GateShape
  <2> QED
    BY <2>1, <2>2
<1> QED
  BY <1>1, <1>7, <1>8, <1>10

-----------------------------------------------------------------------------
(* The inductive invariant *)

LEMMA InitIInv == Init => IInv
<1> SUFFICES ASSUME Init PROVE IInv
  OBVIOUS
<1>1. Waiting = {} /\ Holding = {}
  BY DEF Init, Holding, Waiting
<1>2. TypeOK
  <2>1. max \in Nat \ {0} /\ timers + orphans <= MaxTimers
    BY CapsPositive, BoundsNat DEF Init
  <2>2. queue \in Seq(Requests)
    BY EmptySeq DEF Init
  <2> QED
    BY <2>1, <2>2 DEF Init, TypeOK
<1>3. QueueIsWaiting
  BY <1>1, <1>2, EmptySeq DEF Init, QueueIsWaiting
<1>4. SlotsAccounted
  <2>1. Cardinality(Holding) = 0 /\ running = 0
    BY <1>1, FS_EmptySet DEF Init
  <2> QED
    BY <2>1 DEF SlotsAccounted
<1> QED
  BY <1>2, <1>3, <1>4 DEF Init, IInv, GateShape

(* The callers that hold a slot are finitely many. *)
LEMMA HoldingFinite ==
  /\ IsFiniteSet(Holding)
  /\ Cardinality(Holding) \in Nat
BY RequestsFinite, FS_Subset, FS_CardinalityType DEF Holding

(* A step that changes no caller, the queue, or the count of the slots keeps
   what is said of them. *)
LEMMA SameCallers ==
  ASSUME IInv, UNCHANGED <<status, queue, running>>
  PROVE  QueueIsWaiting' /\ SlotsAccounted'
BY DEF IInv, QueueIsWaiting, SlotsAccounted, Waiting, Holding

(* What drainQueue finds when it is called for the callers as they are. *)
LEMMA CallersAsTheyAre ==
  ASSUME IInv
  PROVE  /\ running \in Nat
         /\ status \in [Requests -> Statuses]
         /\ Waiters(status) = Waiting
         /\ Holders(status) = Holding
         /\ running = Cardinality(Holders(status))
<1>1. Holders(status) = Holding
  BY DEF Holders, Holding
<1>2. Cardinality(Holders(status)) = Cardinality(Holding)
  BY <1>1, Zenon
<1> QED
  BY <1>1, <1>2 DEF IInv, TypeOK, Statuses, Waiters, Waiting, SlotsAccounted

(* A holder's release always finds the gate and its own slot counted in it, and
   hands drainQueue one slot less. *)
LEMMA ReleaseDrains ==
  ASSUME IInv, NEW r \in Requests, Release(r)
  PROVE  LET st == [status EXCEPT ![r] = "idle"]
         IN  /\ r \in Holding
             /\ running - 1 \in Nat /\ running > 0
             /\ st \in [Requests -> Statuses]
             /\ Waiters(st) = Waiting /\ Holders(st) = Holding \ {r}
             /\ running - 1 = Cardinality(Holders(st))
             /\ Drain(running - 1, limited, st, timers, orphans)
             /\ UNCHANGED <<max, cooling>>
<1> DEFINE st == [status EXCEPT ![r] = "idle"]
<1>1. /\ status \in [Requests -> Statuses] /\ status[r] = "holding"
      /\ running \in Nat
  BY DEF IInv, TypeOK, Statuses, Release
<1>2. r \in Holding
  BY <1>1 DEF Holding
<1>3. st \in [Requests -> Statuses] /\ Waiters(st) = Waiting /\ Holders(st) = Holding \ {r}
  BY <1>1 DEF Statuses, Waiters, Waiting, Holders, Holding
<1>4. running = Cardinality(Holding)
  BY DEF IInv, SlotsAccounted
<1>5. Cardinality(Holding \ {r}) = Cardinality(Holding) - 1
  BY <1>2, HoldingFinite, FS_RemoveElement
<1>6. Cardinality(Holders(st)) = Cardinality(Holding \ {r})
  BY <1>3, Zenon
<1>7. Cardinality(Holding \ {r}) \in Nat
  BY HoldingFinite, FS_RemoveElement, FS_CardinalityType
<1>8. running - 1 \in Nat /\ running > 0 /\ running - 1 = Cardinality(Holders(st))
  BY <1>1, <1>4, <1>5, <1>6, <1>7
<1>9. present
  BY <1>8 DEF IInv, GateShape, TypeOK
<1>10. Drain(running - 1, limited, st, timers, orphans) /\ UNCHANGED <<max, cooling>>
  BY <1>8, <1>9 DEF Release
<1> QED
  BY <1>2, <1>3, <1>8, <1>10

(* acquire with room: the newcomer takes a slot of the gate it finds or makes. *)
LEMMA AcquireFastIInv ==
  ASSUME IInv, NEW r \in Requests, NEW c \in Caps, AcquireFast(r, c)
  PROVE  IInv'
<1> USE DEF IInv
<1>1. /\ status[r] = "idle" /\ status' = [status EXCEPT ![r] = "holding"]
      /\ present' = TRUE /\ max' = c
      /\ running' = running + 1
      /\ limited' = Forget(limited)
      /\ UNCHANGED <<queue, timers, orphans, cooling>>
  BY DEF AcquireFast, GetGate
<1>2. status \in [Requests -> Statuses] /\ running \in Nat
  BY DEF TypeOK, Statuses
<1>3. TypeOK'
  <2>1. status' \in [Requests -> Statuses] /\ running' \in Nat
    BY <1>1, <1>2 DEF Statuses
  <2>2. max' \in Nat \ {0}
    BY <1>1, CapsPositive
  <2>3. limited' \in Limits
    BY <1>1 DEF TypeOK, Limits, Forget
  <2> QED
    BY <1>1, <2>1, <2>2, <2>3 DEF TypeOK, Statuses, Limits
<1>4. Waiting' = Waiting /\ Holding' = Holding \cup {r} /\ r \notin Holding
  BY <1>1, <1>2 DEF Waiting, Holding
<1>5. QueueIsWaiting'
  BY <1>1, <1>4 DEF QueueIsWaiting
<1>6. SlotsAccounted'
  <2>1. Cardinality(Holding \cup {r}) = Cardinality(Holding) + 1
    BY <1>4, HoldingFinite, FS_AddElement
  <2>2. Cardinality(Holding') = Cardinality(Holding \cup {r})
    BY <1>4, Zenon
  <2> QED
    BY <1>1, <2>1, <2>2 DEF SlotsAccounted
<1>7. GateShape'
  BY <1>1, <1>2 DEF GateShape, Forget
<1> QED
  BY <1>3, <1>5, <1>6, <1>7

(* acquire of a full queue: the newcomer is turned away, and a gate without slots
   in use and waiters goes. *)
LEMMA AcquireQueueFullIInv ==
  ASSUME IInv, NEW r \in Requests, NEW c \in Caps, NEW q \in QueueSizes,
         AcquireQueueFull(r, c, q)
  PROVE  IInv'
<1> USE DEF IInv
<1> DEFINE idle == running = 0 /\ queue = <<>>
<1>1. /\ max' = c
      /\ present' = ~idle
      /\ limited' = IF idle THEN "none" ELSE limited
      /\ timers' = IF idle THEN 0 ELSE timers
      /\ orphans' = IF idle THEN orphans + timers ELSE orphans
      /\ UNCHANGED <<status, running, queue, cooling>>
  BY DEF AcquireQueueFull
<1>2. idle \in BOOLEAN /\ (idle <=> running' = 0 /\ queue' = <<>>)
  BY <1>1
<1> HIDE DEF idle
<1>3. TypeOK'
  <2>1. max' \in Nat \ {0}
    BY <1>1, CapsPositive
  <2>2. timers' \in Nat /\ orphans' \in Nat /\ timers' + orphans' <= MaxTimers
    BY <1>1, BoundsNat DEF TypeOK
  <2>3. limited' \in Limits /\ present' \in BOOLEAN
    BY <1>1, <1>2 DEF TypeOK, Limits
  <2> QED
    BY <1>1, <2>1, <2>2, <2>3 DEF TypeOK, Limits
<1>4. QueueIsWaiting' /\ SlotsAccounted'
  BY <1>1, SameCallers
<1>5. GateShape'
  BY <1>1, <1>2 DEF GateShape
<1> QED
  BY <1>3, <1>4, <1>5

(* acquire without room: the newcomer joins the queue once, at its end.  A gate
   made for it finds no cooldown, so it would have had room. *)
LEMMA AcquireQueuedIInv ==
  ASSUME IInv, NEW r \in Requests, NEW c \in Caps, NEW q \in QueueSizes,
         AcquireQueued(r, c, q)
  PROVE  IInv'
<1> USE DEF IInv
<1>1. /\ status[r] = "idle" /\ status' = [status EXCEPT ![r] = "waiting"]
      /\ present' = TRUE /\ max' = c
      /\ queue' = Append(queue, r)
      /\ UNCHANGED <<running, limited, timers, orphans, cooling>>
  BY DEF AcquireQueued, GetGate
<1>2. status \in [Requests -> Statuses] /\ queue \in Seq(Requests)
  BY DEF TypeOK, Statuses
<1>3. Waiting' = Waiting \cup {r} /\ Holding' = Holding /\ r \notin Waiting
  BY <1>1, <1>2 DEF Waiting, Holding
<1>4. Members(queue) = Waiting /\ Distinct(queue)
  BY QueueOfWaiters
<1>5. /\ queue' \in Seq(Requests) /\ queue' # <<>>
      /\ Distinct(queue') /\ Members(queue') = Members(queue) \cup {r}
  BY <1>1, <1>2, <1>3, <1>4, AddLast
<1>6. TypeOK'
  <2>1. status' \in [Requests -> Statuses]
    BY <1>1, <1>2 DEF Statuses
  <2>2. max' \in Nat \ {0}
    BY <1>1, CapsPositive
  <2> QED
    BY <1>1, <1>5, <2>1, <2>2 DEF TypeOK, Statuses
<1>7. QueueIsWaiting'
  BY <1>3, <1>4, <1>5 DEF QueueIsWaiting, Members, Distinct
<1>8. SlotsAccounted'
  <2>1. Cardinality(Holding') = Cardinality(Holding)
    BY <1>3, Zenon
  <2> QED
    BY <1>1, <2>1 DEF SlotsAccounted
<1>9. GateShape'
  <2>1. ~HasRoom(c) /\ c \in Nat /\ c > 0
    BY CapsPositive DEF AcquireQueued
  <2>2. running = 0 => limited = "active"
    BY <2>1 DEF HasRoom, TypeOK
  <2> QED
    BY <1>1, <2>2 DEF GateShape
<1> QED
  BY <1>6, <1>7, <1>8, <1>9

(* Where a waiter that times out stood in the queue, and what is left of it. *)
LEMMA TimeOutEffect ==
  ASSUME IInv, NEW r \in Requests, TimeOut(r)
  PROVE  /\ queue' \in Seq(Requests)
         /\ Distinct(queue') /\ Members(queue') = Members(queue) \ {r}
         /\ queue # <<>>
         /\ status' \in [Requests -> Statuses]
         /\ Holding' = Holding /\ Waiting' = Waiting \ {r} /\ r \in Waiting
<1>1. /\ status \in [Requests -> Statuses] /\ queue \in Seq(Requests)
      /\ status[r] = "waiting" /\ status' = [status EXCEPT ![r] = "idle"]
  BY DEF IInv, TypeOK, Statuses, TimeOut
<1>2. PICK i \in 1..Len(queue) :
        /\ queue[i] = r
        /\ queue' = SubSeq(queue, 1, i - 1) \o SubSeq(queue, i + 1, Len(queue))
  BY DEF TimeOut
<1>3. Members(queue) = Waiting /\ Distinct(queue)
  BY QueueOfWaiters DEF IInv
<1>4. /\ queue' \in Seq(Requests) /\ Len(queue') = Len(queue) - 1
      /\ \A j \in 1..(Len(queue) - 1) : queue'[j] = IF j < i THEN queue[j] ELSE queue[j + 1]
  BY <1>1, <1>2, WithoutOne
<1>5. Distinct(queue') /\ Members(queue') = Members(queue) \ {r}
  <2>1. Distinct(queue') /\ Members(queue') = Members(queue) \ {queue[i]}
    BY <1>1, <1>3, <1>4, DropOne
  <2> QED
    BY <1>2, <2>1
<1>6. queue # <<>>
  <2>1. Len(queue) # 0
    BY <1>1, <1>2, LenProperties
  <2> QED
    BY <2>1, EmptySeq
<1>7. status' \in [Requests -> Statuses]
  BY <1>1 DEF Statuses
<1>8. Holding' = Holding /\ Waiting' = Waiting \ {r} /\ r \in Waiting
  BY <1>1 DEF Holding, Waiting
<1> QED
  BY <1>4, <1>5, <1>6, <1>7, <1>8

(* A waiter that times out leaves the queue, and nothing else changes. *)
LEMMA TimeOutIInv ==
  ASSUME IInv, NEW r \in Requests, TimeOut(r)
  PROVE  IInv'
<1> USE DEF IInv
<1>1. /\ queue' \in Seq(Requests)
      /\ Distinct(queue') /\ Members(queue') = Members(queue) \ {r}
      /\ queue # <<>>
      /\ status' \in [Requests -> Statuses]
      /\ Holding' = Holding /\ Waiting' = Waiting \ {r}
  BY TimeOutEffect
<1>2. UNCHANGED <<present, running, max, limited, timers, orphans, cooling>>
  BY DEF TimeOut
<1>3. TypeOK'
  BY <1>1, <1>2 DEF TypeOK, Statuses
<1>4. QueueIsWaiting'
  BY <1>1, QueueOfWaiters DEF QueueIsWaiting, Members, Distinct
<1>5. SlotsAccounted'
  <2>1. Cardinality(Holding') = Cardinality(Holding)
    BY <1>1, Zenon
  <2> QED
    BY <1>2, <2>1 DEF SlotsAccounted
<1>6. GateShape'
  BY <1>1, <1>2 DEF GateShape
<1> QED
  BY <1>3, <1>4, <1>5, <1>6

(* release: drainQueue runs, and nothing else. *)
LEMMA ReleaseIInv ==
  ASSUME IInv, NEW r \in Requests, Release(r)
  PROVE  IInv'
<1> DEFINE st == [status EXCEPT ![r] = "idle"]
<1>1. /\ running - 1 \in Nat
      /\ st \in [Requests -> Statuses]
      /\ Waiters(st) = Waiting
      /\ running - 1 = Cardinality(Holders(st))
      /\ Drain(running - 1, limited, st, timers, orphans)
      /\ UNCHANGED <<max, cooling>>
  BY ReleaseDrains
<1>2. /\ limited \in Limits /\ timers \in Nat /\ orphans \in Nat
      /\ timers + orphans <= MaxTimers
      /\ limited # "none" => timers > 0
  BY DEF IInv, TypeOK, GateShape, Limits
<1> HIDE DEF st
<1> QED
  BY <1>1, <1>2, DrainKeeps

(* markRateLimited by a holder, whose gate is there, and the clock. *)
LEMMA CooldownIInv ==
  ASSUME IInv, CooldownElapses \/ \E r \in Requests : MarkRateLimited(r)
  PROVE  IInv'
<1> USE DEF IInv
<1>1. CASE CooldownElapses
  <2>1. /\ cooling' = FALSE
        /\ limited' = IF limited = "active" THEN "lapsed" ELSE limited
        /\ UNCHANGED <<status, present, running, max, queue, timers, orphans>>
    BY <1>1 DEF CooldownElapses
  <2>2. TypeOK' /\ GateShape'
    BY <2>1 DEF TypeOK, GateShape
  <2> QED
    BY <2>1, <2>2, SameCallers
<1>2. CASE \E r \in Requests : MarkRateLimited(r)
  <2>1. /\ timers + orphans < MaxTimers
        /\ present' = TRUE /\ max' = DefaultMax
        /\ limited' = "active" /\ timers' = timers + 1 /\ cooling' = TRUE
        /\ UNCHANGED <<status, running, queue, orphans>>
    BY <1>2 DEF MarkRateLimited, GetGate
  <2>2. TypeOK'
    <3>1. max' \in Nat \ {0}
      BY <2>1, CapsPositive
    <3>2. timers' \in Nat /\ timers' + orphans' <= MaxTimers
      BY <2>1, BoundsNat DEF TypeOK
    <3> QED
      BY <2>1, <3>1, <3>2 DEF TypeOK
  <2>3. GateShape'
    BY <2>1 DEF GateShape, TypeOK
  <2> QED
    BY <2>1, <2>2, <2>3, SameCallers
<1> QED
  BY <1>1, <1>2

(* What a timer of the gate hands over: to drainQueue when the cooldown in force
   is over, and to nothing else otherwise. *)
LEMMA TimerIInv ==
  ASSUME IInv, TimerFires
  PROVE  IInv'
<1> USE DEF IInv
<1>1. /\ timers > 0 /\ (limited = "active" => timers > 1)
      /\ timers \in Nat /\ orphans \in Nat /\ timers + orphans <= MaxTimers
  BY DEF TimerFires, TypeOK
<1>2. timers - 1 \in Nat /\ (timers - 1) + orphans <= MaxTimers
  BY <1>1, BoundsNat
<1>3. UNCHANGED <<max, cooling>>
  BY DEF TimerFires
<1>4. CASE limited = "lapsed"
  <2>1. Drain(running, "none", status, timers - 1, orphans)
    BY <1>4 DEF TimerFires
  <2>2. "none" \in Limits
    BY DEF Limits
  <2> QED
    BY <1>1, <1>2, <1>3, <2>1, <2>2, CallersAsTheyAre, DrainKeeps
<1>5. CASE limited # "lapsed"
  <2>1. /\ timers' = timers - 1
        /\ UNCHANGED <<status, present, running, queue, limited, orphans>>
    BY <1>5 DEF TimerFires
  <2>2. TypeOK'
    BY <1>2, <1>3, <2>1 DEF TypeOK
  <2>3. GateShape'
    BY <1>1, <1>5, <2>1 DEF GateShape, TypeOK
  <2> QED
    BY <2>1, <2>2, <2>3, SameCallers
<1> QED
  BY <1>4, <1>5

(* A timer of a deleted gate does nothing, or drains the gate that has the key. *)
LEMMA OrphanTimerIInv ==
  ASSUME IInv, OrphanTimerFires
  PROVE  IInv'
<1> USE DEF IInv
<1>1. /\ orphans > 0
      /\ timers \in Nat /\ orphans \in Nat /\ timers + orphans <= MaxTimers
      /\ limited \in Limits /\ (limited # "none" => timers > 0)
  BY DEF OrphanTimerFires, TypeOK, Limits, GateShape
<1>2. orphans - 1 \in Nat /\ timers + (orphans - 1) <= MaxTimers
  BY <1>1, BoundsNat
<1>3. UNCHANGED <<max, cooling>>
  BY DEF OrphanTimerFires
<1>4. CASE Drain(running, limited, status, timers, orphans - 1)
  BY <1>1, <1>2, <1>3, <1>4, CallersAsTheyAre, DrainKeeps
<1>5. CASE /\ orphans' = orphans - 1
           /\ UNCHANGED <<status, present, running, queue, limited, timers>>
  <2>1. TypeOK'
    BY <1>2, <1>3, <1>5 DEF TypeOK
  <2>2. GateShape'
    BY <1>5 DEF GateShape
  <2> QED
    BY <1>5, <2>1, <2>2, SameCallers
<1> QED
  BY <1>4, <1>5 DEF OrphanTimerFires

(* Every call and every timer keeps the invariant. *)
LEMMA NextIInv == IInv /\ [Next]_vars => IInv'
<1> SUFFICES ASSUME IInv, [Next]_vars PROVE IInv'
  OBVIOUS
<1>1. ASSUME NEW r \in Requests, NEW c \in Caps, AcquireFast(r, c) PROVE IInv'
  BY <1>1, AcquireFastIInv
<1>2. ASSUME NEW r \in Requests, NEW c \in Caps, NEW q \in QueueSizes,
             AcquireQueueFull(r, c, q) \/ AcquireQueued(r, c, q)
      PROVE  IInv'
  BY <1>2, AcquireQueueFullIInv, AcquireQueuedIInv
<1>3. ASSUME NEW r \in Requests, TimeOut(r) \/ Release(r) \/ MarkRateLimited(r)
      PROVE  IInv'
  BY <1>3, TimeOutIInv, ReleaseIInv, CooldownIInv
<1>4. CASE CooldownElapses \/ TimerFires \/ OrphanTimerFires
  BY <1>4, CooldownIInv, TimerIInv, OrphanTimerIInv
<1>5. CASE UNCHANGED vars
  BY <1>5, SameCallers DEF IInv, vars, TypeOK, GateShape
<1> QED
  BY <1>1, <1>2, <1>3, <1>4, <1>5 DEF Next

(* The state of a gate is always well formed, and its accounts are right: what
   the theorems below take from each behaviour. *)
THEOREM Invariance == Spec => []IInv
<1> QED
  BY InitIInv, NextIInv, PTL DEF Spec

(* The gate's record and the callers' states stay within their types, for every
   number of callers, and the timers pending within their bound. *)
THEOREM TypeCorrect == Spec => []TypeOK
<1>1. IInv => TypeOK
  BY DEF IInv
<1> QED
  BY <1>1, Invariance, PTL

(* No acquire promise is stranded: whatever timeouts, releases and timers of live
   and deleted gates interleave, the pending callers are exactly the queued ones. *)
THEOREM NoStrandedWaiter == Spec => []QueueIsWaiting
<1>1. IInv => QueueIsWaiting
  BY DEF IInv
<1> QED
  BY <1>1, Invariance, PTL

(* gate.running is the number of callers that hold a slot, although a release
   finds the gate by key and the gate is deleted and created anew. *)
THEOREM NoLostSlot == Spec => []SlotsAccounted
<1>1. IInv => SlotsAccounted
  BY DEF IInv
<1> QED
  BY <1>1, Invariance, PTL

(* An idle gate is there only for a cooldown, and has the timer that ends it. *)
THEOREM NoLeakedGate == Spec => []IdleGateHasTimer
<1>1. IInv => IdleGateHasTimer
  BY DEF IInv, GateShape, IdleGateHasTimer
<1> QED
  BY <1>1, Invariance, PTL

-----------------------------------------------------------------------------
(* The order of admission *)

(* The waiters that drainQueue admits are the first ones. *)
LEMMA DrainInOrder ==
  ASSUME IInv,
         NEW n \in Nat, NEW b \in Limits, NEW st \in [Requests -> Statuses],
         Waiters(st) = Waiting, Holders(st) \subseteq Holding,
         NEW own, NEW others,
         Drain(n, b, st, own, others)
  PROVE  \A r \in Admitted \cap Waiting : Ahead(r) \cap Waiting' = {}
<1> DEFINE k == Admissible(n, b)
<1>1. /\ k \in 0..Len(queue)
      /\ Holding' = Holders(st) \cup Front(queue, k)
      /\ Waiting' = Waiting \ Front(queue, k)
  BY DrainEffect DEF IInv
<1> HIDE DEF k
<1>2. SUFFICES ASSUME NEW r \in Admitted, NEW x \in Ahead(r)
               PROVE  x \in Front(queue, k)
  BY <1>1
<1>3. PICK j \in 1..k : queue[j] = r
  BY <1>1 DEF Admitted, Front
<1>4. PICK i \in 1..Len(queue) : x = queue[i] /\ \A m \in 1..i : queue[m] # r
  BY DEF Ahead
<1>5. i < j
  BY <1>1, <1>3, <1>4
<1>6. i \in 1..k
  BY <1>1, <1>5
<1> QED
  BY <1>4, <1>6 DEF Front

(* Nobody is admitted past a waiter that stands in front of it and is left to
   wait, by whichever callback: a release, a timer, or a timer of a gate that was
   deleted meanwhile. *)
THEOREM InOrder == Spec => WaitersInOrder
<1> DEFINE Fair == \A r \in Admitted \cap Waiting : Ahead(r) \cap Waiting' = {}
<1>1. IInv /\ [Next]_vars => [Fair]_vars
  <2> SUFFICES ASSUME IInv, Next PROVE Fair
    OBVIOUS
  <2>0. status \in [Requests -> Statuses]
    BY DEF IInv, TypeOK, Statuses
  <2>1. ASSUME NEW r \in Requests, NEW c \in Caps, AcquireFast(r, c) PROVE Fair
    <3>1. Holding' = Holding \cup {r} /\ r \notin Waiting
      BY <2>0, <2>1 DEF AcquireFast, Holding, Waiting
    <3> QED
      BY <3>1 DEF Admitted
  <2>2. ASSUME Holding' \subseteq Holding PROVE Fair
    BY <2>2 DEF Admitted
  <2>3. ASSUME NEW r \in Requests, NEW c \in Caps, NEW q \in QueueSizes,
               AcquireQueueFull(r, c, q) \/ AcquireQueued(r, c, q)
        PROVE  Fair
    <3>1. Holding' = Holding
      BY <2>0, <2>3 DEF AcquireQueueFull, AcquireQueued, Holding
    <3> QED
      BY <2>2, <3>1
  <2>4. ASSUME NEW r \in Requests, TimeOut(r) \/ MarkRateLimited(r) PROVE Fair
    <3>1. Holding' = Holding
      BY <2>0, <2>4 DEF TimeOut, MarkRateLimited, Holding
    <3> QED
      BY <2>2, <3>1
  <2>5. ASSUME NEW r \in Requests, Release(r) PROVE Fair
    <3> DEFINE st == [status EXCEPT ![r] = "idle"]
    <3>1. /\ running - 1 \in Nat /\ st \in [Requests -> Statuses]
          /\ Waiters(st) = Waiting /\ Holders(st) \subseteq Holding
          /\ Drain(running - 1, limited, st, timers, orphans)
      BY <2>5, ReleaseDrains
    <3>2. limited \in Limits
      BY DEF IInv, TypeOK, Limits
    <3> HIDE DEF st
    <3> QED
      BY <3>1, <3>2, DrainInOrder
  <2>6. CASE CooldownElapses
    BY <2>2, <2>6 DEF CooldownElapses, Holding
  <2>7. CASE TimerFires \/ OrphanTimerFires
    <3>1. ASSUME NEW b \in Limits, NEW own, NEW others,
                 Drain(running, b, status, own, others)
          PROVE  Fair
      BY <3>1, CallersAsTheyAre, DrainInOrder
    <3>2. CASE UNCHANGED status
      BY <2>2, <3>2 DEF Holding
    <3>3. "none" \in Limits /\ limited \in Limits
      BY DEF Limits, IInv, TypeOK
    <3> QED
      BY <2>7, <3>1, <3>2, <3>3 DEF TimerFires, OrphanTimerFires
  <2> QED
    BY <2>1, <2>3, <2>4, <2>5, <2>6, <2>7 DEF Next
<1> QED
  BY <1>1, Invariance, PTL DEF Spec, WaitersInOrder

-----------------------------------------------------------------------------
(* The refinement of the abstract limiter *)

(* The limiter's module counts with its own instance of FiniteSets. *)
LEMMA SameCardinality == \A S : Limiter!Cardinality(S) = Cardinality(S)
BY DEF Limiter!Cardinality, Cardinality

(* drainQueue is a shift of waiters into free slots. *)
LEMMA DrainShifts ==
  ASSUME IInv,
         NEW n \in Nat, NEW b \in Limits, NEW st \in [Requests -> Statuses],
         Waiters(st) = Waiting, n = Cardinality(Holders(st)),
         NEW own, NEW others,
         Drain(n, b, st, own, others), UNCHANGED max
  PROVE  \E S \in SUBSET Waiting :
           /\ Holding' = Holders(st) \cup S
           /\ Waiting' = Waiting \ S
           /\ S # {} => Cardinality(Holding') <= max'
<1> DEFINE k == Admissible(n, b)
<1>1. /\ k \in 0..Len(queue)
      /\ Holding' = Holders(st) \cup Front(queue, k)
      /\ Waiting' = Waiting \ Front(queue, k)
      /\ Cardinality(Holding') = n + k
  BY DrainEffect DEF IInv
<1>2. Len(queue) \in Nat /\ max \in Nat /\ queue \in Seq(Requests)
  BY LenProperties DEF IInv, TypeOK
<1>3. Front(queue, k) \subseteq Waiting
  BY <1>1, <1>2, FrontSize, QueueOfWaiters DEF IInv
<1>4. ASSUME Front(queue, k) # {}
      PROVE  Cardinality(Holding') <= max'
  <2>1. k > 0
    BY <1>1, <1>2, <1>4 DEF Front
  <2>2. n + k <= max
    BY <1>2, <2>1 DEF Admissible
  <2> HIDE DEF k
  <2> QED
    BY <1>1, <2>2
<1> HIDE DEF k
<1>5. Front(queue, k) \in SUBSET Waiting
  BY <1>3
<1> QED
  BY <1>1, <1>4, <1>5

(* acquire enters, waits or is turned away, as the limiter lets it. *)
LEMMA AcquireRefines ==
  ASSUME IInv, NEW r \in Requests, NEW c \in Caps,
         \/ AcquireFast(r, c)
         \/ \E q \in QueueSizes : AcquireQueueFull(r, c, q) \/ AcquireQueued(r, c, q)
  PROVE  [Limiter!Next]_(Limiter!lvars)
<1>0. status \in [Requests -> Statuses] /\ c \in Nat /\ running \in Nat
  BY CapsPositive DEF IInv, TypeOK, Statuses
<1>1. CASE AcquireFast(r, c)
  <2>1. /\ Holding' = Holding \cup {r} /\ Waiting' = Waiting
        /\ r \notin Holding \cup Waiting
    BY <1>0, <1>1 DEF AcquireFast, Holding, Waiting
  <2>2. running < c /\ max' = c
    BY <1>1 DEF AcquireFast, HasRoom, GetGate
  <2>3. Cardinality(Holding') = running + 1
    <3>1. Cardinality(Holding \cup {r}) = Cardinality(Holding) + 1
      BY <2>1, HoldingFinite, FS_AddElement
    <3>2. Cardinality(Holding') = Cardinality(Holding \cup {r})
      BY <2>1, Zenon
    <3> QED
      BY <3>1, <3>2 DEF IInv, SlotsAccounted
  <2>4. Cardinality(Holding') <= max' /\ max' \in Nat
    BY <1>0, <2>2, <2>3
  <2>5. Limiter!Shift({}, {r})
    BY <2>1, <2>4, SameCardinality DEF Limiter!Shift
  <2>6. Limiter!Enter(r)
    BY <2>1, <2>4, <2>5 DEF Limiter!Enter
  <2> QED
    BY <2>6 DEF Limiter!Next
<1>2. ASSUME NEW q \in QueueSizes, AcquireQueueFull(r, c, q)
      PROVE  Limiter!Next
  <2>1. Holding' = Holding /\ Waiting' = Waiting /\ max' \in Nat
    BY <1>0, <1>2 DEF AcquireQueueFull, Holding, Waiting
  <2>2. Limiter!TurnAway
    BY <2>1 DEF Limiter!TurnAway
  <2> QED
    BY <2>2 DEF Limiter!Next
<1>3. ASSUME NEW q \in QueueSizes, AcquireQueued(r, c, q)
      PROVE  Limiter!Next
  <2>1. /\ Holding' = Holding /\ Waiting' = Waiting \cup {r}
        /\ r \notin Holding \cup Waiting /\ max' \in Nat
    BY <1>0, <1>3 DEF AcquireQueued, GetGate, Holding, Waiting
  <2>2. Limiter!Wait(r)
    BY <2>1 DEF Limiter!Wait
  <2> QED
    BY <2>2 DEF Limiter!Next
<1> QED
  BY <1>1, <1>2, <1>3

(* A timeout withdraws a waiter; a release gives a slot back; a mark changes the
   cap in force, and nothing else that the limiter tells its callers. *)
LEMMA HolderRefines ==
  ASSUME IInv, NEW r \in Requests, TimeOut(r) \/ Release(r) \/ MarkRateLimited(r)
  PROVE  [Limiter!Next]_(Limiter!lvars)
<1>1. CASE TimeOut(r)
  <2>1. Holding' = Holding /\ Waiting' = Waiting \ {r} /\ r \in Waiting
    BY <1>1, TimeOutEffect
  <2>2. Limiter!Withdraw(r)
    BY <1>1, <2>1 DEF TimeOut, Limiter!Withdraw
  <2> QED
    BY <2>2 DEF Limiter!Next
<1>2. CASE MarkRateLimited(r)
  <2>1. Holding' = Holding /\ Waiting' = Waiting /\ max' \in Nat
    BY <1>2, CapsPositive DEF MarkRateLimited, GetGate, Holding, Waiting
  <2>2. Limiter!TurnAway
    BY <2>1 DEF Limiter!TurnAway
  <2> QED
    BY <2>2 DEF Limiter!Next
<1>3. CASE Release(r)
  <2> DEFINE st == [status EXCEPT ![r] = "idle"]
  <2>1. /\ r \in Holding
        /\ running - 1 \in Nat
        /\ st \in [Requests -> Statuses]
        /\ Waiters(st) = Waiting /\ Holders(st) = Holding \ {r}
        /\ running - 1 = Cardinality(Holders(st))
        /\ Drain(running - 1, limited, st, timers, orphans)
        /\ UNCHANGED max
    BY <1>3, ReleaseDrains
  <2>2. limited \in Limits
    BY DEF IInv, TypeOK, Limits
  <2> HIDE DEF st
  <2>3. \E S \in SUBSET Waiting :
           /\ Holding' = Holders(st) \cup S
           /\ Waiting' = Waiting \ S
           /\ S # {} => Cardinality(Holding') <= max'
    BY <2>1, <2>2, DrainShifts
  <2>4. \E S \in SUBSET Waiting : Limiter!Shift({r}, S)
    BY <2>1, <2>3, SameCardinality DEF Limiter!Shift
  <2>5. Limiter!GiveBack(r)
    BY <2>1, <2>4 DEF Limiter!GiveBack
  <2> QED
    BY <2>5 DEF Limiter!Next
<1> QED
  BY <1>1, <1>2, <1>3

(* The clock is invisible to the limiter; a timer that drains promotes waiters. *)
LEMMA TimersRefine ==
  ASSUME IInv, CooldownElapses \/ TimerFires \/ OrphanTimerFires
  PROVE  [Limiter!Next]_(Limiter!lvars)
<1>1. ASSUME NEW b \in Limits, NEW own, NEW others,
             Drain(running, b, status, own, others), UNCHANGED max
      PROVE  Limiter!Next
  <2>1. \E S \in SUBSET Waiting :
           /\ Holding' = Holding \cup S
           /\ Waiting' = Waiting \ S
           /\ S # {} => Cardinality(Holding') <= max'
    BY <1>1, CallersAsTheyAre, DrainShifts
  <2>2. Limiter!Promote
    BY <1>1, <2>1, SameCardinality DEF Limiter!Promote, Limiter!Shift
  <2> QED
    BY <2>2 DEF Limiter!Next
<1>2. CASE UNCHANGED <<status, max>>
  BY <1>2 DEF Limiter!lvars, Holding, Waiting
<1>3. "none" \in Limits /\ limited \in Limits
  BY DEF Limits, IInv, TypeOK
<1> QED
  BY <1>1, <1>2, <1>3 DEF CooldownElapses, TimerFires, OrphanTimerFires

(* The gates of a key, deleted and made anew behind their callers and drained by
   the timers of dead ones, act as one limiter that lives for ever: whoever is
   admitted finds a slot within the cap written last.  It holds for every set of
   callers, caps and queue sizes; cooldowns are left out of the promise. *)
THEOREM Refinement == Spec => ImplementsLimiter
<1>1. Init => Limiter!Init
  <2> SUFFICES ASSUME Init PROVE Limiter!Init
    OBVIOUS
  <2>1. Holding = {} /\ Waiting = {} /\ max \in Nat
    BY CapsPositive DEF Init, Holding, Waiting
  <2> QED
    BY <2>1 DEF Limiter!Init
<1>2. IInv /\ [Next]_vars => [Limiter!Next]_(Limiter!lvars)
  <2> SUFFICES ASSUME IInv, [Next]_vars PROVE [Limiter!Next]_(Limiter!lvars)
    OBVIOUS
  <2>1. CASE UNCHANGED vars
    BY <2>1 DEF vars, Limiter!lvars, Holding, Waiting
  <2>2. CASE Next
    BY <2>2, AcquireRefines, HolderRefines, TimersRefine DEF Next
  <2> QED
    BY <2>1, <2>2
<1> QED
  BY <1>1, <1>2, Invariance, PTL DEF Spec, ImplementsLimiter, Limiter!Spec
=============================================================================
