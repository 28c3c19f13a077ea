---------------------------- MODULE BreakerProofs ----------------------------
(***************************************************************************)
(* What the methods of one breaker preserve, for every threshold and in    *)
(* every state a breaker can be in, and what each of them does to the      *)
(* traffic in the terms of CircuitGuard.  CircuitBreakerProofs and         *)
(* ProviderCircuitProofs put these lemmas together.                        *)
(***************************************************************************)
EXTENDS Breaker, TLAPS

(* A breaker object as every method finds it and leaves it. *)
Sound(b) ==
  /\ b \in Breakers
  /\ b.elapsed => b.state = "OPEN"
  /\ b.state = "CLOSED" => b.failureCount <= DegradationThreshold
  /\ b.state = "DEGRADED" => b.failureCount >= DegradationThreshold
  /\ b.state \in {"CLOSED", "DEGRADED"} => b.failureCount < FailureThreshold

(* A counter that saturates stays in its range. *)
LEMMA BumpRange ==
  ASSUME NEW m \in Nat, NEW n \in 0..m
  PROVE  /\ Bump(n, m) \in 0..m
         /\ n < m => Bump(n, m) = n + 1
  BY DEF Bump

(* What a new object looks like. *)
LEMMA FreshSound == Sound(Fresh)
  BY ThresholdsPositive DEF Sound, Breakers, Fresh, States

(* Moving to another state keeps the counters and refills the probes. *)
LEMMA TransitionFields ==
  ASSUME NEW b \in Breakers, NEW s \in States
  PROVE  /\ Transition(b, s) \in Breakers
         /\ Transition(b, s).state = s
         /\ Transition(b, s).elapsed = FALSE
         /\ Transition(b, s).failureCount = b.failureCount
         /\ Transition(b, s).openCycleCount = b.openCycleCount
         /\ s = "HALF_OPEN" => Transition(b, s).halfOpenAllowed = HalfOpenRequests
  <1> DEFINE h == IF s = "HALF_OPEN" THEN HalfOpenRequests ELSE b.halfOpenAllowed
  <1>1. Transition(b, s) = [b EXCEPT !.state = s, !.elapsed = FALSE, !.halfOpenAllowed = h]
    BY DEF Transition
  <1>2. HalfOpenRequests \in 0..HalfOpenRequests
    BY ThresholdsPositive
  <1>3. h \in 0..HalfOpenRequests
    BY <1>2 DEF Breakers
  <1>4. s = "HALF_OPEN" => h = HalfOpenRequests
    OBVIOUS
  <1> HIDE DEF h
  <1> QED
    BY <1>1, <1>3, <1>4 DEF Breakers

(* The states are States, as the definitions name them one by one. *)
LEMMA StateNames ==
  "CLOSED" \in States /\ "DEGRADED" \in States /\ "OPEN" \in States /\ "HALF_OPEN" \in States
  BY DEF States

(* _refreshOpenState touches no counter, and changes nothing of what the
   breaker means to the traffic. *)
LEMMA RefreshSound ==
  ASSUME NEW b, Sound(b)
  PROVE  /\ Sound(Refresh(b))
         /\ Refresh(b).openCycleCount = b.openCycleCount
         /\ GuardPhase(Refresh(b)) = GuardPhase(b)
         /\ GuardBudget(Refresh(b)) = GuardBudget(b)
         /\ Refresh(b) # b => /\ b.state = "OPEN"
                              /\ Refresh(b).state = "HALF_OPEN"
  <1>1. CASE b.state = "OPEN" /\ b.elapsed
    <2>1. Refresh(b) = Transition(b, "HALF_OPEN")
      BY <1>1 DEF Refresh
    <2>2. b \in Breakers
      BY DEF Sound
    <2>3. /\ Refresh(b) \in Breakers
          /\ Refresh(b).state = "HALF_OPEN"
          /\ Refresh(b).elapsed = FALSE
          /\ Refresh(b).openCycleCount = b.openCycleCount
          /\ Refresh(b).halfOpenAllowed = HalfOpenRequests
      <3> DEFINE t == Transition(b, "HALF_OPEN")
      <3>1. /\ t \in Breakers /\ t.state = "HALF_OPEN" /\ t.elapsed = FALSE
            /\ t.openCycleCount = b.openCycleCount
            /\ t.halfOpenAllowed = HalfOpenRequests
        BY <2>2, StateNames, TransitionFields
      <3> QED
        BY <2>1, <3>1, Zenon
    <2>4. Sound(Refresh(b))
      BY <2>3 DEF Sound
    <2>5. GuardPhase(b) = "probing" /\ GuardPhase(Refresh(b)) = "probing"
      BY <1>1, <2>3 DEF GuardPhase
    <2>6. GuardBudget(b) = HalfOpenRequests /\ GuardBudget(Refresh(b)) = HalfOpenRequests
      BY <1>1, <2>3 DEF GuardBudget
    <2> QED
      BY <1>1, <2>3, <2>4, <2>5, <2>6
  <1>2. CASE ~(b.state = "OPEN" /\ b.elapsed)
    BY <1>2 DEF Refresh
  <1> QED
    BY <1>1, <1>2

(* Taking a probe leaves one less, and nothing else changes. *)
LEMMA TakeProbeSound ==
  ASSUME NEW b, Sound(b), Executable(b)
  PROVE  /\ Sound(TakeProbe(b))
         /\ Row(TakeProbe(b)) = Row(b)
         /\ TakeProbe(b).openCycleCount = b.openCycleCount
         /\ GuardPhase(TakeProbe(b)) = GuardPhase(b)
         /\ \/ GuardPhase(b) = "flowing" /\ GuardBudget(TakeProbe(b)) = GuardBudget(b)
            \/ /\ GuardPhase(b) = "probing"
               /\ GuardBudget(b) > 0
               /\ GuardBudget(TakeProbe(b)) = GuardBudget(b) - 1
  <1>1. CASE b.state = "HALF_OPEN"
    <2>1. TakeProbe(b) = [b EXCEPT !.halfOpenAllowed = @ - 1]
      BY <1>1 DEF TakeProbe
    <2>2. b.halfOpenAllowed > 0 /\ b.halfOpenAllowed \in 0..HalfOpenRequests
      BY <1>1 DEF Executable, Sound, Breakers
    <2>3. b.halfOpenAllowed - 1 \in 0..HalfOpenRequests
      BY <2>2, ThresholdsPositive
    <2> QED
      BY <1>1, <2>1, <2>2, <2>3 DEF Sound, Breakers, Row, GuardPhase, GuardBudget
  <1>2. CASE b.state # "HALF_OPEN"
    <2>1. TakeProbe(b) = b
      BY <1>2 DEF TakeProbe
    <2>2. b.state \in {"CLOSED", "DEGRADED"}
      BY <1>2 DEF Executable
    <2> QED
      BY <2>1, <2>2 DEF GuardPhase, GuardBudget
  <1> QED
    BY <1>1, <1>2

(* What a verdict may do to the traffic: nothing, let it flow, or let it rest. *)
Judged(b, c) ==
  \/ GuardPhase(c) = GuardPhase(b) /\ GuardBudget(c) = GuardBudget(b)
  \/ GuardPhase(c) = "flowing" /\ GuardBudget(c) = 0
  \/ GuardPhase(c) = "resting" /\ GuardBudget(c) = 0

(* reset, and a success that ends an outage, leave a CLOSED breaker with its
   counters at zero. *)
LEMMA ClearedSound ==
  ASSUME NEW b, Sound(b)
  PROVE  /\ Sound(Cleared(b))
         /\ Cleared(b).state = "CLOSED"
         /\ Cleared(b).openCycleCount = 0
         /\ Judged(b, Cleared(b))
  <1> DEFINE t == Transition(b, "CLOSED")
             c == [t EXCEPT !.failureCount = 0, !.openCycleCount = 0]
  <1>1. b \in Breakers
    BY DEF Sound
  <1>2. t \in Breakers /\ t.state = "CLOSED" /\ t.elapsed = FALSE
    BY <1>1, StateNames, TransitionFields
  <1>3. Cleared(b) = c
    BY DEF Cleared
  <1> HIDE DEF t
  <1>4. 0 \in 0..FailureThreshold /\ 0 \in 0..MaxCycles
    BY ThresholdsPositive
  <1>5. /\ c \in Breakers /\ c.state = "CLOSED" /\ c.elapsed = FALSE
        /\ c.failureCount = 0 /\ c.openCycleCount = 0
    BY <1>2, <1>4 DEF Breakers
  <1> HIDE DEF c
  <1>6. Sound(c)
    BY <1>5, ThresholdsPositive DEF Sound
  <1>7. GuardPhase(c) = "flowing"
    BY <1>5 DEF GuardPhase
  <1>8. GuardBudget(c) = 0
    BY <1>5 DEF GuardBudget
  <1> QED
    BY <1>3, <1>5, <1>6, <1>7, <1>8 DEF Judged

(* How the history variable follows the breaker from b to c. *)
Noted(b, c, f, g) ==
  g = CASE c.state = "CLOSED" /\ b.state \in {"OPEN", "HALF_OPEN"} -> 0
        [] c.state = "OPEN" /\ b.state = "HALF_OPEN" -> Bump(f, MaxCycles)
        [] OTHER -> f

(* _onSuccess, in whatever state it comes. *)
LEMMA SuccessSound ==
  ASSUME NEW b, Sound(b)
  PROVE  /\ Sound(OnSuccess(b))
         /\ Judged(b, OnSuccess(b))
         /\ \A f, g : f = b.openCycleCount /\ Noted(b, OnSuccess(b), f, g)
                        => g = OnSuccess(b).openCycleCount
  <1> DEFINE n == IF b.failureCount > 0 THEN b.failureCount - 1 ELSE 0
             c == [b EXCEPT !.failureCount = n]
  <1>1. CASE b.state \in {"OPEN", "HALF_OPEN"}
    <2>1. OnSuccess(b) = Cleared(b)
      BY <1>1 DEF OnSuccess
    <2> QED
      BY <1>1, <2>1, ClearedSound DEF Noted
  <1>2. CASE b.state \in {"CLOSED", "DEGRADED"}
    <2>1. b.failureCount \in 0..FailureThreshold
      BY DEF Sound, Breakers
    <2>2. n \in 0..FailureThreshold /\ n <= b.failureCount
      BY <2>1, ThresholdsPositive
    <2>3. c \in Breakers /\ c.state = b.state /\ c.elapsed = b.elapsed
          /\ c.failureCount = n /\ c.openCycleCount = b.openCycleCount
      BY <2>2 DEF Sound, Breakers
    <2> HIDE DEF n, c
    <2>4. CASE b.state = "DEGRADED" /\ n <= DegradationThreshold
      <3>1. OnSuccess(b) = Transition(c, "CLOSED")
        BY <2>4 DEF OnSuccess, n, c
      <3>2. Transition(c, "CLOSED") \in Breakers
            /\ Transition(c, "CLOSED").state = "CLOSED"
            /\ Transition(c, "CLOSED").elapsed = FALSE
            /\ Transition(c, "CLOSED").failureCount = n
            /\ Transition(c, "CLOSED").openCycleCount = b.openCycleCount
        BY <2>3, TransitionFields DEF States
      <3>3. n < FailureThreshold
        BY <2>1, <2>2, <2>4, ThresholdsPositive DEF Sound
      <3>4. Sound(OnSuccess(b))
        BY <2>4, <3>1, <3>2, <3>3 DEF Sound
      <3>5. Judged(b, OnSuccess(b))
        BY <3>1, <3>2 DEF Judged, GuardPhase, GuardBudget
      <3> QED
        BY <2>4, <3>1, <3>2, <3>4, <3>5 DEF Noted
    <2>5. CASE ~(b.state = "DEGRADED" /\ n <= DegradationThreshold)
      <3>1. OnSuccess(b) = c
        BY <1>2, <2>5 DEF OnSuccess, n, c
      <3>2. Sound(c)
        BY <1>2, <2>1, <2>2, <2>3, <2>5, ThresholdsPositive DEF Sound
      <3>3. Judged(b, c)
        <4>1. b.state \in {"CLOSED", "DEGRADED"}
          BY <1>2
        <4>2. GuardPhase(c) = "flowing"
          BY <2>3, <4>1 DEF GuardPhase
        <4>3. GuardBudget(c) = 0
          BY <2>3, <4>1 DEF GuardBudget
        <4> QED
          BY <4>2, <4>3 DEF Judged
      <3> QED
        BY <1>2, <2>3, <3>1, <3>2, <3>3 DEF Noted
    <2> QED
      BY <2>4, <2>5
  <1> QED
    BY <1>1, <1>2 DEF Sound, Breakers, States

(* _onFailure, in whatever state it comes. *)
LEMMA FailureSound ==
  ASSUME NEW b, Sound(b)
  PROVE  /\ Sound(OnFailure(b))
         /\ Judged(b, OnFailure(b))
         /\ \A f, g : f = b.openCycleCount /\ Noted(b, OnFailure(b), f, g)
                        => g = OnFailure(b).openCycleCount
  <1> DEFINE n == Bump(b.failureCount, FailureThreshold)
             c == [b EXCEPT !.failureCount = n, !.elapsed = FALSE]
  <1>1. /\ b.failureCount \in 0..FailureThreshold
        /\ b.openCycleCount \in 0..MaxCycles
        /\ b.state \in States
    BY DEF Sound, Breakers
  <1>2. /\ n \in 0..FailureThreshold
        /\ b.failureCount < FailureThreshold => n = b.failureCount + 1
    BY <1>1, BumpRange, ThresholdsPositive
  <1>3. Bump(b.openCycleCount, MaxCycles) \in 0..MaxCycles
    BY <1>1, BumpRange, ThresholdsPositive
  <1>4. /\ c \in Breakers /\ c.state = b.state /\ c.elapsed = FALSE
        /\ c.failureCount = n /\ c.openCycleCount = b.openCycleCount
    BY <1>2 DEF Sound, Breakers
  <1> HIDE DEF n, c
  <1>5. CASE b.state = "OPEN"
    <2>1. OnFailure(b) = c
      BY <1>5 DEF OnFailure, n, c
    <2>2. Sound(c)
      BY <1>4, <1>5 DEF Sound
    <2>3. Judged(b, c)
      <3>1. GuardPhase(c) = "resting"
        BY <1>4, <1>5 DEF GuardPhase
      <3>2. GuardBudget(c) = 0
        BY <1>4, <1>5 DEF GuardBudget
      <3> QED
        BY <3>1, <3>2 DEF Judged
    <2> QED
      BY <1>4, <1>5, <2>1, <2>2, <2>3 DEF Noted
  <1>6. CASE b.state = "HALF_OPEN"
    <2> DEFINE d == [c EXCEPT !.openCycleCount = Bump(@, MaxCycles)]
    <2>1. OnFailure(b) = Transition(d, "OPEN")
      BY <1>6 DEF OnFailure, n, c
    <2>2. d \in Breakers /\ d.openCycleCount = Bump(b.openCycleCount, MaxCycles)
      BY <1>3, <1>4 DEF Breakers
    <2> HIDE DEF d
    <2>3. /\ OnFailure(b) \in Breakers /\ OnFailure(b).state = "OPEN"
          /\ OnFailure(b).elapsed = FALSE
          /\ OnFailure(b).openCycleCount = Bump(b.openCycleCount, MaxCycles)
      <3> DEFINE t == Transition(d, "OPEN")
      <3>1. /\ t \in Breakers /\ t.state = "OPEN" /\ t.elapsed = FALSE
            /\ t.openCycleCount = d.openCycleCount
        BY <2>2, StateNames, TransitionFields
      <3> QED
        BY <2>1, <2>2, <3>1, Zenon
    <2>4. Sound(OnFailure(b))
      BY <2>3 DEF Sound
    <2>5. Judged(b, OnFailure(b))
      BY <2>3 DEF Judged, GuardPhase, GuardBudget
    <2> QED
      BY <1>6, <2>3, <2>4, <2>5 DEF Noted
  <1>7. CASE b.state \in {"CLOSED", "DEGRADED"} /\ n >= FailureThreshold
    <2>1. OnFailure(b) = Transition(c, "OPEN")
      BY <1>2, <1>7, ThresholdsPositive DEF OnFailure, n, c
    <2>2. /\ OnFailure(b) \in Breakers /\ OnFailure(b).state = "OPEN"
          /\ OnFailure(b).elapsed = FALSE
          /\ OnFailure(b).openCycleCount = b.openCycleCount
      <3> DEFINE t == Transition(c, "OPEN")
      <3>1. /\ t \in Breakers /\ t.state = "OPEN" /\ t.elapsed = FALSE
            /\ t.openCycleCount = c.openCycleCount
        BY <1>4, StateNames, TransitionFields
      <3> QED
        BY <1>4, <2>1, <3>1, Zenon
    <2>3. Sound(OnFailure(b))
      BY <2>2 DEF Sound
    <2>4. Judged(b, OnFailure(b))
      BY <2>2 DEF Judged, GuardPhase, GuardBudget
    <2> QED
      BY <1>7, <2>2, <2>3, <2>4 DEF Noted
  <1>8. CASE b.state = "CLOSED" /\ n < FailureThreshold /\ n >= DegradationThreshold
    <2>1. OnFailure(b) = Transition(c, "DEGRADED")
      BY <1>2, <1>8, ThresholdsPositive DEF OnFailure, n, c
    <2>2. /\ OnFailure(b) \in Breakers /\ OnFailure(b).state = "DEGRADED"
          /\ OnFailure(b).elapsed = FALSE
          /\ OnFailure(b).failureCount = n
          /\ OnFailure(b).openCycleCount = b.openCycleCount
      <3> DEFINE t == Transition(c, "DEGRADED")
      <3>1. /\ t \in Breakers /\ t.state = "DEGRADED" /\ t.elapsed = FALSE
            /\ t.failureCount = c.failureCount
            /\ t.openCycleCount = c.openCycleCount
        BY <1>4, StateNames, TransitionFields
      <3> QED
        BY <1>4, <2>1, <3>1, Zenon
    <2>3. Sound(OnFailure(b))
      BY <1>8, <2>2 DEF Sound
    <2>4. Judged(b, OnFailure(b))
      BY <2>2 DEF Judged, GuardPhase, GuardBudget
    <2> QED
      BY <1>8, <2>2, <2>3, <2>4 DEF Noted
  <1>9. CASE \/ b.state = "CLOSED" /\ n < FailureThreshold /\ n < DegradationThreshold
             \/ b.state = "DEGRADED" /\ n < FailureThreshold
    <2>1. OnFailure(b) = c
      BY <1>2, <1>9, ThresholdsPositive DEF OnFailure, n, c
    <2>2. Sound(c)
      BY <1>1, <1>2, <1>4, <1>9, ThresholdsPositive DEF Sound
    <2>3. Judged(b, c)
      <3>1. GuardPhase(c) = "flowing"
        BY <1>4, <1>9 DEF GuardPhase
      <3>2. GuardBudget(c) = 0
        BY <1>4, <1>9 DEF GuardBudget
      <3> QED
        BY <3>1, <3>2 DEF Judged
    <2> QED
      BY <1>4, <1>9, <2>1, <2>2, <2>3 DEF Noted
  <1> QED
    BY <1>1, <1>2, <1>5, <1>6, <1>7, <1>8, <1>9, ThresholdsPositive DEF States

(* _restoreFromDb brings back the breaker of the row, its probes refilled. *)
LEMMA RestoredSound ==
  ASSUME NEW b, Sound(b)
  PROVE  /\ Sound(Restored(Row(b), b.elapsed))
         /\ Row(Restored(Row(b), b.elapsed)) = Row(b)
         /\ Restored(Row(b), b.elapsed).openCycleCount = b.openCycleCount
         /\ GuardPhase(Restored(Row(b), b.elapsed)) = GuardPhase(b)
         /\ GuardBudget(Restored(Row(b), b.elapsed)) =
              IF GuardPhase(b) = "probing" THEN HalfOpenRequests ELSE 0
  <1> DEFINE c == Restored(Row(b), b.elapsed)
  <1>1. /\ c.state = b.state /\ c.failureCount = b.failureCount
        /\ c.openCycleCount = b.openCycleCount
        /\ c.elapsed = (b.state = "OPEN" /\ b.elapsed)
        /\ c.halfOpenAllowed = IF b.state = "HALF_OPEN" THEN HalfOpenRequests ELSE 0
    BY DEF Restored, Row
  <1>2. c \in Breakers
    BY ThresholdsPositive DEF Restored, Row, Sound, Breakers
  <1>3. c.elapsed = b.elapsed
    BY <1>1 DEF Sound, Breakers
  <1> HIDE DEF c
  <1>4. Sound(c)
    BY <1>1, <1>2, <1>3 DEF Sound
  <1>5. Row(c) = Row(b)
    BY <1>1 DEF Row
  <1>6. b.state \in States
    BY DEF Sound, Breakers
  <1>7. /\ GuardPhase(c) = GuardPhase(b)
        /\ GuardBudget(c) = IF GuardPhase(b) = "probing" THEN HalfOpenRequests ELSE 0
    BY <1>1, <1>3, <1>6 DEF GuardPhase, GuardBudget, States
  <1> QED
    BY <1>1, <1>4, <1>5, <1>7 DEF c
=============================================================================
