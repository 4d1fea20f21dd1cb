-------------------------- MODULE CommitPacingProofs --------------------------
(***************************************************************************)
(* Theorems about CommitPacing, for any number of threads and commits and   *)
(* any window, budget and waits.                                            *)
(*                                                                          *)
(* The governor: the stamps it has dropped are all older than the window    *)
(* (StampInv), so when it grants a slot with fewer than MaxPerHour stamps   *)
(* kept, the slot MaxPerHour before the new one is among the dropped.       *)
(* The retry loop: the clock, throttles apart, is never behind the backoff  *)
(* made so far (WaitInv), so what the clock allows the total allows.        *)
(***************************************************************************)
EXTENDS CommitPacing, TLAPS

\* The backoff is a number of seconds, whatever the attempt.
LEMMA BackoffNat == ASSUME NEW n \in Nat PROVE Backoff(n) \in Nat
  <1>1. CASE n < 6
    <2>1. n = 0 \/ n = 1 \/ n = 2 \/ n = 3 \/ n = 4 \/ n = 5
      BY <1>1
    <2> QED BY <2>1 DEF Backoff
  <1>2. CASE ~(n < 6)
    BY <1>2 DEF Backoff
  <1> QED BY <1>1, <1>2

\* A number that is taken from one side is given to the other.
LEMMA MovedOver ==
  ASSUME NEW a \in Nat, NEW b \in Nat, NEW c \in Nat, a <= b - c
  PROVE  b - a >= c
  OBVIOUS

\* With fewer than m slots after the f-th, the one m before the next is among the others.
LEMMA DroppedSlot ==
  ASSUME NEW n \in Nat, NEW f \in Nat, NEW m \in Nat \ {0}, NEW i \in Nat,
         i >= 1, n - f + 1 < m, i + m = n + 1
  PROVE  i \in 1..f - 1 /\ i \in 1..n
  OBVIOUS

\* A backoff that fits in what is left of the total keeps the sum of backoffs in it.
LEMMA BackoffFits ==
  ASSUME NEW n \in Nat, NEW s \in Nat, NEW z \in Nat, NEW w \in Nat, NEW b \in Nat,
         NEW T \in Nat, n - s - z >= w, ~(n - s - z + b > T)
  PROVE  /\ n - s - z + b <= T /\ w + b <= T /\ (n + b) - s - z >= w + b
  OBVIOUS

\* A function of naturals stays one when a value is replaced.
LEMMA NatUpdate ==
  ASSUME NEW S, NEW f \in [S -> Nat], NEW t \in S, NEW v \in Nat
  PROVE  [f EXCEPT ![t] = v] \in [S -> Nat]
  OBVIOUS

\* Every variable keeps its type, and no commit is attempted more than
\* MaxAttempts times (_commit_with_retry).
THEOREM TypeCorrect == Spec => []TypeOK
  <1> USE ConstantsOK
  <1>1. Init => TypeOK
    BY DEF Init, TypeOK, States, Verdicts
  <1>2. TypeOK /\ [Next]_vars => TypeOK'
    <2> SUFFICES ASSUME TypeOK, [Next]_vars PROVE TypeOK'
      OBVIOUS
    <2> USE DEF TypeOK
    <2>1. CASE Tick
      <3>1. busy' \in [Threads -> Nat] /\ now' \in Nat
        BY <2>1 DEF Tick
      <3> QED BY <2>1, <3>1 DEF Tick, governor, locals
    <2>2. ASSUME NEW t \in Threads, Begin(t) PROVE TypeOK'
      BY <2>2 DEF Begin, governor, States, Verdicts
    <2>3. ASSUME NEW t \in Threads, Acquire(t) PROVE TypeOK'
      <3>1. PICK f \in first..Len(grants) + 1 :
              /\ Keeps(f) /\ first' = f
              /\ IF Len(grants) - f + 1 < MaxPerHour
                   THEN /\ grants' = Append(grants, now)
                        /\ pc' = [pc EXCEPT ![t] = "commit"]
                        /\ UNCHANGED wake
                   ELSE /\ wake' = [wake EXCEPT ![t] = grants[f] + Window]
                        /\ pc' = [pc EXCEPT ![t] = "paused"]
                        /\ UNCHANGED grants
        BY <2>3 DEF Acquire
      <3>2. CASE Len(grants) - f + 1 < MaxPerHour
        <4>1. /\ grants' = Append(grants, now) /\ first' = f /\ wake' = wake
              /\ pc' = [pc EXCEPT ![t] = "commit"]
          BY <3>1, <3>2
        <4>2. grants' \in Seq(Nat) /\ first' \in 1..Len(grants') + 1
          BY <4>1
        <4>3. pc' \in [Threads -> States]
          BY <4>1 DEF States
        <4> QED BY <2>3, <4>1, <4>2, <4>3 DEF Acquire, locals
      <3>3. CASE ~(Len(grants) - f + 1 < MaxPerHour)
        <4>1. /\ grants' = grants /\ first' = f
              /\ wake' = [wake EXCEPT ![t] = grants[f] + Window]
              /\ pc' = [pc EXCEPT ![t] = "paused"]
          BY <3>1, <3>3
        <4>2. f \in 1..Len(grants)
          BY <3>3
        <4>3. grants[f] + Window \in Nat
          BY <4>2
        <4>4. wake' \in [Threads -> Nat] /\ pc' \in [Threads -> States]
          BY <4>1, <4>3 DEF States
        <4>5. /\ now' = now /\ attempt' = attempt /\ start' = start /\ throttled' = throttled
              /\ waits' = waits /\ busy' = busy /\ verdict' = verdict /\ commits' = commits
          BY <2>3 DEF Acquire, locals
        <4>6. first' \in 1..Len(grants') + 1
          BY <4>1
        <4> QED BY <4>1, <4>4, <4>5, <4>6
      <3> QED BY <3>2, <3>3
    <2>4. ASSUME NEW t \in Threads, Resume(t) PROVE TypeOK'
      BY <2>4 DEF Resume, governor, locals, States
    <2>5. ASSUME NEW t \in Threads, Answered(t) PROVE TypeOK'
      BY <2>5 DEF Answered, End, governor, locals, States, Verdicts
    <2>6. ASSUME NEW t \in Threads, Throttle(t) PROVE TypeOK'
      <3>1. /\ now' = now /\ grants' = grants /\ first' = first /\ attempt' = attempt
            /\ start' = start /\ waits' = waits /\ busy' = busy /\ commits' = commits
        BY <2>6 DEF Throttle, governor
      <3>2. \/ /\ pc' = [pc EXCEPT ![t] = "idle"] /\ verdict' = [verdict EXCEPT ![t] = "ceiling"]
               /\ wake' = wake /\ throttled' = throttled
            \/ \E after \in Nat :
                 /\ throttled' = [throttled EXCEPT ![t] = @ + after]
                 /\ wake' = [wake EXCEPT ![t] = now + after]
                 /\ pc' = [pc EXCEPT ![t] = "throttled"] /\ verdict' = verdict
        BY <2>6 DEF Throttle, End
      <3>3. pc' \in [Threads -> States]
        BY <3>2 DEF States
      <3>4. verdict' \in [Threads -> Verdicts]
        BY <3>2 DEF Verdicts
      <3>5. ASSUME NEW after \in Nat,
                   throttled' = [throttled EXCEPT ![t] = @ + after],
                   wake' = [wake EXCEPT ![t] = now + after]
            PROVE  wake' \in [Threads -> Nat] /\ throttled' \in [Threads -> Nat]
        <4>1. now + after \in Nat /\ throttled[t] + after \in Nat
          OBVIOUS
        <4> QED BY <3>5, <4>1, NatUpdate
      <3>6. wake' \in [Threads -> Nat] /\ throttled' \in [Threads -> Nat]
        BY <3>2, <3>5
      <3> QED BY <3>1, <3>3, <3>4, <3>5, <3>6
    <2>7. ASSUME NEW t \in Threads, TransientFailure(t) PROVE TypeOK'
      <3>1. Backoff(attempt[t]) \in Nat
        BY BackoffNat
      <3>2. /\ now' = now /\ grants' = grants /\ first' = first /\ attempt' = attempt
            /\ start' = start /\ throttled' = throttled /\ busy' = busy /\ commits' = commits
        BY <2>7 DEF TransientFailure, governor
      <3>3. \/ /\ pc' = [pc EXCEPT ![t] = "idle"] /\ verdict' = [verdict EXCEPT ![t] = "spent"]
               /\ wake' = wake /\ waits' = waits
            \/ /\ waits' = [waits EXCEPT ![t] = @ + Backoff(attempt[t])]
               /\ wake' = [wake EXCEPT ![t] = now + Backoff(attempt[t])]
               /\ pc' = [pc EXCEPT ![t] = "sleep"] /\ verdict' = verdict
        BY <2>7 DEF TransientFailure, End
      <3>4. pc' \in [Threads -> States]
        BY <3>3 DEF States
      <3>5. verdict' \in [Threads -> Verdicts]
        BY <3>3 DEF Verdicts
      <3>6. now + Backoff(attempt[t]) \in Nat /\ waits[t] + Backoff(attempt[t]) \in Nat
        BY <3>1
      <3>7. wake' \in [Threads -> Nat] /\ waits' \in [Threads -> Nat]
        <4>1. CASE wake' = wake /\ waits' = waits
          BY <4>1
        <4>2. CASE /\ waits' = [waits EXCEPT ![t] = waits[t] + Backoff(attempt[t])]
                   /\ wake' = [wake EXCEPT ![t] = now + Backoff(attempt[t])]
          BY <3>6, <4>2, NatUpdate
        <4> QED BY <3>3, <4>1, <4>2
      <3> QED BY <3>2, <3>4, <3>5, <3>6, <3>7
    <2>8. ASSUME NEW t \in Threads, NextAttempt(t) PROVE TypeOK'
      <3>1. /\ now' = now /\ grants' = grants /\ first' = first /\ wake' = wake
            /\ start' = start /\ throttled' = throttled /\ waits' = waits
            /\ busy' = busy /\ commits' = commits
        BY <2>8 DEF NextAttempt, governor
      <3>2. \/ /\ attempt[t] + 1 < MaxAttempts /\ attempt' = [attempt EXCEPT ![t] = @ + 1]
               /\ pc' = [pc EXCEPT ![t] = "acquire"] /\ verdict' = verdict
            \/ /\ pc' = [pc EXCEPT ![t] = "idle"] /\ verdict' = [verdict EXCEPT ![t] = "attempts"]
               /\ attempt' = attempt
        BY <2>8 DEF NextAttempt, AttemptLeft, End
      <3>3. attempt' \in [Threads -> 0..MaxAttempts - 1]
        <4>1. CASE /\ attempt[t] + 1 < MaxAttempts
                   /\ attempt' = [attempt EXCEPT ![t] = attempt[t] + 1]
          <5>1. attempt[t] + 1 \in 0..MaxAttempts - 1
            BY <4>1
          <5> QED BY <4>1, <5>1
        <4>2. CASE attempt' = attempt
          BY <4>2
        <4> QED BY <3>2, <4>1, <4>2
      <3>4. pc' \in [Threads -> States]
        BY <3>2 DEF States
      <3>5. verdict' \in [Threads -> Verdicts]
        BY <3>2 DEF Verdicts
      <3> QED BY <3>1, <3>3, <3>4, <3>5
    <2>9. CASE UNCHANGED vars
      BY <2>9 DEF vars, governor, locals
    <2> QED BY <2>1, <2>2, <2>3, <2>4, <2>5, <2>6, <2>7, <2>8, <2>9 DEF Next, Thread
  <1> QED BY <1>1, <1>2, PTL DEF Spec

-----------------------------------------------------------------------------
\* Slots are granted in order, and every stamp dropped is older than the window.
StampInv ==
  /\ \A i \in 1..Len(grants) : grants[i] <= now
  /\ \A i \in 1..first - 1 : grants[i] <= now - Window
  /\ WithinBudget

\* The governor keeps its promise over every thread, retry and recovery: any
\* MaxPerHour + 1 slots granted in a row span a window (_CommitRateGovernor).
THEOREM BudgetKept == Spec => []WithinBudget
  <1> USE ConstantsOK
  <1>1. Init => StampInv
    BY DEF Init, StampInv, WithinBudget
  <1>2. TypeOK /\ StampInv /\ [Next]_vars => StampInv'
    <2> SUFFICES ASSUME TypeOK, StampInv, [Next]_vars PROVE StampInv'
      OBVIOUS
    <2> USE DEF TypeOK
    <2>0. \A i \in 1..Len(grants) : grants[i] \in Nat
      OBVIOUS
    <2>1. CASE Tick
      <3>1. now' = now + 1 /\ grants' = grants /\ first' = first
        BY <2>1 DEF Tick, governor
      <3>2. \A i \in 1..Len(grants) : grants[i] <= now + 1
        BY <2>0 DEF StampInv
      <3>3. \A i \in 1..first - 1 : grants[i] <= now + 1 - Window
        BY <2>0 DEF StampInv
      <3> QED BY <3>1, <3>2, <3>3 DEF StampInv, WithinBudget
    <2>2. ASSUME NEW t \in Threads, Acquire(t) PROVE StampInv'
      <3>1. PICK f \in first..Len(grants) + 1 :
              /\ Keeps(f) /\ first' = f
              /\ IF Len(grants) - f + 1 < MaxPerHour
                   THEN grants' = Append(grants, now) ELSE grants' = grants
        BY <2>2 DEF Acquire
      <3>2. now' = now
        BY <2>2 DEF Acquire
      <3>3. \A i \in 1..f - 1 : grants[i] <= now - Window
        BY <3>1 DEF Keeps, StampInv
      <3>4. CASE ~(Len(grants) - f + 1 < MaxPerHour)
        BY <3>1, <3>2, <3>3, <3>4 DEF StampInv, WithinBudget
      <3>5. CASE Len(grants) - f + 1 < MaxPerHour
        <4> DEFINE n == Len(grants)
        <4>0. grants' = Append(grants, now)
          BY <3>1, <3>5
        <4>1. /\ Len(grants') = n + 1 /\ grants'[n + 1] = now
              /\ \A i \in 1..n : grants'[i] = grants[i]
          BY <4>0
        <4>2. \A i \in 1..Len(grants') : grants'[i] <= now'
          <5> SUFFICES ASSUME NEW i \in 1..n + 1 PROVE grants'[i] <= now
            BY <3>2, <4>1
          <5>1. CASE i \in 1..n
            BY <4>1, <5>1 DEF StampInv
          <5>2. CASE i = n + 1
            BY <4>1, <5>2
          <5> QED BY <5>1, <5>2
        <4>3. \A i \in 1..first' - 1 : grants'[i] <= now' - Window
          <5> SUFFICES ASSUME NEW i \in 1..f - 1 PROVE grants'[i] <= now - Window
            BY <3>1, <3>2
          <5>1. i \in 1..n
            OBVIOUS
          <5> QED BY <3>3, <4>1, <5>1
        <4>4. ASSUME NEW i \in 1..Len(grants'), i + MaxPerHour <= Len(grants')
              PROVE  grants'[i + MaxPerHour] - grants'[i] >= Window
          <5>1. CASE i + MaxPerHour <= n
            <6>1. i \in 1..n /\ i + MaxPerHour \in 1..n
              BY <4>1, <4>4, <5>1
            <6> QED BY <4>1, <5>1, <6>1 DEF StampInv, WithinBudget
          <5>2. CASE i + MaxPerHour = n + 1
            <6>1. i \in 1..f - 1 /\ i \in 1..n
              <7>1. /\ n \in Nat /\ f \in Nat /\ MaxPerHour \in Nat \ {0} /\ i \in Nat /\ i >= 1
                OBVIOUS
              <7> HIDE DEF n
              <7>2. n - f + 1 < MaxPerHour
                BY <3>5 DEF n
              <7> QED BY <5>2, <7>1, <7>2, DroppedSlot, Zenon
            <6>2. grants[i] <= now - Window
              BY <3>3, <6>1
            <6>3. grants'[i + MaxPerHour] = now /\ grants'[i] = grants[i]
              BY <4>1, <5>2, <6>1
            <6>4. grants[i] \in Nat /\ now \in Nat /\ Window \in Nat
              BY <2>0, <6>1
            <6>5. now - grants[i] >= Window
              BY <6>2, <6>4, MovedOver, Zenon
            <6> QED BY <6>3, <6>5
          <5>3. i \in Nat /\ n \in Nat /\ MaxPerHour \in Nat /\ i + MaxPerHour <= n + 1
            BY <4>1, <4>4
          <5>4. i + MaxPerHour <= n \/ i + MaxPerHour = n + 1
            <6> HIDE DEF n
            <6> QED BY <5>3
          <5> QED BY <5>1, <5>2, <5>4
        <4> QED BY <4>2, <4>3, <4>4 DEF StampInv, WithinBudget
      <3> QED BY <3>4, <3>5
    <2>3. CASE UNCHANGED <<now, governor>>
      BY <2>3 DEF governor, StampInv, WithinBudget
    <2>4. ASSUME NEW t \in Threads, Thread(t), ~Acquire(t) PROVE UNCHANGED <<now, governor>>
      BY <2>4 DEF Thread, Begin, Resume, Answered, Throttle, TransientFailure, NextAttempt
    <2>5. CASE UNCHANGED vars
      BY <2>3, <2>5 DEF vars
    <2> QED BY <2>1, <2>2, <2>3, <2>4, <2>5 DEF Next
  <1>3. StampInv => WithinBudget
    BY DEF StampInv
  <1> QED BY <1>1, <1>2, <1>3, TypeCorrect, PTL DEF Spec

-----------------------------------------------------------------------------
\* Time spent, throttles apart, covers the backoff made: now, or once awake.
Covered(t) ==
  /\ waits[t] <= TotalWait
  /\ pc[t] \in {"acquire", "paused", "commit"} => now - start[t] - throttled[t] >= waits[t]
  /\ pc[t] \in {"sleep", "throttled"} => wake[t] - start[t] - throttled[t] >= waits[t]

WaitInv == \A t \in Threads : Covered(t)

\* The backoff of one commit stays within the total allowed, whatever throttles
\* and pauses come in between (_commit_with_retry).
THEOREM BackoffBounded == Spec => []BackoffWithinTotal
  <1> USE ConstantsOK
  <1>1. Init => WaitInv
    <2> SUFFICES ASSUME Init, NEW t \in Threads PROVE Covered(t)
      BY DEF WaitInv
    <2>1. waits[t] = 0 /\ pc[t] = "idle"
      BY DEF Init
    <2> QED BY <2>1 DEF Covered
  <1>2. TypeOK /\ WaitInv /\ [Next]_vars => WaitInv'
    <2> SUFFICES ASSUME TypeOK, WaitInv, [Next]_vars, NEW u \in Threads PROVE Covered(u)'
      BY DEF WaitInv
    <2>0. Covered(u)
      BY DEF WaitInv
    <2> USE DEF TypeOK
    <2>1. CASE Tick
      BY <2>0, <2>1 DEF Tick, locals, Covered
    <2>2. ASSUME NEW t \in Threads, Thread(t), t # u PROVE Covered(u)'
      <3>1. /\ now' = now /\ pc'[u] = pc[u] /\ wake'[u] = wake[u] /\ start'[u] = start[u]
            /\ throttled'[u] = throttled[u] /\ waits'[u] = waits[u]
        BY <2>2 DEF Thread, Begin, Acquire, Resume, Answered, Throttle, TransientFailure,
                    NextAttempt, End, locals
      <3> QED BY <2>0, <3>1 DEF Covered
    <2>3. CASE Begin(u)
      BY <2>3 DEF Begin, Covered
    <2>4. CASE Acquire(u)
      BY <2>0, <2>4 DEF Acquire, locals, Covered
    <2>5. CASE Resume(u)
      BY <2>0, <2>5 DEF Resume, locals, Covered
    <2>6. CASE Answered(u)
      <3>1. pc'[u] = "idle" /\ waits' = waits
        BY <2>6 DEF Answered, End, locals
      <3> QED BY <2>0, <3>1 DEF Covered
    <2>7. CASE Throttle(u)
      <3>1. pc[u] = "commit" /\ now' = now /\ start' = start /\ waits' = waits
        BY <2>7 DEF Throttle
      <3>2. \/ pc'[u] = "idle"
            \/ \E after \in Nat : /\ throttled'[u] = throttled[u] + after
                                  /\ wake'[u] = now + after
                                  /\ pc'[u] = "throttled"
        BY <2>7 DEF Throttle, End
      <3>3. now \in Nat /\ start[u] \in Nat /\ throttled[u] \in Nat /\ waits[u] \in Nat
        OBVIOUS
      <3>4. CASE pc'[u] = "idle"
        BY <2>0, <3>1, <3>4 DEF Covered
      <3>5. ASSUME NEW after \in Nat, throttled'[u] = throttled[u] + after,
                   wake'[u] = now + after, pc'[u] = "throttled"
            PROVE  Covered(u)'
        <4>1. wake'[u] - start'[u] - throttled'[u] = now - start[u] - throttled[u]
          BY <3>1, <3>3, <3>5
        <4>2. waits[u] <= TotalWait /\ now - start[u] - throttled[u] >= waits[u]
          BY <2>0, <3>1 DEF Covered
        <4> QED BY <3>1, <3>5, <4>1, <4>2 DEF Covered
      <3> QED BY <3>2, <3>4, <3>5
    <2>8. CASE TransientFailure(u)
      <3>1. Backoff(attempt[u]) \in Nat
        BY BackoffNat
      <3>2. pc[u] = "commit" /\ now' = now /\ start' = start /\ throttled' = throttled
        BY <2>8 DEF TransientFailure
      <3>3. \/ pc'[u] = "idle" /\ waits' = waits
            \/ /\ ~WouldExceed(u) /\ pc'[u] = "sleep"
               /\ waits'[u] = waits[u] + Backoff(attempt[u])
               /\ wake'[u] = now + Backoff(attempt[u])
        BY <2>8 DEF TransientFailure, End
      <3>4. now \in Nat /\ start[u] \in Nat /\ throttled[u] \in Nat /\ waits[u] \in Nat
        OBVIOUS
      <3>5. CASE pc'[u] = "idle" /\ waits' = waits
        BY <2>0, <3>5 DEF Covered
      <3>6. CASE /\ ~WouldExceed(u) /\ pc'[u] = "sleep"
                 /\ waits'[u] = waits[u] + Backoff(attempt[u])
                 /\ wake'[u] = now + Backoff(attempt[u])
        <4>1. now - start[u] - throttled[u] >= waits[u]
          BY <2>0, <3>2 DEF Covered
        <4>2. ~(now - start[u] - throttled[u] + Backoff(attempt[u]) > TotalWait) /\ TotalWait \in Nat
          BY <3>6, ConstantsOK, Zenon DEF WouldExceed, ConstantsOK
        <4>5. /\ waits[u] + Backoff(attempt[u]) <= TotalWait
              /\ (now + Backoff(attempt[u])) - start[u] - throttled[u] >= waits[u] + Backoff(attempt[u])
          BY <3>1, <3>4, <4>1, <4>2, BackoffFits, Zenon
        <4>3. waits'[u] <= TotalWait
          BY <3>6, <4>5, Zenon
        <4>4. wake'[u] - start'[u] - throttled'[u] >= waits'[u]
          BY <3>2, <3>6, <4>5, Zenon
        <4> QED BY <3>6, <4>3, <4>4 DEF Covered
      <3> QED BY <3>3, <3>5, <3>6
    <2>9. CASE NextAttempt(u)
      BY <2>0, <2>9 DEF NextAttempt, End, Covered
    <2>10. CASE UNCHANGED vars
      BY <2>0, <2>10 DEF vars, locals, Covered
    <2> QED BY <2>1, <2>2, <2>3, <2>4, <2>5, <2>6, <2>7, <2>8, <2>9, <2>10 DEF Next, Thread
  <1>3. WaitInv => BackoffWithinTotal
    BY DEF WaitInv, Covered, BackoffWithinTotal
  <1> QED BY <1>1, <1>2, <1>3, TypeCorrect, PTL DEF Spec

-----------------------------------------------------------------------------
\* The clock of a commit, throttles apart, is the time it was busy; while it is
\* throttled, the end of that wait stands for the present.
Metered(t) ==
  /\ pc[t] = "throttled" =>
       busy[t] = (IF now < wake[t] THEN wake[t] ELSE now) - start[t] - throttled[t]
  /\ pc[t] \notin {"idle", "throttled"} => busy[t] = now - start[t] - throttled[t]
  /\ pc[t] # "idle" => verdict[t] # "spent"
  /\ verdict[t] = "spent" => busy[t] + Backoff(attempt[t]) > TotalWait

BusyInv == \A t \in Threads : Metered(t)

\* A wait the server asked for is not charged to the commit: one that is given up
\* for its time has spent that time elsewhere (_commit_with_retry).
THEOREM ThrottleFree == Spec => []ThrottleNotCharged
  <1> USE ConstantsOK
  <1>1. Init => BusyInv
    BY DEF Init, BusyInv, Metered
  <1>2. TypeOK /\ BusyInv /\ [Next]_vars => BusyInv'
    <2> SUFFICES ASSUME TypeOK, BusyInv, [Next]_vars, NEW u \in Threads PROVE Metered(u)'
      BY DEF BusyInv
    <2>0. Metered(u)
      BY DEF BusyInv
    <2> USE DEF TypeOK
    <2>1. CASE Tick
      <3>1. /\ now' = now + 1 /\ pc'[u] = pc[u] /\ wake'[u] = wake[u] /\ start'[u] = start[u]
            /\ throttled'[u] = throttled[u] /\ verdict'[u] = verdict[u]
            /\ attempt'[u] = attempt[u]
            /\ busy'[u] = IF pc[u] = "idle" \/ (pc[u] = "throttled" /\ now < wake[u])
                            THEN busy[u] ELSE busy[u] + 1
        BY <2>1 DEF Tick, locals
      <3>2. now \in Nat /\ wake[u] \in Nat /\ start[u] \in Nat /\ throttled[u] \in Nat
            /\ busy[u] \in Nat
        OBVIOUS
      <3>3. Backoff(attempt[u])' = Backoff(attempt[u])
        BY <3>1 DEF Backoff
      <3>4. CASE pc[u] = "idle"
        BY <2>0, <3>1, <3>3, <3>4 DEF Metered
      <3>5. CASE pc[u] = "throttled"
        <4>1. verdict'[u] # "spent"
          BY <2>0, <3>1, <3>5 DEF Metered
        <4>2. CASE now < wake[u]
          <5>1. /\ busy'[u] = wake[u] - start[u] - throttled[u]
                /\ now' < wake'[u] \/ now' = wake'[u]
            BY <2>0, <3>1, <3>2, <3>5, <4>2 DEF Metered
          <5> QED BY <3>1, <3>5, <4>1, <5>1 DEF Metered
        <4>3. CASE ~(now < wake[u])
          <5>1. busy'[u] = now' - start[u] - throttled[u] /\ ~(now' < wake'[u])
            BY <2>0, <3>1, <3>2, <3>5, <4>3 DEF Metered
          <5> QED BY <3>1, <3>5, <4>1, <5>1 DEF Metered
        <4> QED BY <4>2, <4>3
      <3>6. CASE pc[u] \notin {"idle", "throttled"}
        BY <2>0, <3>1, <3>2, <3>6 DEF Metered
      <3> QED BY <3>4, <3>5, <3>6
    <2>2. ASSUME NEW t \in Threads, Thread(t), t # u PROVE Metered(u)'
      <3>1. /\ now' = now /\ pc'[u] = pc[u] /\ wake'[u] = wake[u] /\ start'[u] = start[u]
            /\ throttled'[u] = throttled[u] /\ busy'[u] = busy[u]
            /\ verdict'[u] = verdict[u] /\ attempt'[u] = attempt[u]
        BY <2>2 DEF Thread, Begin, Acquire, Resume, Answered, Throttle, TransientFailure,
                    NextAttempt, End, locals
      <3> QED BY <2>0, <3>1 DEF Metered, Backoff
    <2>3. CASE Begin(u)
      BY <2>3 DEF Begin, Metered
    <2>4. CASE Acquire(u)
      BY <2>0, <2>4 DEF Acquire, locals, Metered
    <2>5. CASE Resume(u)
      BY <2>0, <2>5 DEF Resume, locals, Metered
    <2>6. CASE Answered(u)
      BY <2>0, <2>6 DEF Answered, End, locals, Metered
    <2>7. CASE Throttle(u)
      <3>1. /\ pc[u] = "commit" /\ now' = now /\ start' = start /\ busy' = busy
            /\ attempt' = attempt
        BY <2>7 DEF Throttle
      <3>2. \/ pc'[u] = "idle" /\ verdict'[u] = "ceiling"
            \/ \E after \in Nat : /\ throttled'[u] = throttled[u] + after
                                  /\ wake'[u] = now + after
                                  /\ pc'[u] = "throttled" /\ verdict' = verdict
        BY <2>7 DEF Throttle, End
      <3>3. /\ now \in Nat /\ start[u] \in Nat /\ throttled[u] \in Nat /\ wake[u] \in Nat
            /\ busy[u] = now - start[u] - throttled[u] /\ verdict[u] # "spent"
        BY <2>0, <3>1 DEF Metered
      <3>4. CASE pc'[u] = "idle" /\ verdict'[u] = "ceiling"
        BY <3>4 DEF Metered
      <3>5. ASSUME NEW after \in Nat, throttled'[u] = throttled[u] + after,
                   wake'[u] = now + after, pc'[u] = "throttled", verdict' = verdict
            PROVE  Metered(u)'
        <4>1. busy'[u] = wake'[u] - start'[u] - throttled'[u]
          BY <3>1, <3>3, <3>5
        <4>2. now' < wake'[u] \/ now' = wake'[u]
          BY <3>1, <3>3, <3>5
        <4> QED BY <3>3, <3>5, <4>1, <4>2 DEF Metered
      <3> QED BY <3>2, <3>4, <3>5
    <2>8. CASE TransientFailure(u)
      <3>1. Backoff(attempt[u]) \in Nat
        BY BackoffNat
      <3>2. /\ pc[u] = "commit" /\ now' = now /\ start' = start /\ throttled' = throttled
            /\ busy' = busy /\ attempt' = attempt
        BY <2>8 DEF TransientFailure
      <3>3. \/ WouldExceed(u) /\ pc'[u] = "idle" /\ verdict'[u] = "spent"
            \/ pc'[u] = "sleep" /\ verdict' = verdict
        BY <2>8 DEF TransientFailure, End
      <3> QED BY <2>0, <3>1, <3>2, <3>3 DEF WouldExceed, Metered
    <2>9. CASE NextAttempt(u)
      <3>1. /\ pc[u] \in {"sleep", "throttled"} /\ now >= wake[u] /\ now' = now
            /\ start' = start /\ throttled' = throttled /\ busy' = busy
        BY <2>9 DEF NextAttempt
      <3>2. \/ pc'[u] = "acquire" /\ verdict' = verdict
            \/ pc'[u] = "idle" /\ verdict'[u] = "attempts"
        BY <2>9 DEF NextAttempt, End
      <3>3. now \in Nat /\ wake[u] \in Nat
        OBVIOUS
      <3> QED BY <2>0, <3>1, <3>2, <3>3 DEF Metered
    <2>10. CASE UNCHANGED vars
      BY <2>0, <2>10 DEF vars, locals, Metered
    <2> QED BY <2>1, <2>2, <2>3, <2>4, <2>5, <2>6, <2>7, <2>8, <2>9, <2>10 DEF Next, Thread
  <1>3. BusyInv => ThrottleNotCharged
    BY DEF BusyInv, Metered, ThrottleNotCharged
  <1> QED BY <1>1, <1>2, <1>3, TypeCorrect, PTL DEF Spec
=============================================================================
