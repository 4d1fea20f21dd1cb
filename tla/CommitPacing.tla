---------------------------- MODULE CommitPacing ----------------------------
(***************************************************************************)
(* How commits are paced and retried (_upload.py): the sliding window of    *)
(* _CommitRateGovernor, which every commit of a manager goes through, and   *)
(* the retry loop of _commit_with_retry.  Threads commit through one        *)
(* manager; time passes while they sleep and while the server answers.      *)
(***************************************************************************)
EXTENDS Integers, Sequences

CONSTANTS
  Threads,        \* callers that share the manager
  MaxPerHour,     \* UPLOAD_COMMIT_MAX_PER_HOUR, the governor being enabled
  Window,         \* _WINDOW_SECONDS
  MaxAttempts,    \* UPLOAD_COMMIT_MAX_ATTEMPTS
  TotalWait,      \* UPLOAD_COMMIT_RETRY_TOTAL_WAIT_SECONDS
  RetryAfters,    \* waits the server may ask for
  MaxRetryAfter,  \* UPLOAD_COMMIT_MAX_RETRY_AFTER_SECONDS
  MaxNow,         \* bound on the clock (model bound)
  MaxCommits      \* bound on the commits of all threads (model bound)

ASSUME ConstantsOK ==
  /\ MaxPerHour \in Nat \ {0} /\ Window \in Nat \ {0} /\ MaxAttempts \in Nat \ {0}
  /\ TotalWait \in Nat /\ MaxRetryAfter \in Nat
  /\ RetryAfters \subseteq Nat
  /\ MaxNow \in Nat /\ MaxCommits \in Nat

VARIABLES
  now,
  grants, first,   \* every slot granted, in order; _timestamps is grants[first..]
  pc, wake,        \* of each thread, and when its sleep ends
  attempt, start, throttled,  \* locals of _commit_with_retry
  waits,           \* history: the backoff of this commit so far
  busy,            \* history: its time, apart from waits the server asked for
  verdict,         \* how the commit ended
  commits          \* commits begun by all threads

governor == <<grants, first>>
locals   == <<attempt, start, throttled, waits>>
vars     == <<now, governor, pc, wake, locals, busy, verdict, commits>>

States   == {"idle", "acquire", "paused", "commit", "sleep", "throttled"}
Verdicts == {"none", "ok", "refused", "spent", "attempts", "ceiling"}

\* min(2**attempt, 60)
Backoff(n) == IF n < 6 THEN <<1, 2, 4, 8, 16, 32>>[n + 1] ELSE 60

Init ==
  /\ now = 0 /\ grants = <<>> /\ first = 1
  /\ pc = [t \in Threads |-> "idle"] /\ wake = [t \in Threads |-> 0]
  /\ attempt = [t \in Threads |-> 0] /\ start = [t \in Threads |-> 0]
  /\ throttled = [t \in Threads |-> 0] /\ waits = [t \in Threads |-> 0]
  /\ busy = [t \in Threads |-> 0] /\ verdict = [t \in Threads |-> "none"]
  /\ commits = 0

Begin(t) ==
  /\ pc[t] = "idle" /\ commits < MaxCommits
  /\ commits' = commits + 1
  /\ attempt' = [attempt EXCEPT ![t] = 0] /\ start' = [start EXCEPT ![t] = now]
  /\ throttled' = [throttled EXCEPT ![t] = 0]
  /\ waits' = [waits EXCEPT ![t] = 0] /\ busy' = [busy EXCEPT ![t] = 0]
  /\ verdict' = [verdict EXCEPT ![t] = "none"]
  /\ pc' = [pc EXCEPT ![t] = "acquire"]
  /\ UNCHANGED <<now, governor, wake>>

-----------------------------------------------------------------------------
(* The governor                                                             *)

\* The time stamps kept are those younger than the window: grants[f] is the first.
\* (Mutant: a stamp leaves the window a moment early.)
KeepsEarly(f) ==
  /\ f \in first..Len(grants) + 1
  /\ \A i \in first..f - 1 : grants[i] <= now - Window + 1
  /\ f <= Len(grants) => grants[f] > now - Window + 1
Keeps(f) ==
  /\ f \in first..Len(grants) + 1
  /\ \A i \in first..f - 1 : grants[i] <= now - Window
  /\ f <= Len(grants) => grants[f] > now - Window

\* acquire, under its lock: a slot is free, or the thread sleeps until the oldest
\* stamp leaves the window and looks again.
Acquire(t) ==
  /\ pc[t] = "acquire"
  /\ \E f \in first..Len(grants) + 1 :
       /\ Keeps(f)
       /\ first' = f
       /\ IF Len(grants) - f + 1 < MaxPerHour
            THEN /\ grants' = Append(grants, now)
                 /\ pc' = [pc EXCEPT ![t] = "commit"]
                 /\ UNCHANGED wake
            ELSE /\ wake' = [wake EXCEPT ![t] = grants[f] + Window]
                 /\ pc' = [pc EXCEPT ![t] = "paused"]
                 /\ UNCHANGED grants
  /\ UNCHANGED <<now, locals, busy, verdict, commits>>

Resume(t) ==
  /\ pc[t] = "paused" /\ now >= wake[t]
  /\ pc' = [pc EXCEPT ![t] = "acquire"]
  /\ UNCHANGED <<now, governor, wake, locals, busy, verdict, commits>>

-----------------------------------------------------------------------------
(* _commit_with_retry                                                       *)

End(t, how) ==
  /\ pc' = [pc EXCEPT ![t] = "idle"] /\ verdict' = [verdict EXCEPT ![t] = how]

\* The commit is accepted, or refused for good.
Answered(t) ==
  /\ pc[t] = "commit"
  /\ \E how \in {"ok", "refused"} : End(t, how)
  /\ UNCHANGED <<now, governor, wake, locals, busy, commits>>

\* A throttle says how long to wait; above the ceiling the commit is given up.
\* (Mutant: the wait is not set apart.)
ThrottleCharged(t) ==
  /\ pc[t] = "commit"
  /\ \E after \in RetryAfters :
       \/ /\ after > MaxRetryAfter /\ End(t, "ceiling")
          /\ UNCHANGED <<wake, throttled>>
       \/ /\ after <= MaxRetryAfter
          /\ wake' = [wake EXCEPT ![t] = now + after]
          /\ pc' = [pc EXCEPT ![t] = "throttled"]
          /\ UNCHANGED <<throttled, verdict>>
  /\ UNCHANGED <<now, governor, attempt, start, waits, busy, commits>>

Throttle(t) ==
  /\ pc[t] = "commit"
  /\ \E after \in RetryAfters :
       \/ /\ after > MaxRetryAfter /\ End(t, "ceiling")
          /\ UNCHANGED <<wake, throttled>>
       \/ /\ after <= MaxRetryAfter
          /\ throttled' = [throttled EXCEPT ![t] = @ + after]
          /\ wake' = [wake EXCEPT ![t] = now + after]
          /\ pc' = [pc EXCEPT ![t] = "throttled"]
          /\ UNCHANGED verdict
  /\ UNCHANGED <<now, governor, attempt, start, waits, busy, commits>>

\* Any other failure is retried after a backoff that the total must allow.
\* (Mutant: the backoff about to be made is not counted.)
WouldExceedLate(t) == now - start[t] - throttled[t] > TotalWait
WouldExceed(t)     == now - start[t] - throttled[t] + Backoff(attempt[t]) > TotalWait

TransientFailure(t) ==
  /\ pc[t] = "commit"
  /\ IF WouldExceed(t)
       THEN End(t, "spent") /\ UNCHANGED <<wake, waits>>
       ELSE /\ waits' = [waits EXCEPT ![t] = @ + Backoff(attempt[t])]
            /\ wake' = [wake EXCEPT ![t] = now + Backoff(attempt[t])]
            /\ pc' = [pc EXCEPT ![t] = "sleep"]
            /\ UNCHANGED verdict
  /\ UNCHANGED <<now, governor, attempt, start, throttled, busy, commits>>

\* The attempts are counted.  (Mutant: one too many.)
AttemptLeftLate(t) == attempt[t] < MaxAttempts
AttemptLeft(t)     == attempt[t] + 1 < MaxAttempts

\* The next attempt, unless that was the last one: the sleep after it is made too.
NextAttempt(t) ==
  /\ pc[t] \in {"sleep", "throttled"} /\ now >= wake[t]
  /\ IF AttemptLeft(t)
       THEN /\ attempt' = [attempt EXCEPT ![t] = @ + 1]
            /\ pc' = [pc EXCEPT ![t] = "acquire"] /\ UNCHANGED verdict
       ELSE End(t, "attempts") /\ UNCHANGED attempt
  /\ UNCHANGED <<now, governor, wake, start, throttled, waits, busy, commits>>

\* Time passes.  A sleep may end late; a wait the server asked for does not make
\* its commit busy before it is over.
Tick ==
  /\ now < MaxNow
  /\ now' = now + 1
  /\ busy' = [t \in Threads |->
               IF pc[t] = "idle" \/ (pc[t] = "throttled" /\ now < wake[t])
                 THEN busy[t] ELSE busy[t] + 1]
  /\ UNCHANGED <<governor, pc, wake, locals, verdict, commits>>

Thread(t) == \/ Begin(t) \/ Acquire(t) \/ Resume(t) \/ Answered(t) \/ Throttle(t)
             \/ TransientFailure(t) \/ NextAttempt(t)

Next == Tick \/ \E t \in Threads : Thread(t)

Spec == Init /\ [][Next]_vars

-----------------------------------------------------------------------------
(* Properties                                                               *)

\* Every variable has its type, and no commit is attempted more than MaxAttempts times.
TypeOK ==
  /\ now \in Nat /\ grants \in Seq(Nat) /\ first \in 1..Len(grants) + 1
  /\ pc \in [Threads -> States] /\ wake \in [Threads -> Nat]
  /\ attempt \in [Threads -> 0..MaxAttempts - 1]
  /\ start \in [Threads -> Nat] /\ throttled \in [Threads -> Nat]
  /\ waits \in [Threads -> Nat] /\ busy \in [Threads -> Nat]
  /\ verdict \in [Threads -> Verdicts] /\ commits \in Nat

\* The governor keeps its promise over all threads, retries and recoveries: any
\* MaxPerHour + 1 slots granted in a row span at least a window.
WithinBudget ==
  \A i \in 1..Len(grants) :
    i + MaxPerHour <= Len(grants) => grants[i + MaxPerHour] - grants[i] >= Window

\* The backoff of one commit never adds up to more than the total allowed, with
\* any number of throttles in between.
BackoffWithinTotal == \A t \in Threads : waits[t] <= TotalWait

\* A wait the server asked for is not charged: a commit given up for its time has
\* spent that time elsewhere.
ThrottleNotCharged ==
  \A t \in Threads : verdict[t] = "spent" => busy[t] + Backoff(attempt[t]) > TotalWait
=============================================================================
