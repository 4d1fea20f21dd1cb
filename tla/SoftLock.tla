------------------------------- MODULE SoftLock -------------------------------
(***************************************************************************)
(* The lock of a download on a file system without flock                    *)
(* (_optional_file_lock of _download.py): SoftFileLock takes the existence  *)
(* of the file for the lock, and a waiter removes a file that looks stale.  *)
(*                                                                          *)
(* The filelock package is external: acquiring creates the file, releasing  *)
(* removes whatever file has its name.                                      *)
(***************************************************************************)
EXTENDS Naturals, FiniteSets

CONSTANTS
  Procs,
  Stale,       \* _STALE_LOCK_SECONDS
  Limits,      \* how long a process may wait: DOWNLOAD_FILE_LOCK_TIMEOUT_SECONDS, or less in
               \* a download with a report.  By default each is below Stale
  MaxHold,     \* how long a download may hold the lock (model bound: the code has none)
  MaxNow,      \* bound on the clock (model bound)
  MaxCrashes   \* bound on crashes (model bound)

ConstantsOK ==
  /\ Stale \in Nat \ {0} /\ Limits \subseteq Nat
  /\ {MaxHold, MaxNow, MaxCrashes} \subseteq Nat

VARIABLES
  now,
  limit,       \* lock_limit of each process
  made,        \* when the lock file was made; NoFile without one
  pc, soft,    \* where each process is; is_soft
  since,       \* when it started to wait, or got the lock
  base,        \* when it began to count its waiting
  tried,       \* the processes whose attempt at this time has failed
  behind,      \* history: those that have waited while another one held the lock
  outstayed,   \* history: a download has held the lock for as long as makes it look stale
  crashes

locals == <<soft, since, base>>
past   == <<behind, outstayed>>
vars   == <<now, limit, made, pc, locals, tried, past, crashes>>
NoFile == MaxNow + 1

Init ==
  /\ now = 0 /\ made = NoFile /\ crashes = 0 /\ tried = {}
  /\ limit \in [Procs -> Limits] /\ behind = {} /\ outstayed = FALSE
  /\ pc = [p \in Procs |-> "idle"] /\ soft = [p \in Procs |-> FALSE]
  /\ since = [p \in Procs |-> 0] /\ base = [p \in Procs |-> 0]

Go(p, l)   == pc' = [pc EXCEPT ![p] = l]
At(l)      == {p \in Procs : pc[p] = l}
Waiting    == At("try") \cup At("stat") \cup At("unlink")
Expired(p) == now - since[p] >= limit[p]

Start(p) ==
  /\ pc[p] = "idle" /\ Go(p, "try")
  /\ soft' = [soft EXCEPT ![p] = FALSE]
  /\ since' = [since EXCEPT ![p] = now] /\ base' = [base EXCEPT ![p] = now]
  /\ behind' = IF At("hold") = {} THEN behind \ {p} ELSE behind \cup {p}
  /\ UNCHANGED <<now, limit, made, tried, outstayed, crashes>>

GiveUp(p) ==
  /\ pc[p] = "try" /\ Expired(p) /\ Go(p, "gaveup")
  /\ UNCHANGED <<now, limit, made, locals, tried, past, crashes>>

\* control.check: the call is cancelled, or its own time is up.
Leave(p) ==
  /\ pc[p] = "try" /\ Go(p, "idle")
  /\ UNCHANGED <<now, limit, made, locals, tried, past, crashes>>

\* The first attempt finds that there is no flock.
FallBack(p) ==
  /\ pc[p] = "try" /\ ~Expired(p) /\ ~soft[p]
  /\ soft' = [soft EXCEPT ![p] = TRUE]
  /\ UNCHANGED <<now, limit, made, pc, since, base, tried, past, crashes>>

Acquire(p) ==
  /\ pc[p] = "try" /\ ~Expired(p) /\ soft[p] /\ made = NoFile
  /\ made' = now /\ Go(p, "hold")
  /\ since' = [since EXCEPT ![p] = now]
  /\ behind' = (behind \cup Waiting) \ {p}
  /\ UNCHANGED <<now, limit, soft, base, tried, outstayed, crashes>>

\* The file is there: after so long a wait its age is looked at.
TimesOut(p) ==
  /\ pc[p] = "try" /\ ~Expired(p) /\ soft[p] /\ made # NoFile /\ p \notin tried
  /\ tried' = tried \cup {p}
  /\ Go(p, IF now - base[p] >= Stale THEN "stat" ELSE "try")
  /\ UNCHANGED <<now, limit, made, locals, past, crashes>>

\* The file must be old, not only the wait; one that is gone is not.
\* (Mutant: the wait is enough.)
LooksStaleSoon(p) == made # NoFile
LooksStale(p)     == made # NoFile /\ now - made >= Stale
Stat(p) ==
  /\ pc[p] = "stat" /\ Go(p, IF LooksStale(p) THEN "unlink" ELSE "try")
  /\ UNCHANGED <<now, limit, made, locals, tried, past, crashes>>
Unlink(p) ==
  /\ pc[p] = "unlink" /\ Go(p, "try")
  /\ made' = NoFile /\ base' = [base EXCEPT ![p] = now] /\ tried' = tried \ {p}
  /\ UNCHANGED <<now, limit, soft, since, past, crashes>>

Release(p) ==
  /\ pc[p] = "hold" /\ Go(p, "idle")
  /\ made' = NoFile
  /\ UNCHANGED <<now, limit, locals, tried, past, crashes>>

\* A process dies; its lock file stays.
Crash(p) ==
  /\ pc[p] \in {"try", "stat", "unlink", "hold"}
  /\ crashes < MaxCrashes /\ crashes' = crashes + 1
  /\ Go(p, "idle")
  /\ UNCHANGED <<now, limit, made, locals, tried, past>>

\* Time passes once every waiter has made its attempt.
Tick ==
  /\ now < MaxNow /\ now' = now + 1
  /\ At("stat") \cup At("unlink") = {}
  /\ \A p \in At("try") : ~Expired(p) /\ p \in tried
  /\ \A p \in At("hold") : now - since[p] < MaxHold
  /\ tried' = {}
  /\ outstayed' = (outstayed \/ \E p \in At("hold") : now' - since[p] >= Stale)
  /\ UNCHANGED <<limit, made, pc, locals, behind, crashes>>

Rest == now = MaxNow /\ UNCHANGED vars

Next ==
  \/ \E p \in Procs : \/ Start(p) \/ GiveUp(p) \/ Leave(p) \/ FallBack(p) \/ Acquire(p)
                      \/ TimesOut(p) \/ Stat(p) \/ Unlink(p) \/ Release(p) \/ Crash(p)
  \/ Tick \/ Rest

Spec == Init /\ [][Next]_vars

-----------------------------------------------------------------------------
(* Properties                                                               *)

TypeOK ==
  /\ now \in 0..MaxNow /\ made \in 0..NoFile /\ crashes \in 0..MaxCrashes
  /\ limit \in [Procs -> Limits] /\ outstayed \in BOOLEAN
  /\ pc \in [Procs -> {"idle", "try", "stat", "unlink", "hold", "gaveup"}]
  /\ soft \in [Procs -> BOOLEAN]
  /\ since \in [Procs -> 0..MaxNow] /\ base \in [Procs -> 0..MaxNow]
  /\ tried \subseteq Procs /\ behind \subseteq Procs

\* Two hold the lock only if somebody waits for longer than makes a lock look stale, and
\* a holder has died or stayed that long.  So with the default limits there is one holder
\* whoever dies and however long a download takes; with longer ones, one holder however
\* long others have waited behind one download after another.
LiveLockKept ==
  Cardinality(At("hold")) > 1 =>
    /\ \E p \in Procs : limit[p] > Stale
    /\ crashes > 0 \/ outstayed

\* Where the limit has been set to more than the stale age, the lock file of a process that
\* died keeps nobody out for good: a waiter that gives up has been behind a download that
\* ran.  (Two ticks more: to see the file stale, and to take the lock.)
DeadLockFreed == \A p \in At("gaveup") : limit[p] >= Stale + 2 => p \in behind

SoftLockHolds == LiveLockKept /\ DeadLockFreed

\* Two stronger claims, false of the code.  With the default limits a waiter gives up before
\* it could see a dead process's file as stale; and with longer ones two waiters may both
\* find it stale, and the second one removes the lock the first one has taken since.
DeadLockFreedAlways == \A p \in At("gaveup") : p \in behind
OneHolder           == Cardinality(At("hold")) <= 1
=============================================================================
