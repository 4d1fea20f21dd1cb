------------------------------ MODULE ReadControl ------------------------------
(***************************************************************************)
(* Reads under a _DownloadControl (_download_control.py): each reader       *)
(* registers the socket it is about to wait on, and a watchdog looks at all *)
(* of them, notes why a read must end, and shuts its socket down.  The      *)
(* readers here are the threads of one group of ranges (_download.py),      *)
(* which its calling thread may stop.                                       *)
(*                                                                          *)
(* The server is external: it may stay silent at any point, and it closes   *)
(* no connection early.  A socket that is shut down reads as ended, or as   *)
(* broken, once what had arrived is read.                                   *)
(***************************************************************************)
EXTENDS Naturals

CONSTANTS
  Readers,
  Body,         \* pieces of an answer
  Deadline,     \* of the control
  HeaderLimit,  \* how long the headers may take; 0 for no limit
  Window,       \* speed_window: within it a body must bring a piece (min_rate)
  MaxNow,       \* bound on the clock (model bound)
  MaxReads      \* requests of each reader (model bound)

ConstantsOK ==
  {Body, Deadline, Window, MaxNow} \subseteq Nat \ {0} /\ {HeaderLimit, MaxReads} \subseteq Nat

VARIABLES
  now, seen,    \* the clock; the watchdog has looked at this time
  cancelled,    \* cancel_event
  stopped,      \* part_stop of the group
  aborted,      \* abort_responses was called after it
  pc, state,    \* each reader; what it has registered (_WatchedResponse)
  cut,          \* history: the socket of its answer was shut down
  got,          \* pieces read
  outcome, reads

vars == <<now, seen, cancelled, stopped, aborted, pc, state, cut, got, outcome, reads>>
flags == <<now, seen, cancelled, stopped, aborted>>

Unregistered == [error |-> "none", since |-> 0, got |-> 0, headers |-> FALSE, there |-> FALSE]
Waiting      == {"headers", "read"}                  \* blocked on the socket

Init ==
  /\ now = 0 /\ seen = FALSE /\ cancelled = FALSE /\ stopped = FALSE /\ aborted = FALSE
  /\ pc = [r \in Readers |-> "idle"] /\ state = [r \in Readers |-> Unregistered]
  /\ cut = [r \in Readers |-> FALSE] /\ got = [r \in Readers |-> 0]
  /\ outcome = [r \in Readers |-> "none"] /\ reads = [r \in Readers |-> 0]

Go(r, l) == pc' = [pc EXCEPT ![r] = l]

\* check(): what ends every step.
Checked == IF cancelled THEN "cancelled" ELSE IF now >= Deadline THEN "deadline" ELSE "none"

Register(r, headers) ==
  state' = [state EXCEPT ![r] = [error |-> "none", since |-> now, got |-> 0,
                                 headers |-> headers, there |-> TRUE]]
Release(r) == state' = [state EXCEPT ![r] = Unregistered]
End(r, why) == Go(r, "idle") /\ outcome' = [outcome EXCEPT ![r] = why] /\ Release(r)

\* A step of a reader that goes on only if nothing says that it must end.
Step(r, why, next) ==
  IF why # "none" THEN End(r, why) ELSE next /\ UNCHANGED outcome

\* The socket is registered before the headers are awaited (transport).
Request(r) ==
  /\ pc[r] = "idle" /\ reads[r] < MaxReads /\ ~stopped
  /\ reads' = [reads EXCEPT ![r] = @ + 1] /\ got' = [got EXCEPT ![r] = 0]
  /\ cut' = [cut EXCEPT ![r] = FALSE]
  /\ IF Checked # "none" THEN End(r, Checked)
     ELSE Go(r, "headers") /\ Register(r, TRUE) /\ outcome' = [outcome EXCEPT ![r] = "none"]
  /\ UNCHANGED flags

\* They arrive, or the wait is broken; the reason that the watchdog noted comes first.
Why(r) == IF Checked # "none" THEN Checked ELSE state[r].error
Headers(r) ==
  /\ pc[r] = "headers" /\ UNCHANGED <<flags, cut, got, reads>>
  /\ \/ Step(r, Why(r), Go(r, "build") /\ Release(r))
     \/ End(r, IF Why(r) = "none" THEN "connection" ELSE Why(r))

\* The adapter registers the answer (build_response), and the request once more, afresh.
Build(r) ==
  /\ pc[r] = "build" /\ UNCHANGED <<flags, cut, got, reads>>
  /\ Step(r, Checked, Go(r, "track") /\ Register(r, FALSE))
Track(r) ==
  /\ pc[r] = "track" /\ UNCHANGED <<flags, cut, got, reads>>
  /\ Step(r, Checked, Go(r, "answer") /\ Register(r, FALSE))

\* What the second registration has forgotten, the group still says.
\* (Mutant: it is not asked.)
GroupSaysNothing(r) == "none"
GroupSays(r)       == IF stopped THEN "stopped" ELSE "none"
Accept(r) ==
  /\ pc[r] = "answer" /\ UNCHANGED <<flags, cut, got, reads>>
  /\ Step(r, GroupSays(r), Go(r, "check") /\ UNCHANGED state)

\* chunks: looked at before every read and after it.
Check(r) ==
  /\ pc[r] = "check" /\ UNCHANGED <<flags, cut, got, reads>>
  /\ Step(r, Why(r), Go(r, "read") /\ UNCHANGED state)
Read(r) ==
  /\ pc[r] = "read" /\ UNCHANGED <<flags, cut, outcome, reads>>
  /\ \/ got[r] < Body /\ got' = [got EXCEPT ![r] = @ + 1] /\ Go(r, "piece")
     \/ (got[r] = Body \/ cut[r]) /\ Go(r, "end") /\ UNCHANGED got
     \/ Go(r, "broken") /\ UNCHANGED got
  /\ UNCHANGED state
Piece(r) ==
  /\ pc[r] = "piece" /\ UNCHANGED <<flags, cut, got, reads>>
  /\ Step(r, Why(r), Go(r, "check") /\ state' = [state EXCEPT ![r].got = @ + 1])
Ended(r) ==
  /\ pc[r] = "end" /\ UNCHANGED <<flags, cut, got, reads>>
  /\ End(r, IF Why(r) = "none" THEN "whole" ELSE Why(r))
Broken(r) ==
  /\ pc[r] = "broken" /\ UNCHANGED <<flags, cut, got, reads>>
  /\ End(r, IF Why(r) = "none" THEN "connection" ELSE Why(r))

-----------------------------------------------------------------------------
(* The watchdog, and the thread that stops the group.                       *)

\* (Mutant: it looks at answers alone, and a server may send headers for ever.)
WatchedAnswers(r) == state[r].there /\ ~state[r].headers
Watched(r)        == state[r].there

Found(r) ==
  LET s == state[r] IN
  IF s.error # "none" THEN s.error
  ELSE IF cancelled THEN "cancelled"
  ELSE IF now >= Deadline THEN "deadline"
  ELSE IF s.headers /\ HeaderLimit # 0 /\ now >= s.since + HeaderLimit THEN "headers"
  ELSE IF ~s.headers /\ now >= s.since + Window /\ s.got = 0 THEN "slow"
  ELSE "none"

\* A window that brought something begins anew.
Look(r) ==
  LET s == state[r] IN
  IF ~Watched(r) THEN s
  ELSE IF Found(r) = "none" /\ ~s.headers /\ now >= s.since + Window
  THEN [s EXCEPT !.since = now, !.got = 0] ELSE [s EXCEPT !.error = Found(r)]

Watch ==
  /\ state' = [r \in Readers |-> Look(r)]
  /\ cut' = [r \in Readers |-> cut[r] \/ (Watched(r) /\ Found(r) # "none")]
  /\ seen' = TRUE
  /\ UNCHANGED <<now, cancelled, stopped, aborted, pc, got, outcome, reads>>

Stop == /\ ~stopped /\ stopped' = TRUE
        /\ UNCHANGED <<now, seen, cancelled, aborted, pc, state, cut, got, outcome, reads>>
Abort ==
  /\ stopped /\ ~aborted /\ aborted' = TRUE
  /\ state' = [r \in Readers |-> IF state[r].there THEN [state[r] EXCEPT !.error = "stopped"]
                                 ELSE state[r]]
  /\ cut' = [r \in Readers |-> cut[r] \/ state[r].there]
  /\ UNCHANGED <<now, seen, cancelled, stopped, pc, got, outcome, reads>>

Cancel == /\ ~cancelled /\ cancelled' = TRUE
          /\ UNCHANGED <<now, seen, stopped, aborted, pc, state, cut, got, outcome, reads>>

\* Time passes once the watchdog has looked, and the readers that need not wait have gone on.
Tick ==
  /\ now < MaxNow /\ seen
  /\ \A r \in Readers : pc[r] = "idle" \/ (pc[r] \in Waiting /\ ~cut[r])
  /\ now' = now + 1 /\ seen' = FALSE
  /\ UNCHANGED <<cancelled, stopped, aborted, pc, state, cut, got, outcome, reads>>

Next ==
  \/ \E r \in Readers : \/ Request(r) \/ Headers(r) \/ Build(r) \/ Track(r) \/ Accept(r)
                        \/ Check(r) \/ Read(r) \/ Piece(r) \/ Ended(r) \/ Broken(r)
  \/ Watch \/ Stop \/ Abort \/ Cancel \/ Tick

Spec == Init /\ [][Next]_vars

-----------------------------------------------------------------------------
(* Properties                                                               *)

Reasons == {"none", "cancelled", "deadline", "headers", "slow", "stopped"}
TypeOK ==
  /\ now \in 0..MaxNow /\ {seen, cancelled, stopped, aborted} \subseteq BOOLEAN
  /\ pc \in [Readers -> Waiting \cup {"idle", "build", "track", "answer", "check", "piece", "end",
                                      "broken"}]
  /\ state \in [Readers -> [error : Reasons, since : 0..MaxNow, got : 0..Body,
                            headers : BOOLEAN, there : BOOLEAN]]
  /\ cut \in [Readers -> BOOLEAN] /\ got \in [Readers -> 0..Body]
  /\ outcome \in [Readers -> Reasons \cup {"whole", "connection"}] /\ reads \in [Readers -> 0..MaxReads]

\* An answer that was cut is never taken for a whole one, whoever cut it and between
\* whichever of the reader's steps, though the second registration forgets the reason.
CutIsNotWhole == \A r \in Readers : outcome[r] = "whole" => got[r] = Body

\* However silent the server is and wherever, nobody is still waiting for it after the
\* deadline, and nobody for headers after their own limit.
NobodyWaitsOn ==
  \A r \in Readers :
    /\ pc[r] \in Waiting => now <= Deadline
    /\ (pc[r] = "headers" /\ HeaderLimit # 0) => now <= state[r].since + HeaderLimit

ReadsControlled == CutIsNotWhole /\ NobodyWaitsOn
=============================================================================
