---------------------------- MODULE CommitPlanner ----------------------------
(***************************************************************************)
(* How the operations of an upload or of a deletion are cut into commits    *)
(* (_plan_commit_batches and delete_files of _upload.py).                   *)
(*                                                                          *)
(* A file is its position and what its operation weighs; a plan is the      *)
(* position each commit ends at.                                            *)
(***************************************************************************)
EXTENDS Naturals, Sequences, FiniteSetsExt

CONSTANTS
  MaxFiles,    \* bound on the files of a call (model bound)
  Weights,     \* what an operation may add to a request
  Envelope,    \* _COMMIT_ENVELOPE_ESTIMATED_BYTES
  Budgets,     \* values of UPLOAD_COMMIT_MAX_INLINE_BYTES; 0 is no limit
  Settings,    \* values of UPLOAD_COMMIT_BATCH_MAX_OPERATIONS; 0 is no limit
  Ceiling      \* COMMIT_MAX_ACTIONS_PER_REQUEST

ConstantsOK ==
  /\ {MaxFiles, Envelope, Ceiling} \subseteq Nat
  /\ Weights \subseteq Nat /\ Budgets \subseteq Nat /\ Settings \subseteq Nat

VARIABLES
  pc,
  weights,     \* one per file, in the order they are listed in
  cap, budget, \* the limits of one commit
  index,       \* how many files have been looked at
  bytes,       \* request_bytes of the commit being filled
  ends,        \* the last file of each commit
  deleted,     \* the files whose deletion was answered
  gone         \* the files the repository lacks since

vars  == <<pc, weights, cap, budget, index, bytes, ends, deleted, gone>>
input == <<weights, cap, budget>>

Total       == Len(weights)
LastEnd     == IF ends = <<>> THEN 0 ELSE ends[Len(ends)]
Before(k)   == IF k = 1 THEN 0 ELSE ends[k - 1]
SumOf(a, b) == MapThenSumSet(LAMBDA i : weights[i], (a + 1)..b)
AtLeastOne(n) == IF n = 0 THEN 1 ELSE n
Lesser(m, n)  == IF m < n THEN m ELSE n

\* The target of a call: the setting, the server's ceiling and the files there are.
AdaptiveSize(files, setting) ==
  IF files = 0 THEN 1
  ELSE AtLeastOne(Lesser(Lesser(IF setting > 0 THEN setting ELSE files, AtLeastOne(Ceiling)), files))
Target(files, setting, adaptive) ==
  IF adaptive THEN AdaptiveSize(files, setting)
  ELSE IF setting > 0 THEN setting ELSE files
\* What the planner makes of it, whoever calls it.
CapFor(files, operations) ==
  AtLeastOne(Lesser(IF operations > 0 THEN operations ELSE files, AtLeastOne(Ceiling)))

InitUpload ==
  \E setting \in Settings, adaptive \in BOOLEAN :
    /\ pc = "fill" /\ budget \in Budgets
    /\ cap = CapFor(Total, Target(Total, setting, adaptive))
InitDelete ==
  /\ pc = "chunk" /\ budget = 0 /\ cap = AtLeastOne(Ceiling)
  /\ Total > 0 /\ weights \in [1..Total -> {0}]
Init ==
  /\ weights \in UNION {[1..n -> Weights \cup {0}] : n \in 0..MaxFiles}
  /\ (InitUpload /\ \A i \in 1..Total : weights[i] \in Weights) \/ InitDelete
  /\ index = 0 /\ bytes = Envelope /\ ends = <<>> /\ deleted = 0 /\ gone = 0

-----------------------------------------------------------------------------
Within(b)  == budget = 0 \/ b <= budget
Fits(a, b) == b - a <= cap /\ Within(Envelope + SumOf(a, b))

\* A commit that has files is closed before one more than it may hold.
\* (Mutant: the bytes are those of the files before.)
IsFullLate(w) == LastEnd < index /\ (index - LastEnd >= cap \/ ~Within(bytes))
IsFull(w)     == LastEnd < index /\ (index - LastEnd >= cap \/ ~Within(bytes + w))
Take ==
  LET w == weights[index + 1] IN
  /\ pc = "fill" /\ index < Total
  /\ index' = index + 1
  /\ IF IsFull(w) THEN ends' = Append(ends, index) /\ bytes' = Envelope + w
                  ELSE bytes' = bytes + w /\ UNCHANGED ends
  /\ UNCHANGED <<pc, input, deleted, gone>>

CloseLast ==
  /\ pc = "fill" /\ index = Total
  /\ ends' = IF LastEnd < index THEN Append(ends, index) ELSE ends
  /\ pc' = "balance"
  /\ UNCHANGED <<input, index, bytes, deleted, gone>>

\* A small last commit shares the files of the one before, if both halves fit.
TinyTail ==
  LET k == Len(ends) IN k >= 2 /\ (ends[k] - Before(k)) * 4 < Before(k) - Before(k - 1)
Midpoint   == LET a == Before(Len(ends) - 1) IN a + (LastEnd - a + 1) \div 2
HalvesFit  == Fits(Before(Len(ends) - 1), Midpoint) /\ Fits(Midpoint, LastEnd)
Balance ==
  /\ pc = "balance" /\ pc' = "planned"
  /\ ends' = IF TinyTail /\ HalvesFit THEN [ends EXCEPT ![Len(ends) - 1] = Midpoint] ELSE ends
  /\ UNCHANGED <<input, index, bytes, deleted, gone>>

\* delete_files: as many as a commit may hold, and one commit after the other.
Chunk ==
  /\ pc = "chunk" /\ index < Total
  /\ index' = Lesser(index + cap, Total)
  /\ ends' = Append(ends, index')
  /\ UNCHANGED <<pc, input, bytes, deleted, gone>>
BeginDelete ==
  /\ pc = "chunk" /\ index = Total /\ pc' = "delete"
  /\ UNCHANGED <<input, index, bytes, ends, deleted, gone>>
NextEnd == CHOOSE e \in {ends[k] : k \in DOMAIN ends} : e > deleted /\ \A k \in DOMAIN ends :
             ends[k] > deleted => e <= ends[k]
Delete ==
  /\ pc = "delete" /\ deleted < Total
  /\ deleted' = NextEnd /\ gone' = NextEnd
  /\ UNCHANGED <<pc, input, index, bytes, ends>>
\* The commit is given up; one whose answer was lost has taken effect.
DeleteFails ==
  /\ pc = "delete" /\ deleted < Total
  /\ gone' \in {gone, NextEnd} /\ pc' = "raised"
  /\ UNCHANGED <<input, index, bytes, ends, deleted>>
DeleteReturns ==
  /\ pc = "delete" /\ deleted = Total /\ pc' = "returned"
  /\ UNCHANGED <<input, index, bytes, ends, deleted, gone>>

Rest == pc \in {"planned", "raised", "returned"} /\ UNCHANGED vars

Next ==
  \/ Take \/ CloseLast \/ Balance
  \/ Chunk \/ BeginDelete \/ Delete \/ DeleteFails \/ DeleteReturns
  \/ Rest

Spec == Init /\ [][Next]_vars

-----------------------------------------------------------------------------
(* Properties                                                               *)

TypeOK ==
  /\ pc \in {"fill", "balance", "planned", "chunk", "delete", "raised", "returned"}
  /\ cap \in Nat \ {0} /\ budget \in Budgets \cup {0}
  /\ index \in 0..Total /\ bytes \in Nat
  /\ ends \in Seq(1..Total) /\ {deleted, gone} \subseteq 0..Total

\* What the planner's documentation allows as one commit: within the limits, or a single
\* operation that is too large for any.
Allowed(a, b) == b - a <= AtLeastOne(Ceiling) /\ (b = a + 1 \/ Fits(a, b))

\* The reference: the fewest commits the files can be cut into, tried in every way.
Fewest ==
  LET f[a \in 0..Total] ==
        IF a = Total THEN 0 ELSE 1 + Min({f[b] : b \in {c \in (a + 1)..Total : Allowed(a, c)}})
  IN f[0]

\* The commits hold every file once and in order, each within the limits; there are as few
\* of them as can be, and the last is not tiny unless its files fit no better.
PlanIsBest ==
  pc = "planned" =>
    /\ LastEnd = Total
    /\ \A k \in DOMAIN ends : Before(k) < ends[k] /\ Allowed(Before(k), ends[k])
    /\ Len(ends) = Fewest
    /\ TinyTail => ~HalvesFit

\* A deletion that returns has removed everything, and one that fails is behind what is gone
\* by one commit at most; no commit is larger than the server takes.
DeletedIsGone ==
  /\ pc = "returned" => gone = Total
  /\ deleted <= gone /\ gone - deleted <= AtLeastOne(Ceiling)
  /\ pc \in {"delete", "raised"} => \A k \in DOMAIN ends : ends[k] - Before(k) \in 1..AtLeastOne(Ceiling)
=============================================================================
