--------------------------- MODULE MCDownloadFile ---------------------------
(* Small instances of DownloadFile for TLC.                                 *)
EXTENDS DownloadFile, TLC

CONSTANTS p, q,       \* processes
          i1, i2, i3   \* inodes

\* Replicas serve the listed object, one of its size, and a longer one.
Objects == "new" :> 2 @@ "stale" :> 2 @@ "long" :> 3

Profile(h, l, s, f) == [hashed |-> h, linked |-> l, sized |-> s, force |-> f]

\* A partial file that is longer than the file.
Partials == {[n \in 1..3 |-> <<"long", n>>]}

\* The listing's size and hash; a forced download with the hash alone; the size, and
\* the hash that the server sends.
Given  == {Profile(TRUE, FALSE, TRUE, FALSE), Profile(TRUE, FALSE, FALSE, TRUE),
           Profile(FALSE, TRUE, TRUE, FALSE)}
Hashed == {Profile(TRUE, FALSE, TRUE, FALSE)}

OneLock   == p :> "lock" @@ q :> "lock"
TwoLocks  == p :> "lock" @@ q :> "other"
=============================================================================
