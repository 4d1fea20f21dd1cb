-------------------------- MODULE MCUploadPipeline --------------------------
(* Small instances of UploadPipeline for TLC.                               *)
EXTENDS UploadPipeline, TLC

CONSTANTS A, B,    \* contents
          x, y     \* orphans

\* One LFS file; two LFS files with one content.
Oid1 == 1 :> A
Oid2 == 1 :> A @@ 2 :> A
\* Three files: the first two share a content, the third is inline.
Oid3 == 1 :> A @@ 2 :> A
\* Four files: two contents, one of them shared across batches; one inline.
Oid4 == 1 :> A @@ 2 :> B @@ 4 :> A
=============================================================================
