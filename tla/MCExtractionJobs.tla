-------------------------- MODULE MCExtractionJobs --------------------------
(* Small instances of ExtractionJobs for TLC.                                *)
EXTENDS ExtractionJobs, TLC

\* Chunks are interchangeable, and so are the handlers and the worker's jobs.
Symmetry ==
    Permutations(Chunks) \cup Permutations(Workers) \cup Permutations(Calls)
=============================================================================
