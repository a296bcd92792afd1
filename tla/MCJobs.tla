------------------------------- MODULE MCJobs -------------------------------
(***************************************************************************)
(* Small instances of the job registry for TLC.                            *)
(***************************************************************************)
EXTENDS Jobs, TLC

\* The two kinds with an admission rule of their own, and a plain scan.
ExclusionKinds == {Generation, Scan}
LivenessKinds == {Mood, Check}

\* The two exclusive kinds, against bodyless scans.
AdmissionKinds == {Generation, Mood}

ScanSymmetry == Permutations(ScanWorker)
HandlerSymmetry == Permutations(Handler)
=============================================================================
