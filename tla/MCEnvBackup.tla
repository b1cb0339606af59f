----------------------------- MODULE MCEnvBackup -----------------------------
(* Instance of EnvBackup: two paths, one of them that of the seed.           *)
EXTENDS EnvBackup

CONSTANTS p1, p2

MCSeeds == <<p1>>
=============================================================================
