----------------------------- MODULE MCRunErlLog -----------------------------
(***************************************************************************)
(* RunErlLog with three generations. Sizes are scaled down: log_maxsize 4 *)
(* against a banner and a time stamp of 1, and pty reads of 2 and of 4,   *)
(* the latter larger than what is left after the banner, as a read of     *)
(* BUFSIZ (8192) is against LOG_MIN_MAXSIZE (1000).                        *)
(***************************************************************************)
EXTENDS RunErlLog
====
