---------------------------- MODULE MCRetryQueue ----------------------------
(* Small instances of RetryQueue for TLC.  The goroutines are those of       *)
(* cronHelper: the retry flusher, the heartbeat and one cron job.            *)
EXTENDS RetryQueue, TLC

CONSTANTS flusher, heartbeat, job

CronSenders     == {heartbeat, job}
CronFlushers    == {flusher, job}
CronCancellable == {flusher, heartbeat}

\* No cron job is running: only the flusher flushes.
BetweenJobs == {flusher, heartbeat}

Symmetry == Permutations(Posts)
=============================================================================
