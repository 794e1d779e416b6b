SPECIFICATION Spec
CONSTANTS
    flusher = flusher
    heartbeat = heartbeat
    job = job
    NoPost = NoPost
    Posts = {p1, p2, p3}
    Threads <- BetweenJobs
    Senders = {heartbeat}
    Flushers = {flusher}
    Cancellable <- CronCancellable
    MaxQueueLen = 2
    MaxRetries = 2
    Replies = {"ok", "retry", "auth", "reject"}
SYMMETRY Symmetry
INVARIANTS NothingLost
CHECK_DEADLOCK FALSE
