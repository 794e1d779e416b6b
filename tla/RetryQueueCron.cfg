SPECIFICATION Spec
CONSTANTS
    flusher = flusher
    heartbeat = heartbeat
    job = job
    NoPost = NoPost
    Posts = {p1, p2, p3}
    Threads = {flusher, heartbeat, job}
    Senders <- CronSenders
    Flushers <- CronFlushers
    Cancellable <- CronCancellable
    MaxQueueLen = 2
    MaxRetries = 1
    Replies = {"ok", "retry", "auth", "reject"}
SYMMETRY Symmetry
INVARIANTS QueueBounded QueueInOrder
PROPERTIES BlockedIsQuiet
CHECK_DEADLOCK FALSE
