SPECIFICATION LiveSpec
CONSTANTS
    flusher = flusher
    heartbeat = heartbeat
    job = job
    NoPost = NoPost
    Posts = {p1, p2, p3}
    Threads <- BetweenJobs
    Senders = {heartbeat}
    Flushers = {flusher}
    Cancellable <- CronCancellable
    MaxQueueLen = 2
    MaxRetries = 3
    Replies = {"ok", "retry", "auth", "reject"}
INVARIANTS RetryBudget
PROPERTIES NoRepost QueueDrains
CHECK_DEADLOCK FALSE
