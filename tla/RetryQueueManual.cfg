SPECIFICATION Spec
CONSTANTS
    flusher = flusher
    heartbeat = heartbeat
    job = job
    NoPost = NoPost
    Posts = {p1, p2, p3}
    Threads = {job}
    Senders = {job}
    Flushers = {job}
    Cancellable = {}
    MaxQueueLen = 2
    MaxRetries = 2
    Replies = {"ok", "retry", "auth", "reject"}
PROPERTIES KeepsLedger
CHECK_DEADLOCK FALSE
