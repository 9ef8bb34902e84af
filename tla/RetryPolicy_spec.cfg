CONSTANTS
    RetrySettings = {0, 1, 2, 3}
    RETRY_BACKOFF_BASE = 2
SPECIFICATION Spec
CHECK_DEADLOCK FALSE
INVARIANT RetryAttemptsAsSpecified
