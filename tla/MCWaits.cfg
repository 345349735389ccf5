SPECIFICATION FairSpec
CONSTANTS
    NoTimeout = NoTimeout
    Timeouts = {NoTimeout, 0, 5, 80}
    ExecutionTimeout = 20
    Backoff = 1
    Latencies = {0, 1, 7}
    MaxLatency = 7
    MaxReruns = 1
INVARIANT HonestResult
INVARIANT Punctual
PROPERTY Ends
