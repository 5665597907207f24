SPECIFICATION Spec
CONSTANTS
    None = None
    Callers = {c1, c2, c3}
    failure_threshold = 2
    success_threshold = 2
    max_concurrent = 2
    max_retries = 1
INVARIANT ProbeInFlight
