\* Three lines, the second of them not JSON.
SPECIFICATION MetricsSpec
CONSTANTS
  N = 3
  QueueSize = 1
  Crashes = 1
  Failures = 1
  Unreadable = {2}
INVARIANTS LosesOnePerCrash RepeatsOnlyForFailures AckedIsRecorded
PROPERTIES Flows
\* The bridge hangs in Stop when a line is read while its loop closes.
CHECK_DEADLOCK FALSE
