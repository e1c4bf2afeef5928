\* A bulk job and a plugin job, with and without a queue.
CONSTANTS
  Jobs = {j, k}
  PluginJobs = {k}
  Pages = {1, 2}
  Workers = {v, w}
  Limit = 1
  Bindings = {TRUE, FALSE}
  Faults = {"duplicate", "commit", "requeue", "send", "dies"}
  MaxFaults = 2
  MaxEdits = 1
  None = None
  Requests = {r}
  Reviewers = {x, y}
  Decisions = {"located", "gap"}
  Incidents = {1, 2}
  PageSize = 1
  MaxBreaks = 1
SPECIFICATION Parts
INVARIANTS JobsSound EvidenceSound
PROPERTIES StepsAreLicensed JobsSettle AlertsArrive
\* Everything enqueued may be settled.
CHECK_DEADLOCK FALSE
