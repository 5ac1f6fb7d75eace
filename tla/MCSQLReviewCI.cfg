\* Two setup requests and one PATCH on a GitLab repository (two CI files
\* in a fixed order) over two seconds, so a retry may meet the first
\* attempt's branch name; one request at a time.
CONSTANTS
  Requests = {q1, q2}
  Patches = {p1}
  VCSType = "gitlab"
  MaxClock = 1
  Concurrent = FALSE
SPECIFICATION Spec
INVARIANT
  PullRequestComplete
PROPERTY
  CIEnabledOnlyBySetup
