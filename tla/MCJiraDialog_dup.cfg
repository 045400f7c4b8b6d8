CONSTANTS
  u1 = u1
  c1 = c1
  Users = {u1}
  Channels = {c1}
  MaxSlash = 1
  MaxTimeouts = 2
  JIRA_TEST_MODE_ENABLED = FALSE
SPECIFICATION Spec
INVARIANT AtMostOneIssuePerDialog
\* Once the bounded commands are answered the loop blocks on client.Events.
CHECK_DEADLOCK FALSE
