----------------------------- MODULE JiraDialog -----------------------------
(***************************************************************************)
(* The /jira-create slash command and its modal (pkg/commands/create.go:   *)
(* JiraCreateSlashCommand, createJiraDialog, CanHandleViewSubmission,      *)
(* HandleViewSubmission, generateJira) as the socket-mode loop of          *)
(* cmd/slack-bot runs them: the loop acks each envelope only when it takes *)
(* it, then handles it, one envelope at a time.                            *)
(*                                                                         *)
(* Slack expects the ack of an envelope within three seconds. A slash      *)
(* command's trigger_id is valid for three seconds too: an envelope that   *)
(* waits longer (the loop is busy with a Jira, language-model or Slack     *)
(* call) is late. A late view submission shows an error in the modal,     *)
(* which stays open and can be submitted again; a submission acked in time *)
(* closes the modal.                                                       *)
(*                                                                         *)
(* commands.SlashHandler and commands.ViewSubmissionHandler are not in the *)
(* repository: they are taken to call the slash command's ProcessCommand,  *)
(* and HandleViewSubmission when ViewSubmissionCheck accepts the view's    *)
(* callback id, posting its response to the view's PrivateMetadata channel.*)
(***************************************************************************)
EXTENDS Naturals, Sequences

CONSTANTS
  Users,             \* people using /jira-create
  Channels,          \* channels they type it in
  MaxSlash,          \* bound on /jira-create commands
  MaxTimeouts,       \* bound on envelopes that wait past the ack deadline
  JIRA_TEST_MODE_ENABLED

\* The callback id createJiraDialog gives its view.
CreateJiraDialogCommand == "Jira_Create_Dialog_Input"

VARIABLES
  queue,     \* client.Events: envelopes delivered and not yet taken
  views,     \* modals opened by OpenViewContext, by view id
  issues,    \* Jira issues CreateIssue created, each naming its view
  results,   \* responses of ViewSubmissionHandler, each naming its view
  slashes,   \* number of /jira-create commands so far
  timeouts   \* number of envelopes that went late so far

vars == << queue, views, issues, results, slashes, timeouts >>

Init ==
  /\ queue = << >>
  /\ views = << >>
  /\ issues = << >>
  /\ results = << >>
  /\ slashes = 0
  /\ timeouts = 0

-----------------------------------------------------------------------------
(* Slack and the people using it.                                         *)

(* A person types /jira-create in a channel.                               *)
Slash(u, ch) ==
  /\ slashes < MaxSlash
  /\ slashes' = slashes + 1
  /\ queue' = Append(queue, [kind |-> "slash", user |-> u, channel |-> ch,
                             view |-> 0, late |-> FALSE])
  /\ UNCHANGED << views, issues, results, timeouts >>

(* The person presses Create on an open modal.                             *)
Submit(v) ==
  /\ views[v].state = "open"
  /\ views' = [views EXCEPT ![v].state = "submitting"]
  /\ queue' = Append(queue, [kind |-> "submit", user |-> views[v].user,
                             channel |-> views[v].channel, view |-> v,
                             late |-> FALSE])
  /\ UNCHANGED << issues, results, slashes, timeouts >>

(* The person closes an open modal (ClearOnClose; no view_closed event is  *)
(* requested).                                                             *)
Cancel(v) ==
  /\ views[v].state = "open"
  /\ views' = [views EXCEPT ![v].state = "closed"]
  /\ UNCHANGED << queue, issues, results, slashes, timeouts >>

(* An envelope waits past the deadline. For a view submission Slack shows  *)
(* an error in the modal and leaves it open.                               *)
Timeout(i) ==
  /\ timeouts < MaxTimeouts
  /\ ~queue[i].late
  /\ timeouts' = timeouts + 1
  /\ queue' = [queue EXCEPT ![i].late = TRUE]
  /\ views' = IF queue[i].kind = "submit"
                THEN [views EXCEPT ![queue[i].view].state = "open"]
                ELSE views
  /\ UNCHANGED << issues, results, slashes >>

-----------------------------------------------------------------------------
(* The loop.                                                               *)

(* The loop takes the oldest envelope, of the given kind, and acks it.     *)
TakeEnvelope(kind) ==
  /\ queue # << >>
  /\ Head(queue).kind = kind
  /\ queue' = Tail(queue)

(* EventTypeSlashCommand: SlashHandler runs the ProcessCommand of          *)
(* JiraCreateSlashCommand, createJiraDialog, which builds the modal        *)
(* (callback id, the five input blocks, the channel in PrivateMetadata)    *)
(* and calls OpenViewContext with the trigger_id; an error is returned     *)
(* and logged.                                                             *)
createJiraDialog ==
  /\ TakeEnvelope("slash")
  /\ \E openOk \in BOOLEAN :
       views' = IF openOk /\ ~Head(queue).late
                  THEN Append(views, [user |-> Head(queue).user,
                                      channel |-> Head(queue).channel,
                                      callback |-> CreateJiraDialogCommand,
                                      state |-> "open"])
                  ELSE views
  /\ UNCHANGED << issues, results, slashes, timeouts >>

CanHandleViewSubmission(callbackID) == callbackID = CreateJiraDialogCommand

(* generateJira: in test mode no issue is created; otherwise CreateIssue   *)
(* creates one or fails and the error becomes the response.                *)
generateJira(v) ==
  \E createOk \in BOOLEAN :
    IF JIRA_TEST_MODE_ENABLED \/ ~createOk
      THEN UNCHANGED issues
      ELSE issues' = Append(issues, [view |-> v])

(* HandleViewSubmission reads the inputs, fills the description template  *)
(* (invokeTemplate over string fields) and calls generateJira; its         *)
(* response is posted.                                                     *)
HandleViewSubmission(v) ==
  /\ generateJira(v)
  /\ results' = Append(results, [view |-> v])

(* EventTypeInteractive: acked by main and again by processInteractiveEvent;*)
(* an ack in time closes the modal. A view submission goes to              *)
(* ViewSubmissionHandler, which calls HandleViewSubmission when            *)
(* CanHandleViewSubmission accepts the view's callback id.                 *)
processInteractiveEvent ==
  /\ TakeEnvelope("submit")
  /\ LET v == Head(queue).view IN
     /\ views' = IF Head(queue).late THEN views
                 ELSE [views EXCEPT ![v].state = "closed"]
     /\ IF CanHandleViewSubmission(views[v].callback)
          THEN HandleViewSubmission(v)
          ELSE UNCHANGED << issues, results >>
  /\ UNCHANGED << slashes, timeouts >>

Next ==
  \/ \E u \in Users, ch \in Channels : Slash(u, ch)
  \/ \E v \in DOMAIN views : Submit(v)
  \/ \E v \in DOMAIN views : Cancel(v)
  \/ \E i \in DOMAIN queue : Timeout(i)
  \/ createJiraDialog
  \/ processInteractiveEvent

(* The loop runs whenever an envelope is queued; people need not act.     *)
Spec == Init /\ [][Next]_vars /\ WF_vars(createJiraDialog)
                              /\ WF_vars(processInteractiveEvent)

-----------------------------------------------------------------------------
(* Properties.                                                             *)

(* One modal files at most one Jira issue: the person presses Create once  *)
(* for the issue they mean.                                                *)
AtMostOneIssuePerDialog ==
  \A i, j \in DOMAIN issues : issues[i].view = issues[j].view => i = j
=============================================================================
