----------------------------- MODULE Dispatcher -----------------------------
(***************************************************************************)
(* The command registry and the message dispatcher of pkg/commands         *)
(* (command.go: AddCommand, getAttributes, Initialize, isAllowedUser,      *)
(* tokenize, Handler, checkForCommand), the start-up order of the process  *)
(* (the knowledge package's init() registers its rule before main() calls  *)
(* Initialize) and the socket-mode event loop of cmd/slack-bot that acks   *)
(* each event and calls Handler, one event at a time.                      *)
(*                                                                         *)
(* A message text is a sequence of pieces: a word, MENTION (the bot's      *)
(* <@id>), QUOTED (a double-quoted two-word phrase) or SPACE (one extra    *)
(* blank). A rule (data.Attributes) is a record                            *)
(*   [name, commands (Seq), requireMention, glob (= ~DontGlobQuotes),      *)
(*    allowNonSplat, mustBeInThread, requiredArgs, maxArgs, respondInDM,   *)
(*    respondInChannel, callback |-> "knowledge" | "static",               *)
(*    outcomes |-> what a static callback may return ("reply": a non-empty *)
(*                 response, "empty", "error": nil response and an error), *)
(*    reads |-> argument indexes the callback reads without a bound check] *)
(* A panic in Handler is not recovered: it ends the process, which is      *)
(* restarted; events not yet acked are redelivered by Slack.               *)
(***************************************************************************)
EXTENDS Knowledge, SequencesExt

CONSTANTS
  Users,            \* Slack user ids of people posting
  Channels,         \* channel ids
  Names,            \* channel names
  InitialName,      \* each channel's name when the process starts
  MaxRenames,       \* bound on channel renames
  Texts,            \* message texts people post
  MaxPosts,         \* bound on the number of posts
  MaxRetries,       \* bound on Slack's redeliveries of unacked events
  KnowledgeLoaded,  \* loadKnowledgeEntries returned nil at start-up
  KnowledgeRule,    \* KnowledgeCommandAttributes
  StaticRules,      \* the rules Initialize adds, in order
  AllowedEnv,       \* SLACK_ALLOWED_USERS split on ","; << >> when unset
  BotReplyText,     \* the text of the bot's own replies as Slack echoes it
  DMChannel,        \* the direct-message channel opened with a user
  NoEvent

ASSUME MaxPosts \in Nat /\ MaxRenames \in Nat /\ MaxRetries \in Nat

MENTION == "<@bot>"
QUOTED  == "<quoted>"
SPACE   == "<space>"

VARIABLES
  boot,          \* "init" | "main" | "running": where start-up is
  attributes,    \* the registry, in AddCommand order
  allowedUsers,  \* the keys of the allowedUsers map
  queue,         \* client.Events: events delivered and not yet acked
  posts,         \* number of posts made so far
  cur,           \* the event Handler is processing, or NoEvent
  snap,          \* getAttributes(): Handler's copy of the registry
  idx,           \* index of the rule Handler's loop is at
  calls,         \* history: callbacks invoked
  replies,       \* history: PostMessage calls
  crashes,       \* history: events whose handling panicked
  renames,       \* number of channel renames so far
  retries        \* number of redeliveries so far

vars == << boot, attributes, allowedUsers, queue, posts, cur, snap, idx,
           channelIDMap, channelName, calls, replies, crashes, renames, retries >>

(* The variables only Slack changes.                                       *)
slack == << channelName, renames, retries >>

(* ContainsBotMention: the message text mentions the bot.                  *)
ContainsBotMention(text) == MENTION \in Range(text)

(* tokenize: with glob a quoted phrase is one token without its quotes and *)
(* runs of blanks separate tokens; without, strings.Split on " " cuts the  *)
(* phrase in two halves that keep a quote each and an extra blank yields   *)
(* an empty token.                                                         *)
TokensOf(p, glob) ==
  CASE p = SPACE  -> IF glob THEN << >> ELSE << "" >>
    [] p = QUOTED -> IF glob THEN << "fix it" >> ELSE << "\"fix", "it\"" >>
    [] OTHER      -> << p >>
tokenize(text, glob) == FlattenSeq([i \in DOMAIN text |-> TokensOf(text[i], glob)])

(* The argument tokens Handler builds for rule r: tokenize with the rule's *)
(* quoting, then args[1:] when the text mentions the bot.                  *)
ArgsFor(evt, r) ==
  LET a == tokenize(evt.text, r.glob)
  IN  IF ContainsBotMention(evt.text) THEN SubSeq(a, 2, Len(a)) ELSE a

(* checkForCommand: compares commands[i] with args[i] for each i until a   *)
(* mismatch; args[i] beyond the end of args is an index-out-of-range panic.*)
checkForCommand(args, commands) ==
  LET bad == { i \in DOMAIN commands : i > Len(args) \/ commands[i] # args[i] }
  IN  IF bad = {} THEN TRUE
      ELSE IF Min(bad) > Len(args) THEN Panic ELSE FALSE

(* isAllowedUser with the emptiness test inverted, kept as a mutant.       *)
isAllowedUserInverted(evt) == evt.user \in allowedUsers \/ allowedUsers # {}

(* isAllowedUser: only a non-empty allow-list restricts.                   *)
isAllowedUser(evt) == evt.user \in allowedUsers \/ allowedUsers = {}

-----------------------------------------------------------------------------
(* Start-up.                                                               *)

Init ==
  /\ boot = "init"
  /\ attributes = << >>
  /\ allowedUsers = {}
  /\ queue = << >>
  /\ posts = 0
  /\ cur = NoEvent
  /\ snap = << >>
  /\ idx = 0
  /\ channelIDMap = << >>
  /\ calls = {}
  /\ replies = {}
  /\ crashes = {}
  /\ channelName = InitialName
  /\ renames = 0
  /\ retries = 0

(* knowledge.init(): when the prompts load, AddCommand(KnowledgeCommand-   *)
(* Attributes) appends the knowledge rule before main() runs.              *)
KnowledgeInit ==
  /\ boot = "init"
  /\ attributes' = IF KnowledgeLoaded THEN Append(attributes, KnowledgeRule)
                                      ELSE attributes
  /\ boot' = "main"
  /\ UNCHANGED << allowedUsers, queue, posts, cur, snap, idx, channelIDMap,
                  calls, replies, crashes, slack >>

(* commands.Initialize: AddCommand for each static rule, then the          *)
(* allow-list from SLACK_ALLOWED_USERS; main() then starts the event loop. *)
Initialize ==
  /\ boot = "main"
  /\ attributes' = attributes \o StaticRules
  /\ allowedUsers' = Range(AllowedEnv)
  /\ boot' = "running"
  /\ UNCHANGED << queue, posts, cur, snap, idx, channelIDMap, calls, replies,
                  crashes, slack >>

-----------------------------------------------------------------------------
(* Slack.                                                                  *)

(* A person posts text: Slack delivers a "message" event and, when the     *)
(* text mentions the bot, an "app_mention" event too, in either order.     *)
Post(u, t, ch, th) ==
  /\ posts < MaxPosts
  /\ posts' = posts + 1
  /\ LET msg == [post |-> posts + 1, type |-> "message", user |-> u,
                 text |-> t, channel |-> ch, thread |-> th, bot |-> FALSE,
                 attempt |-> 0]
         men == [msg EXCEPT !.type = "app_mention"]
     IN  \E evs \in IF ContainsBotMention(t) THEN {<< msg, men >>, << men, msg >>}
                                             ELSE {<< msg >>} :
            queue' = queue \o evs
  /\ UNCHANGED << boot, attributes, allowedUsers, cur, snap, idx,
                  channelIDMap, calls, replies, crashes, slack >>

(* A channel is renamed in Slack.                                         *)
Rename(ch, n) ==
  /\ renames < MaxRenames
  /\ channelName[ch] # n
  /\ channelName' = [channelName EXCEPT ![ch] = n]
  /\ renames' = renames + 1
  /\ UNCHANGED << boot, attributes, allowedUsers, queue, posts, cur, snap, idx,
                  channelIDMap, calls, replies, crashes, retries >>

-----------------------------------------------------------------------------
(* The event loop and Handler.                                             *)

(* Receive without the bot-message check, kept as a mutant.                *)
ReceiveNoBotCheck ==
  /\ boot = "running"
  /\ cur = NoEvent
  /\ queue # << >>
  /\ queue' = Tail(queue)
  /\ cur' = Head(queue)
  /\ snap' = attributes
  /\ idx' = 1
  /\ UNCHANGED << boot, attributes, allowedUsers, posts, channelIDMap, calls,
                  replies, crashes, slack >>

(* The loop takes the next event, acks it and calls Handler, which drops   *)
(* messages from bots and otherwise starts its loop over getAttributes().  *)
Receive ==
  /\ boot = "running"
  /\ cur = NoEvent
  /\ queue # << >>
  /\ queue' = Tail(queue)
  /\ IF Head(queue).bot
       THEN UNCHANGED << cur, snap, idx >>
       ELSE /\ cur' = Head(queue)
            /\ snap' = attributes
            /\ idx' = 1
  /\ UNCHANGED << boot, attributes, allowedUsers, posts, channelIDMap, calls,
                  replies, crashes, slack >>

Rule == snap[idx]
Args == ArgsFor(cur, Rule)

(* The mention requirement without the app_mention test, kept as a mutant. *)
MentionOKTextOnly == ~Rule.requireMention \/ ContainsBotMention(cur.text)

(* The rule's mention requirement holds: the text mentions the bot and     *)
(* the event is an app_mention.                                            *)
MentionOK ==
  ~Rule.requireMention \/ (ContainsBotMention(cur.text) /\ cur.type = "app_mention")

Looping ==
  /\ cur # NoEvent
  /\ idx \in DOMAIN snap

NextRule ==
  /\ idx' = idx + 1
  /\ UNCHANGED << boot, attributes, allowedUsers, queue, posts, cur, snap,
                  channelIDMap, calls, replies, crashes, slack >>

(* The loop moves on: the mention requirement fails, the command does not  *)
(* match, or the rule must be in a thread and the message is not.          *)
SkipRule ==
  /\ Looping
  /\ \/ ~MentionOK
     \/ MentionOK /\ checkForCommand(Args, Rule.commands) = FALSE
     \/ /\ MentionOK /\ checkForCommand(Args, Rule.commands) = TRUE
        /\ Rule.allowNonSplat \/ isAllowedUser(cur)
        /\ Rule.mustBeInThread /\ ~cur.thread
  /\ NextRule

Matched ==
  /\ Looping
  /\ MentionOK
  /\ checkForCommand(Args, Rule.commands) = TRUE

(* isAllowedUser fails: Handler returns an error and the event is done.    *)
DenyUser ==
  /\ Matched
  /\ ~Rule.allowNonSplat /\ ~isAllowedUser(cur)
  /\ cur' = NoEvent
  /\ UNCHANGED << boot, attributes, allowedUsers, queue, posts, snap, idx,
                  channelIDMap, calls, replies, crashes, slack >>

Admitted ==
  /\ Matched
  /\ Rule.allowNonSplat \/ isAllowedUser(cur)
  /\ ~Rule.mustBeInThread \/ cur.thread

TooFew  == Len(Args) < Rule.requiredArgs
TooMany == Rule.requiredArgs > 0 /\ Len(Args) > Rule.requiredArgs

(* Handler has admitted the event for a rule and is in its callback.       *)
InCallback == Admitted /\ ~TooFew /\ ~TooMany

(* Slack redelivers an event that was not acked in time, with its retry    *)
(* count raised; the original stays queued. The loop acks an event only    *)
(* when it takes it, so every event queued while Handler runs a callback   *)
(* (which calls Jira, the language model or the Slack API) may be late.    *)
Redeliver(i) ==
  /\ retries < MaxRetries
  /\ InCallback
  /\ i \in DOMAIN queue
  /\ queue' = Append(queue, [queue[i] EXCEPT !.attempt = @ + 1])
  /\ retries' = retries + 1
  /\ UNCHANGED << boot, attributes, allowedUsers, posts, cur, snap, idx,
                  channelIDMap, channelName, renames, calls, replies, crashes >>

(* Respond without the return after posting, kept as a mutant.            *)
RespondNoReturn(kind, asset) ==
  /\ replies' = replies \cup
        {[post |-> cur.post, type |-> cur.type, bot |-> cur.bot,
          user |-> cur.user, channel |-> cur.channel, attempt |-> cur.attempt,
          text |-> cur.text, at |-> idx, nargs |-> Len(Args),
          name |-> channelName[cur.channel],
          rule |-> Rule.name, kind |-> kind, asset |-> asset,
          anchor |-> "ts", sent |-> FALSE]}
  /\ UNCHANGED << queue, cur >>
  /\ idx' = idx + 1

(* A non-empty response is routed and posted, and Handler returns. A DM    *)
(* goes to the channel getDMChannelID opens (the empty channel when that   *)
(* fails); otherwise the reply is threaded under the message (TimeStamp)   *)
(* unless RespondInChannel, which threads it only when the message is in  *)
(* a thread. A successful post comes back as a bot message event.          *)
Respond(kind, asset) ==
  \E dmOk, postOk \in BOOLEAN :
    LET anchor == CASE Rule.respondInDM     -> "dm"
                    [] ~Rule.respondInChannel -> "ts"
                    [] cur.thread           -> "thread_ts"
                    [] OTHER                -> "none"
        sent   == postOk /\ (anchor = "dm" => dmOk)
        echo   == [post |-> cur.post, type |-> "message", user |-> cur.user,
                   text |-> BotReplyText,
                   channel |-> IF anchor = "dm" THEN DMChannel ELSE cur.channel,
                   thread |-> anchor \in {"ts", "thread_ts"}, bot |-> TRUE,
                   attempt |-> 0]
    IN  /\ replies' = replies \cup
                {[post |-> cur.post, type |-> cur.type, bot |-> cur.bot,
                  user |-> cur.user, channel |-> cur.channel, attempt |-> cur.attempt,
                  text |-> cur.text, at |-> idx, nargs |-> Len(Args),
                  name |-> channelName[cur.channel],
                  rule |-> Rule.name, kind |-> kind, asset |-> asset,
                  anchor |-> anchor, sent |-> sent]}
        /\ queue' = IF sent THEN Append(queue, echo) ELSE queue
        /\ cur' = NoEvent
        /\ idx' = idx

(* Too few or too many arguments: a usage message is the response.         *)
UsageReply ==
  /\ Admitted
  /\ TooFew \/ TooMany
  /\ Respond(IF TooFew THEN "few" ELSE "many", 0)
  /\ UNCHANGED << boot, attributes, allowedUsers, posts, snap,
                  channelIDMap, calls, crashes, slack >>

Call(outcome, asset) ==
  calls' = calls \cup {[post |-> cur.post, type |-> cur.type, bot |-> cur.bot,
                        user |-> cur.user, channel |-> cur.channel,
                        attempt |-> cur.attempt, at |-> idx, rule |-> Rule.name, outcome |-> outcome,
                        asset |-> asset]}

(* The callback's outcome: a response is posted; an error is logged and,   *)
(* like an empty response, the loop goes on to the next rule.             *)
AfterCallback(outcome, asset) ==
  IF outcome = "reply"
    THEN Respond("callback", asset)
    ELSE idx' = idx + 1 /\ UNCHANGED << queue, cur, replies >>

(* A static rule's callback (createJira, the unsized-stories query, ...).  *)
StaticCallback ==
  /\ Admitted
  /\ ~TooFew /\ ~TooMany
  /\ Rule.callback = "static"
  /\ \A k \in Rule.reads : k < Len(Args)
  /\ \E outcome \in Rule.outcomes \ {"exit"} :
       /\ Call(outcome, 0)
       /\ AfterCallback(outcome, 0)
  /\ UNCHANGED << boot, attributes, allowedUsers, posts, snap, channelIDMap,
                  crashes, slack >>

(* The knowledge rule's callback, defaultKnowledgeEventHandler.            *)
KnowledgeCallback ==
  /\ Admitted
  /\ ~TooFew /\ ~TooMany
  /\ Rule.callback = "knowledge"
  /\ \E clientOk, lookupOk \in BOOLEAN :
       LET res == defaultKnowledgeHandler(Args, cur, clientOk, lookupOk)
       IN  /\ res.outcome # "panic"
           /\ channelIDMap' = res.cache
           /\ Call(res.outcome, res.asset)
           /\ AfterCallback(res.outcome, res.asset)
  /\ UNCHANGED << boot, attributes, allowedUsers, posts, snap, crashes, slack >>

(* The loop ends without a response: Handler returns nil.                  *)
Finish ==
  /\ cur # NoEvent
  /\ idx = Len(snap) + 1
  /\ cur' = NoEvent
  /\ UNCHANGED << boot, attributes, allowedUsers, queue, posts, snap, idx,
                  channelIDMap, calls, replies, crashes, slack >>

(* The reason the current step panics, or "none": checkForCommand reading  *)
(* past args, a static callback reading an argument that is not there, or  *)
(* the knowledge callback's evaluation panicking (for any lookup outcome). *)
PanicReason ==
  CASE ~Looping -> "none"
    [] MentionOK /\ checkForCommand(Args, Rule.commands) = Panic ->
         "checkForCommand"
    [] Admitted /\ ~TooFew /\ ~TooMany /\ Rule.callback = "static"
       /\ \E k \in Rule.reads : k >= Len(Args) ->
         "callbackArgs"
    [] Admitted /\ ~TooFew /\ ~TooMany /\ Rule.callback = "knowledge"
       /\ \E cOk, ok \in BOOLEAN : defaultKnowledgeHandler(Args, cur, cOk, ok).outcome = "panic" ->
         "evaluation"
    [] OTHER -> "none"

(* A panic or log.Fatal ends the process; it restarts with empty in-memory *)
(* state and Slack redelivers the events that were not acked. The event    *)
(* being handled was acked and is lost.                                    *)
Crash(reason) ==
  /\ crashes' = crashes \cup {[post |-> cur.post, type |-> cur.type,
                               rule |-> Rule.name, reason |-> reason]}
  /\ boot' = "init"
  /\ attributes' = << >>
  /\ allowedUsers' = {}
  /\ cur' = NoEvent
  /\ snap' = << >>
  /\ idx' = 0
  /\ channelIDMap' = << >>
  /\ UNCHANGED << queue, posts, replies, slack >>

(* Handler panics.                                                         *)
CrashRestart ==
  /\ PanicReason # "none"
  /\ Crash(PanicReason)
  /\ UNCHANGED calls

(* A static callback that ends the process (handlePrompt's log.Fatal when  *)
(* the language-model client fails).                                      *)
FatalCallback ==
  /\ Admitted
  /\ ~TooFew /\ ~TooMany
  /\ Rule.callback = "static"
  /\ \A k \in Rule.reads : k < Len(Args)
  /\ "exit" \in Rule.outcomes
  /\ Call("exit", 0)
  /\ Crash("fatal")

-----------------------------------------------------------------------------
Next ==
  \/ KnowledgeInit
  \/ Initialize
  \/ \E u \in Users, t \in Texts, ch \in Channels, th \in BOOLEAN : Post(u, t, ch, th)
  \/ \E ch \in Channels, n \in Names : Rename(ch, n)
  \/ \E i \in 1..Len(queue) : Redeliver(i)
  \/ Receive
  \/ SkipRule
  \/ DenyUser
  \/ UsageReply
  \/ StaticCallback
  \/ KnowledgeCallback
  \/ Finish
  \/ CrashRestart
  \/ FatalCallback

(* The event loop is a single goroutine that runs whenever an event is     *)
(* queued; start-up always completes. People need not post.               *)
Fairness ==
  /\ WF_vars(KnowledgeInit) /\ WF_vars(Initialize)
  /\ WF_vars(Receive) /\ WF_vars(SkipRule) /\ WF_vars(DenyUser)
  /\ WF_vars(UsageReply) /\ WF_vars(StaticCallback)
  /\ WF_vars(KnowledgeCallback) /\ WF_vars(Finish) /\ WF_vars(CrashRestart)
  /\ WF_vars(FatalCallback)

Spec == Init /\ [][Next]_vars /\ Fairness

-----------------------------------------------------------------------------
(* Properties.                                                             *)

RuleNamed(n) == CHOOSE r \in {KnowledgeRule} \cup Range(StaticRules) : r.name = n

Event == [post : Nat, type : {"message", "app_mention"}, user : Users,
          text : Texts \cup {BotReplyText}, channel : Channels \cup {DMChannel},
          thread : BOOLEAN, bot : BOOLEAN, attempt : 0..MaxRetries]

TypeOK ==
  /\ boot \in {"init", "main", "running"}
  /\ posts \in 0..MaxPosts /\ renames \in 0..MaxRenames /\ retries \in 0..MaxRetries
  /\ cur \in Event \cup {NoEvent}
  /\ \A i \in DOMAIN queue : queue[i] \in Event
  /\ allowedUsers \subseteq Users
  /\ channelName \in [Channels -> Names]
  /\ DOMAIN channelIDMap \subseteq Channels
  /\ \A c \in DOMAIN channelIDMap : channelIDMap[c] \in Names
  /\ \A c \in calls : c.outcome \in {"reply", "empty", "error", "exit"}
  /\ \A r \in replies : r.kind \in {"few", "many", "callback"}

(* A post that mentions the bot reaches Handler twice, as a message and as *)
(* an app_mention event; a rule that requires a mention must run its       *)
(* callback for at most one of them, so a command (a Jira issue, a         *)
(* summary) acts once per post, however Slack delivers the post.           *)
CallbacksOncePerPost ==
  \A c, d \in calls :
     (/\ c.post = d.post /\ c.rule = d.rule /\ ~c.bot /\ ~d.bot
      /\ RuleNamed(c.rule).requireMention) => c = d

(* With SLACK_ALLOWED_USERS set, the callback of a rule that does not      *)
(* allow other users runs only for users on the list, whatever the order   *)
(* of start-up, crashes and restarts.                                      *)
RestrictedCallbacksOnlyForAllowedUsers ==
  \A c \in calls :
     (~RuleNamed(c.rule).allowNonSplat /\ AllowedEnv # << >>)
        => c.user \in Range(AllowedEnv)

(* Once people stop posting, the bot falls silent: every queued event is   *)
(* handled and its own replies, echoed back by Slack, start nothing.       *)
Quiescence ==
  <>[](boot = "running" /\ queue = << >> /\ cur = NoEvent)

(* The event loop implements EventLoop: the event Handler holds, followed  *)
(* by Slack's queue, is the inbox; the deliveries replied to are the       *)
(* answered ones; the bot serves once start-up is over. So events are      *)
(* handled in delivery order, each delivery gets at most one reply and     *)
(* only if a person sent it, a panic loses only the event being handled,   *)
(* and every delivered event is eventually handled.                        *)
EL == INSTANCE EventLoop
        WITH inbox    <- IF cur # NoEvent THEN << cur >> \o queue ELSE queue,
             answered <- { << r.post, r.type, r.attempt >> : r \in replies },
             ready    <- boot = "running"
EventLoopRefined == EL!Spec

-----------------------------------------------------------------------------
(* What the spec says of the dispatcher and the code does not do; each is  *)
(* checked by a run that expects a violation.                              *)

(* Section 4.5 (f): an error from a matched rule's callback ends the       *)
(* handling of that message; no later rule's callback runs for it.         *)
CallbackErrorEndsDispatch ==
  \A c, d \in calls :
     (/\ c.post = d.post /\ c.type = d.type /\ c.bot = d.bot
      /\ c.outcome = "error") => d.at <= c.at

(* One post gets at most one answer from the bot, although Slack delivers *)
(* a post that mentions the bot as two events.                            *)
OneReplyPerPost ==
  \A r, s \in replies : (r.post = s.post /\ ~r.bot /\ ~s.bot) => r = s

(* Section 3: a rule restricted to channels answers only in those          *)
(* channels: a knowledge answer comes from a channel whose name, when the  *)
(* answer is posted, is one the asset requires.                            *)
ChannelRestrictionHolds ==
  \A r \in replies :
     r.asset # 0 => InRequiredChannel(Assets[r.asset], r.name)
=============================================================================
