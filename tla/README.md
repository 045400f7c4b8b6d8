# TLA+ models of splat-bot

These modules model the Slack bot in `src/`. It has six parts:
- the command registry;
- `commands.Handler`;
- the knowledge rule with its match-tree evaluator and channel-name cache;
- the knowledge loader;
- the `/jira-create` slash command and its modal;
- the GitHub App round tripper, which authorises GitHub requests from goroutines sharing its caches.

Its environment is also modelled: the Slack event stream with its ack deadline and redelivery, and the process restarting after a panic. Every definition is translated from the Go source. `PROJECT.json` maps each definition to its source lines, lists every run, mutant and finding, and lists the code's hazards.

## The system and how its parts interact

| Part | Source | State | Operations |
|---|---|---|---|
| Registry | `pkg/commands/command.go` 19-72 | `attributes` (ordered), `allowedUsers` | `AddCommand` from `knowledge.init` (first), then `Initialize`; `getAttributes` copies the registry |
| Event loop | `cmd/slack-bot/slack-bot.go` 65-115 | Slack's queue of unacked events | ack, then `Handler` (or the slash / interactive branch), one envelope at a time |
| Dispatcher | `command.go` 113-222 | none beyond the registry | walk the rules in order: mention, tokenize, `checkForCommand`, permission, thread, argument count, callback, routing and post |
| Knowledge rule | `pkg/knowledge/knowledge.go` 150-243 | `knowledgeAssets`, `channelIDMap` (cache) | `defaultKnowledgeHandler`: per asset, thread filter, channel lookup, context injection, `RequireInChannel`, `isTokenMatch` |
| Evaluator | `knowledge.go` 99-148, 306-330 | none (`depth` is only for logging) | `isTokenMatch`, `containsAny`, `containsAll` |
| Loader | `knowledge.go` 245-345 | `knowledgeAssets` | walk, read, unmarshal, path context, compile, register |
| Round tripper | `pkg/github/roundtripper.go` 28-243 | `installations` (installationLock), `tokens` (tokenLock), `appSlug` (appSlugLock) | `RoundTrip`: JWT auth (`addAppAuth`) or installation auth (`installationIDFor`, `getTokenForInstallation`), then `getSlug` and the upstream call |
| Jira dialog | `create.go` 185-316, `slack-bot.go` 88-107, 154-158 | the modals Slack shows | `createJiraDialog` opens a modal; `processInteractiveEvent` passes a submission to `HandleViewSubmission` and `generateJira` |

These parts interact in four ways:
- The loader runs in package `init`. If it succeeds, it registers the knowledge rule, which then comes before every static command.
- Slack delivers a post that mentions the bot twice: as a `message` event and as an `app_mention` event. Each reply the bot posts comes back as a bot message.
- The loop acks an envelope only when it takes it. While a callback waits on Jira or the language model, the envelopes behind it miss Slack's three-second deadline. Slack then redelivers a late event, shows an error in a modal whose submission is late (the modal stays open), and a slash command's `trigger_id` expires.
- The round tripper stands apart: nothing in `src/` constructs it. Any number of goroutines may call `RoundTrip` at once, and GitHub changes under it: tokens expire and the app can be reinstalled in an organisation under a new installation id.
- A panic in `Handler` or a callback ends the process, because the event goroutine has no `recover`. The process restarts from scratch. The event being handled was already acked, so it is lost; Slack redelivers the events that were not acked.

## Modules

**`MatchTree`** is pure operators.
- `IsTokenMatch` and `MatchTerms` are mutually recursive. Together they translate `isTokenMatch`:
  - an expression decides alone;
  - the node's own tokens gate its terms;
  - the counter-and-break loop handles OR terms.
- `RunExpr` models `expr.Run` followed by `result.(bool)`. A run error is `FALSE`; a non-bool value is the model value `Panic`. An expression is abstracted to an or of ands of `containsAny` and `containsAll` calls, kept in the order written, because the loader edits its text.
- `SpecSatisfied` is the spec's declarative evaluator (§4.3), used as the reference.
- `util.NormalizeTokens`, `TokensPresentOR` and `TokensPresentAND` live in a package that is not in the repository, so they are modelled from the spec.

**`Knowledge`** (extends MatchTree) models the knowledge callback.
- `getChannelName` works over the cache `channelIDMap` and Slack's current `channelName`. It first calls `getCachedClient`. That function's `slackClient` is never set, so `util.GetClient` runs on every call. Its failure, the choice `clientOk`, is an error even when the name is cached. A failed `GetConversationInfo` call is the choice `lookupOk`.
- `KnowledgeLoop` is the loop of `defaultKnowledgeHandler`. It keeps the order of the loop's checks and returns, and it appends to `args` cumulatively, as the code does. It returns the outcome: reply, empty, error or panic.

**`Dispatcher`** (extends Knowledge) is the bot process and Slack.
- `boot` models start-up:
  - `"init"`: `KnowledgeInit` appends the knowledge rule when `KnowledgeLoaded`;
  - `"main"`: `Initialize` appends the static rules and sets the allow-list;
  - `"running"`.
- Slack is the `queue` of events. Its actions:
  - `Post` enqueues `message`, plus `app_mention` when the text has the mention, in either order. The two events of one post are appended together, so they are adjacent in the queue; another post's events can come between them only through redelivery;
  - `Rename` renames a channel.
- `Receive` is the loop taking an event into `Handler`. It drops bot events and snapshots the registry.
- Each `Handler` action is one iteration of the loop over rules, at index `idx`:
  - `SkipRule`: the `continue`s for mention, command and thread;
  - `DenyUser`: the early error return;
  - `UsageReply`: the too-few and too-many replies;
  - `StaticCallback` and `KnowledgeCallback`, each followed by `AfterCallback`: a reply is routed and posted (`Respond`) and Handler returns; otherwise the loop goes on;
  - `Finish`: the loop ends.
- A successful post enqueues the bot's echo.
- `Redeliver` is Slack resending a queued event, with its `attempt` raised, while Handler is in a callback (`InCallback`). `calls` and `replies` record the attempt.
- `CrashRestart` models a panic and `FatalCallback` models `log.Fatal` in `handlePrompt`. The panics are:
  - `checkForCommand` past the end of `args`;
  - a static callback reading an absent argument;
  - evaluation.

  Both actions empty the in-memory state and keep the queue.
- Histories `calls`, `replies` and `crashes` record what each step did, for the properties.
- Text is a sequence of pieces: words, the mention, a quoted phrase, a blank. `tokenize` expands each piece by the quoting policy: a phrase stays one token with glob, and splits in two quoted halves without it.

**`EventLoop`** is the abstract specification of the event loop, in three variables:
- `inbox`: the events delivered and not yet handled;
- `answered`: the deliveries that got a reply;
- `ready`: start-up is over.

Its actions:
- `Deliver`: Slack delivers events from people, or redelivers waiting ones;
- `Start`;
- `Ignore`;
- `Answer`: one reply per delivery, never to a bot, possibly echoed back;
- `Lose`: a crash drops the head.

`Dispatcher` defines `EL == INSTANCE EventLoop WITH ...`:
- `inbox` is the event Handler holds followed by `queue`;
- `answered` is the `<<post, type, attempt>>` of every reply;
- `ready` is `boot = "running"`.

`EventLoopRefined == EL!Spec` is checked as a property, fairness included.

**`JiraDialog`** models `/jira-create`.
- `Slash`, `Submit`, `Cancel` and `Timeout` are the user and Slack.
  - `Timeout` marks a queued envelope late. For a submission it reopens the modal.
- `TakeEnvelope` is the loop's take-and-ack.
- `createJiraDialog` opens a modal when the trigger is fresh and `OpenViewContext` succeeds. It stands for the whole function, the five input blocks of `createTextInputField` included.
- `processInteractiveEvent` closes the modal when the ack is in time. It then calls `HandleViewSubmission` if `CanHandleViewSubmission` accepts the callback id.
- `generateJira` creates an issue unless `JIRA_TEST_MODE_ENABLED` is set or `CreateIssue` fails.
- `commands.SlashHandler` and `commands.ViewSubmissionHandler` are called from `main` but are not in the repository. They are assumed to call these functions.

**`RoundTripper`** models `appsRoundTripper` with a set `G` of goroutines.
- `pc[g]` is the next call of goroutine `g`; `req[g]` is its request: the kind of path, the org, the installation id found so far, and the error it ended with.
- `instLock` and `tokLock` are the two `sync.RWMutex`es, as a writer and a set of readers. `CanRLock` is Go's writer preference: `RLock` blocks while a writer holds the lock or waits for the readers to leave. With two goroutines the waiting-writer case never blocks anyone: it would need a third goroutine arriving while one reads and one waits to write.
- `RoundTrip` picks the auth from the path (`"/app"`, another JWT path, or an org path). An org path with an empty org fails at once. `addAppAuth` may fail to sign; the `"/app"` path skips `getSlug`.
- `installationIDFor` is four steps: `installationRLock`, `installationRead` (read and `RUnlock`), `installationLock`, and `installationCheck`. The last one re-checks, calls `ListAppInstallations`, applies the `DeepEqual` shortcut, stores the list, looks the org up, and unlocks. `getTokenForInstallation` is the same four steps over `tokens`. The write lock is held from the `Lock` step to the end of the check, so other goroutines block on it across the GitHub call.
- `getSlug` is one step: `appSlugLock` guards only `appSlug`, and no other lock is taken under it.
- Each GitHub client call may fail. `getAppInstallationToken` succeeds only for an installation GitHub still has.
- `Expire` and `Reinstall` are the environment. `Expire` takes a cached token into its last minute. `Reinstall` gives an org a new installation id.
- The org comes from the request context. `extractOrgFromContext` is not in the repository, so the org is an input.

**`AppInstallationAuth`** is the abstract specification of the round tripper. It has no locks: each request's installation lookup and token lookup is one atomic step.
- `LookupInstallation` uses the cache on a hit. On a miss it takes GitHub's list, which replaces the cache.
- `LookupToken` reuses a fresh token, or fetches one for an installation GitHub has.
- `Fail` is allowed only where the code calls GitHub or signs a JWT.
- Every started request ends (weak fairness per goroutine).

`RoundTripper` defines `Auth == INSTANCE AppInstallationAuth WITH ...`:
- `phase` is `Phase(g)`, which groups the four lock steps of each lookup under one phase;
- `org` and `id` come from `req`;
- the caches and GitHub map to themselves.

The `RLock` and `Lock` steps and a cache miss at the read lock are stuttering steps. `AuthRefined == Auth!Spec` is checked as a property.

**`Loader`** (extends MatchTree) models ingestion.
- The prompt tree is a sequence of file records:
  - parses (yes/no);
  - its `On` tree;
  - compiles (yes/no);
  - the platform named by its path.
- `Walk` models `getKnowledgeEntryPaths`, and `LoadFile` is one iteration of `loadKnowledgeEntries`. Read failures are choices.
- `WithPathContext` appends the platform term and prefixes the platform expression. The code builds the text `"%s and %s"` without parentheses, and `and` binds tighter than `or`. So the prefix joins only the expression's first disjunct.
- `Register` models `init()`'s `AddCommand`.
- `platforms.GetPathContextTerms` and `GetPathContextExpr` are not in the repository and are modelled from spec §4.6.

The MC modules (`MCMatchTree`, `MCDispatcher`, `MCLoader`, `MCJiraDialog`, `MCRoundTripper`) give the constants. `MCLoader`'s corpus is every prompt tree of up to three files of eight kinds: an AND root, an OR root with tokens only, an OR root with a term, an expression, an expression with a top-level `or`, a file outside any platform directory, a file that does not unmarshal, and an expression that does not compile. `MCDispatcher` translates each rule from its attributes in the source:
- knowledge: catch-all, no quote globbing, open to all users;
- `jira create`: 2 arguments, `MaxArgs` 4, reads `args[2]`;
- `summary`: catch-all needing a mention, 1 argument, may error or `log.Fatal`;
- `jira unsized`: 3 arguments.

## Runs

| Run | Expect | What it shows |
|---|---|---|
| match_tree | pass | `isTokenMatch` equals the spec evaluator on all 17,640 (tree, message) pairs: trees of depth ≤ 2 over two words with expressions, including a faulty one. |
| dispatch | pass | Two posts by two users in two channels, in thread or not, all four texts, crashes and restarts. Checks: a mention rule's callback runs once per post; the allow-list holds for restricted rules in every start-up and restart order; `TypeOK`. |
| quiescence | pass | `<>[]` idle: once posts stop, every event and every echo is handled, with a rename, crashes, one redelivery and a thread-only rule. Also `EventLoopRefined`: Dispatcher implements EventLoop. |
| loader_compile | violation | A file whose expression does not compile aborts `loadKnowledgeEntries`. `init()` then never registers the knowledge rule, so the valid files are not served. Spec §4.6 and §8 say a malformed file is skipped. |
| loader_platform | violation | A platform file's asset matches a message without the platform's tokens. This happens under an OR root with terms, and for an expression with a top-level `or`, whose unparenthesised prefix covers only the first disjunct. Spec §4.6 says the path's platform is required. |
| callback_error | violation | After the knowledge callback errors (channel lookup failure), `summary` runs for the same message. |
| double_reply | violation | A mention post is answered twice by the knowledge rule. |
| stale_channel | violation | After a rename, the cached name lets a restricted asset answer in the wrong channel. |
| late_ack | violation | A post's `app_mention` waits while the summary callback of an earlier post runs; Slack redelivers it and summary runs twice for that post. |
| dialog_duplicate | violation | A late-acked submission leaves the modal open; a second press files a second Jira issue for the same modal. |
| round_tripper | pass | Two goroutines, one org, up to four requests, a token expiry and a reinstall (130k states). Concurrent misses fetch one token per expiry; "not installed" is reported only for an org GitHub's list lacks; every `RoundTrip` returns (no goroutine waits forever on a lock); `AuthRefined`: the locked code implements the atomic-lookup specification `AppInstallationAuth`. `AuthRefined` also catches a lost re-check under the write lock. The second goroutine's redundant GitHub call can fail, for example after a reinstall, while the cache already holds what it needs. The abstract specification does not allow that failure. |
| stale_installation | violation | After a reinstall, a request that starts later hits the installation cache and is sent with the old installation's token. Once that token expires, every request of the org fails until restart. |

`loader_platform` reports the OR-root file, which has the shortest trace. With that file taken out of the corpus, the top-level-`or` expression alone still violates `PlatformContextRequired`. With both taken out, the property holds over the other six kinds.

Six more divergences are facts that a single call shows, so no run is spent on them; they are listed as hazards:
- `createJira` reads `args[2]` while Handler admits exactly two arguments.
- `MaxArgs` is never read.
- A non-bool expression panics `result.(bool)`.
- `@bot` alone panics `checkForCommand` (`args[index]` past the end).
- Channel-context tokens are appended to the shared `args`, so they reach every later asset of the loop.
- The knowledge catch-all, registered in package `init`, answers `jira unsized ...` before the command is tried.

Each violation is a disagreement between the code and the spec (or a plain crash). `PROJECT.json` "findings" lists them with their source lines. Each property of a passing run has a mutant that breaks it under that run's configuration:
- the OR loop without its `break`;
- the mention test without the event type;
- the allow-list test inverted;
- the cache storing a failed lookup;
- `Receive` without the bot check;
- `Respond` without the `return`, for the refinement;
- `getTokenForInstallation` without its second check;
- `installationIDFor` without its second check;
- `installationIDFor` keeping its read lock on a cache hit;
- `getTokenForInstallation` reusing a token in its last minute (the one-minute margin dropped), for the refinement.

## Bounds

- `dispatch`:
  - `MaxPosts = 2`, so that two events of one post and two posts interleave;
  - two users, so that the allow-list separates them;
  - two channels with two names;
  - four texts, chosen so that every rule and every branch is reached: a mention with `aws`, `jira create "fix it"`, a bare mention, and `install`.
- `MaxRetries = 0` in `dispatch`, 1 in `quiescence` and `late_ack`. One redelivery already makes an event reach Handler twice; `late_ack` needs two posts because the late event must wait behind another post's callback.
- `dialog_duplicate`: one user, one channel, two slash commands, two timeouts. That is enough for a late slash command, a late submission, a resubmission and a second modal next to the first.
- `MaxRenames = 0` in `dispatch`; one rename is explored in `quiescence` (one post) and `stale_channel` (two posts), the runs whose questions involve the cache.
- `round_tripper`: two goroutines (three goroutines with the refinement and liveness checks did not finish in 30 minutes), so that two can miss a cache together and one can block on the other's write lock. There is one org; a second org adds no new path through the code. There are two installation ids, so that one reinstall gets a new id. `MaxRequests = 4` lets both goroutines race on the empty caches and race again after an expiry or a reinstall. `MaxExpiries = 1` per id gives one refetch. `stale_installation` needs only two requests.
- The evaluator run enumerates every tree shape of depth two, which covers:
  - AND/OR;
  - empty, one and two tokens;
  - zero, one and two terms;
  - expressions, including a faulty one.

  Deeper trees repeat the same recursive step.

## Fairness

Each `Handler` step, `Receive`, start-up and restart is weakly fair. One goroutine drains `client.Events` and runs `Handler` to completion, and start-up code always runs. People posting and Slack renaming channels are not fair: the bot need not be asked anything. Deadlock is not checked: once the bounded posts are handled, the loop blocks on `client.Events`. `EventLoop` assumes only that start-up ends and that a waiting event is eventually taken, which the Dispatcher's fairness gives. In `RoundTripper` each goroutine's steps are weakly fair: the Go scheduler runs runnable goroutines, and a goroutine blocked on a mutex becomes runnable when the lock is released. Clients, token expiry and reinstalls are not fair. Deadlock is not checked, because the round tripper is idle once the bounded requests are done. In `JiraDialog` the loop's two branches are weakly fair; people (`Slash`, `Submit`, `Cancel`) and Slack's deadline (`Timeout`) are not. The dialog's only run checks a safety property, so this fairness is stated but not used.

## Not modelled

- Block actions (the `Close` button handled in `processInteractiveEvent`): they come from commands that are not in the repository. The other interactive types are empty cases.
- What `SlashHandler` shows when `createJiraDialog` fails; that function is not in the repository.
- Round tripper: the header values (JWT claims, budget ids, RFC 3339 expiry) and `hostPrefixMapping`. They shape the request but not the control flow, except the path test, which is an input. The clock is not modelled: a token is fresh or in its last minute, so whether the one-minute margin outlasts a request is not checked. The GitHub client may itself call through the round tripper; that client is not in the repository.
- The vendored AWS SDK.
- The logging formatter.
- The LLM and Jira calls, abstracted to outcomes.
- Rules registered in `Initialize` whose definitions are not in the repository (create-with-summary, help, prow, ...). The quiescence run uses a thread-only stand-in for create-with-summary, registered first as in `Initialize`. No rule in the repository routes to a DM or broadcasts to a channel, so those branches of `Respond` are modelled but not reached.
- The nil `channel.Latest` in `getDMChannelID`, because no rule in the repository responds in DM.
- The global `depth` counter: only the single event goroutine calls `isTokenMatch`, and the counter is used only for log indentation.

## Plan for later work

- Compose `Loader` with `Dispatcher`, so that `KnowledgeLoaded` comes from ingestion rather than being a constant.
- State an abstract first-match dispatcher (spec §4.5) and check `Dispatcher` against it through a refinement mapping. Only the events without the known divergences would satisfy it.
- Run `JiraDialog` and `Dispatcher` on one loop, so that a summary callback is the slow call that makes a submission late.
