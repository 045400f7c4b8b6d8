---------------------------- MODULE MCDispatcher ----------------------------
(***************************************************************************)
(* Instantiates Dispatcher with the rules of the repository: the knowledge *)
(* rule (registered by knowledge.init when the prompts load), then the     *)
(* static rules Initialize adds that are in the source: jira create,       *)
(* summary and jira unsized, in Initialize's order.                        *)
(***************************************************************************)
EXTENDS Dispatcher, TLC

CONSTANTS u1, u2, c1, c2

Leaf(ty, toks) == [type |-> ty, tokens |-> toks, terms |-> << >>, expr |-> NoExpr]

MCUsers == {u1, u2}
MCChannels == {c1, c2}
MCNames == {"platform-aws", "general"}
MCInitialName == [c \in MCChannels |-> IF c = c1 THEN "platform-aws" ELSE "general"]

\* An asset answering any message with "aws", also in threads, and an asset
\* under aws/ that needs "install" plus the aws context term, restricted to
\* two channels, whose channel context injects "aws" in platform-aws.
MCAssets ==
  << [on |-> Leaf("and", {"aws"}), watchThreads |-> TRUE,
      context |-> NoContext, requireIn |-> {}],
     [on |-> [type |-> "and", tokens |-> {"install"},
              terms |-> << Leaf("or", {"aws"}) >>, expr |-> NoExpr],
      watchThreads |-> FALSE,
      context |-> [channels |-> {"platform-aws"}, tokens |-> << "aws" >>],
      requireIn |-> {"platform-aws", "general"}] >>

Rule0 == [name |-> "", commands |-> << >>, requireMention |-> FALSE,
          glob |-> TRUE, allowNonSplat |-> FALSE, mustBeInThread |-> FALSE,
          requiredArgs |-> 0, maxArgs |-> 0, respondInDM |-> FALSE,
          respondInChannel |-> FALSE, callback |-> "static",
          outcomes |-> {"reply"}, reads |-> {}]

\* KnowledgeCommandAttributes
MCKnowledgeRule ==
  [Rule0 EXCEPT !.name = "knowledge", !.glob = FALSE, !.allowNonSplat = TRUE,
                !.callback = "knowledge", !.outcomes = {}]

\* CreateAttributes: createJira reads args[2] (0-based) unguarded and always
\* returns a response (errors are wrapped into the response).
CreateRule ==
  [Rule0 EXCEPT !.name = "create", !.commands = << "jira", "create" >>,
                !.requireMention = TRUE, !.requiredArgs = 2, !.maxArgs = 4,
                !.reads = {2}]

\* SummarizeAttributes: no command tokens; handlePrompt returns an error
\* (nil response) or exits through log.Fatal.
SummarizeRule ==
  [Rule0 EXCEPT !.name = "summary", !.requireMention = TRUE,
                !.requiredArgs = 1, !.outcomes = {"reply", "error", "exit"}]

\* UnsizedAttributes
UnsizedRule ==
  [Rule0 EXCEPT !.name = "unsized", !.commands = << "jira", "unsized" >>,
                !.requireMention = TRUE, !.requiredArgs = 3]

MCStaticRules == << CreateRule, SummarizeRule, UnsizedRule >>

\* CreateSummaryAttributes, which Initialize registers first, is not in the
\* repository: its command words follow the name and it stands for a rule
\* that must be used in a thread.
ThreadRule ==
  [Rule0 EXCEPT !.name = "create-summary",
                !.commands = << "jira", "create-with-summary" >>,
                !.requireMention = TRUE, !.mustBeInThread = TRUE]
LiveRules == << ThreadRule >> \o MCStaticRules

MCTexts ==
  { << MENTION, "aws" >>,
    << MENTION, "jira", "create", QUOTED >>,
    << MENTION >>,
    << "install" >> }
LiveTexts == MCTexts \cup { << MENTION, "jira", "create-with-summary" >> }

\* The texts of the runs that expect a violation, one question each.
AwsTexts      == { << MENTION, "aws" >> }
PlainAwsTexts == { << "aws" >> }

\* One asset on "aws" that may only answer in platform-aws.
RestrictedAssets ==
  << [on |-> Leaf("and", {"aws"}), watchThreads |-> TRUE,
      context |-> NoContext, requireIn |-> {"platform-aws"}] >>

MCAllowedEnv == << u1 >>

MCBotReplyText == << "This", "aws" >>

AllTokens == {"<@bot>", "jira", "create", "unsized", "fix it", "\"fix", "it\"",
              "", "aws", "install", "This", "create-with-summary"}
MCNorm == [t \in AllTokens |-> IF t = "This" THEN "this" ELSE t]
=============================================================================
