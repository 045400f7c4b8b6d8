CONSTANTS
  u1 = u1
  u2 = u2
  c1 = c1
  c2 = c2
  NoExpr = NoExpr
  Panic = Panic
  NoContext = NoContext
  NoEvent = NoEvent
  DMChannel = DMChannel
  Norm <- MCNorm
  Assets <- MCAssets
  Users <- MCUsers
  Channels <- MCChannels
  Names <- MCNames
  InitialName <- MCInitialName
  MaxRenames = 0
  Texts <- MCTexts
  MaxPosts = 2
  MaxRetries = 0
  KnowledgeLoaded = TRUE
  KnowledgeRule <- MCKnowledgeRule
  StaticRules <- MCStaticRules
  AllowedEnv <- MCAllowedEnv
  BotReplyText <- MCBotReplyText
SPECIFICATION Spec
INVARIANT TypeOK
INVARIANT CallbacksOncePerPost
INVARIANT RestrictedCallbacksOnlyForAllowedUsers

\* Once the bounded posts are handled the event loop blocks on client.Events.
CHECK_DEADLOCK FALSE
