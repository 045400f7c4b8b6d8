CONSTANTS
  u1 = u1
  u2 = u2
  c1 = c1
  c2 = c2
  NoExpr = NoExpr
  Panic = Panic
  NoContext = NoContext
  NoEvent = NoEvent
  DMChannel = DMChannel
  Norm <- MCNorm
  Assets <- MCAssets
  Users <- MCUsers
  Channels <- MCChannels
  Names <- MCNames
  InitialName <- MCInitialName
  MaxRenames = 1
  Texts <- LiveTexts
  MaxPosts = 1
  MaxRetries = 1
  KnowledgeLoaded = TRUE
  KnowledgeRule <- MCKnowledgeRule
  StaticRules <- LiveRules
  AllowedEnv <- MCAllowedEnv
  BotReplyText <- MCBotReplyText
SPECIFICATION Spec
PROPERTY Quiescence EventLoopRefined
\* Once the bounded posts are handled the event loop blocks on client.Events.
CHECK_DEADLOCK FALSE
