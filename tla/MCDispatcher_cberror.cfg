CONSTANTS
  u1 = u1
  u2 = u2
  c1 = c1
  c2 = c2
  NoExpr = NoExpr
  Panic = Panic
  NoContext = NoContext
  NoEvent = NoEvent
  DMChannel = DMChannel
  Norm <- MCNorm
  Assets <- MCAssets
  Users <- MCUsers
  Channels <- MCChannels
  Names <- MCNames
  InitialName <- MCInitialName
  MaxRenames = 0
  Texts <- AwsTexts
  MaxPosts = 1
  MaxRetries = 0
  KnowledgeLoaded = TRUE
  KnowledgeRule <- MCKnowledgeRule
  StaticRules <- MCStaticRules
  AllowedEnv <- MCAllowedEnv
  BotReplyText <- MCBotReplyText
SPECIFICATION Spec
INVARIANT CallbackErrorEndsDispatch
CHECK_DEADLOCK FALSE
