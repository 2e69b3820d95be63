SPECIFICATION Spec
CONSTANTS
  MaxScanWindow = 2
  MaxRounds = 3
  DefaultDepth = 2
  MaxListLen = 2
  MaxNumber = 10
  ReservedKeys <- MCReserved
  MaxMathDepth = 2
  MaxConfigured = 2
  MaxEnabled = 2
  MaxEffective = 2
  MaxPages = 2
  MaxPerServer = 2
  MaxItems = 2
  MaxRedirects = 3
  MaxPreview = 9
  U32 = 8
  DefaultWindow = 9
  Hard <- MCHard
  DefaultBlock <- MCDefaultBlock
  Inputs <- MCInputs
CHECK_DEADLOCK FALSE
INVARIANTS ActivationIsReach OnlyEnabledContent RequestIsWhole UpdatesFollowSchema CardEditsAreSure CallsSurviveXml ImportIsWhole ReplyIsWhatWasSent BodyKeepsConversation SecretsStay RunUsesSettings ToolsAreSound
