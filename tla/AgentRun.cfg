SPECIFICATION Spec
CONSTANTS
  Names <- MCNames
  Key <- MCKey
  Malformed = {"a b"}
  Builtins <- MCBuiltins
  Batches <- MCBatches
  Asked <- MCAsked
  MaxRetries = 0
  MinBackoff = 2
  MaxBackoff = 3
  Width = 6
  RetryAfters <- MCRetryAfters
  NoHeader = NoHeader
  Replies <- MCReplies
  Tools <- MCTools
  Does <- MCDoes
  Servers = {"serena", "context7", "nowhere"}
  DefaultServers <- MCDefaultServers
  Ids <- MCIds
  Part <- MCPart
  Versions <- MCVersions
  Stored <- MCStored
  Requests <- MCRequests
  RuntimeTools = {"todo"}
  MaxSelectors = 2
  MaxEdits = 1
  None = None
  MaxIterations = 2
  MaxParallel = 2
  Capacity = 2
  MaxEvents = 3
INVARIANTS
  TypeOK
  RegistryIsSound
  RetriesFollowPolicy
  OutputsAnswerCalls
  StreamIsFaithful
PROPERTIES
  AssemblyIsFaithful
  CallEnds
CHECK_DEADLOCK FALSE
