CONSTANTS
  Paths <- MCPaths
  Types = {"StaticHandler", "EchoHandler", "CgiHandler"}
  Roots <- MCRoots
  NoRoot = NoRoot
  MaxLocs = 3
  Targets <- MCTargets
  NoHandler = NoHandler

SPECIFICATION Spec
INVARIANT TypeOK
INVARIANT ResolvesToLongestPrefix
