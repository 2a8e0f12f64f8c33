CONSTANTS
  NoRequest = NoRequest
  NoReply = NoReply
  Prefix <- MCPrefix
  Root <- MCRoot
  Cwd <- MCCwd
  FixedDirs <- MCFixedDirs
  Nodes <- MCNodes
  Targets <- MCTargets
SPECIFICATION Spec
INVARIANT ServesMappedFile
