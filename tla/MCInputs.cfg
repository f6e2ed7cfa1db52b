CONSTANTS
  CommandLines <- Lines
  None = None
  ArgFiles <- MCArgFiles
  Forced <- MCForced
  Unsupported = "warn"
  FileSystem <- MCFileSystem
  Claimed <- MCClaimed
  Symbols <- MCSymbols
  LtoOutput <- MCLtoOutput
  LibCalls = {"call"}
  PluginLibrary <- MCPluginLibrary
SPECIFICATION Spec
INVARIANTS
  OptionsFollowTheLine
  FilesFollowTheLine
  ReferencesReachTheSelected
  IronlyIsUnreferenced
