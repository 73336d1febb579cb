SPECIFICATION RegistrySpec
CONSTANTS
  Entry = {e1, e2}
  RepoId = {a}
  Url = {good, bad}
  GithubUrl = {good}
  main = main
  dev = dev
  devs = devs
  Branch = {main, dev}
  Pattern = {devs}
  Under <- MCUnder
  Allowed <- MCAllowed
  Policy = {i1}
  Handler = {o1, o2}
  NoEntry = NoEntry
SYMMETRY Symmetric
INVARIANTS
  OneActiveMapping
  EntriesAreWellShaped
  StatusIsAsAsked
PROPERTIES
  LiveIsNeverDeleted
