SPECIFICATION Spec
CONSTANTS
  Word = 16
  Header = 2
  Hosts <- SmallHosts
  Sources <- SmallSources
INVARIANTS
  TypeOK
  LookupRight
  ValidMeansReadable
  HostRoundTrip
