SPECIFICATION Spec
CONSTANTS
  Word = 16
  Header = 2
  Hosts <- SmallHosts
  Sources <- OrdinarySources
INVARIANT
  NullOrValid
