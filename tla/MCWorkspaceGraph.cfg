CONSTANTS
  NoNode = NoNode
  NoPkg = NoPkg
SPECIFICATION Spec
INVARIANT StoresAgree
PROPERTIES
  NoMergeDemotes
  ImplementsView
