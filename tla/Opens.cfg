SPECIFICATION OpensSpec
CONSTANTS
  Opens = {o1, o2}
  Inodes = {f1, f2}
  NoInode = NoInode
  OpenSlots = 1
  Callers = 2
  MaxPaths = 2
  CommandLines <- MCCommandLines
INVARIANTS
  IInv
  ExitTellsOutcome
PROPERTIES
  AuthorityKeepsContract
  CommandKeepsContract
  EndReleases
  SlotsComeBack
