\* Trees of up to three entries, and some of four, on both kinds of host.
CONSTANTS
  Trees <- MCTrees
  FoldOf <- MCFoldOf
  PortableNames <- MCPortable
  SizeOf <- MCSizeOf
  TargetOf <- MCTargetOf
  MaxFiles = 3
  MaxBytes = 6
  MaxMember = 3
  MaxCommands = 2
  NoTarget = NoTarget
  Cut = Cut
  Scribble = Scribble
SPECIFICATION Spec
\* A snapshot is used once.
CHECK_DEADLOCK FALSE
INVARIANTS
  TypeOK
  SnapshotIsTree
  RefusedIffUnclean
  ContainerCanRead
