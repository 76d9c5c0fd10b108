CONSTANTS
  base = base
  lib = lib
  app = app
  tool = tool
  Threads = {t1, t2}
  Labels = {o1, o2}
  NoLabel = NoLabel
  Names = {base, lib, app}
  BaseName = base
  NoName = NoName
  NrClasses <- MCNrClasses
  Import <- MCImport
  NoRef <- MCNoRef
  HeapSize = 7
  FrameSize = 2
  InfusionSize = 1
  ObjectSize = 2
  FirstClass = 1
  MaxStack = 2
  MaxDepth = 2
SPECIFICATION Spec
INVARIANTS
  TypeOK
  HeapTiled
  RefsLive
  TriColor
  GarbageFreed
  CodeLoaded
PROPERTIES
  ViewKept
  CollectionAdvances
SYMMETRY HeapSymmetry
CHECK_DEADLOCK FALSE
