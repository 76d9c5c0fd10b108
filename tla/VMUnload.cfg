CONSTANTS
  base = base
  lib = lib
  app = app
  tool = tool
  Threads = {t1, t2}
  Labels = {o1}
  NoLabel = NoLabel
  Names = {base, lib, tool}
  BaseName = base
  NoName = NoName
  NrClasses <- MCNrClasses
  Import <- MCImport
  NoRef <- MCNoRef
  HeapSize = 7
  FrameSize = 2
  InfusionSize = 1
  ObjectSize = 1
  FirstClass = 1
  MaxStack = 1
  MaxDepth = 2
SPECIFICATION Spec
INVARIANTS
  RefsLive
  RangesTile
  ClassKept
  CodeLoaded
  CollectorGoesOn
SYMMETRY UnloadSymmetry
CHECK_DEADLOCK FALSE
