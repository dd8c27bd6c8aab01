SPECIFICATION Spec
CONSTANTS
  w1 = w1
  w2 = w2
  w3 = w3
  b1 = b1
  b2 = b2
  AX = AX
  AL = AL
  AH = AH
  BX = BX
  FLAGS = FLAGS
  al = al
  ah = ah
  bx = bx
  fl = fl
  VirtReg = {w1, w2, w3, b1, b2}
  PhysReg = {AX, AL, AH, BX, FLAGS}
  Unit = {al, ah, bx, fl}
  Allocatable = {AX, AL, AH, BX}
  UnitsOf <- SmallUnitsOf
  AliasSet <- SmallAliasSet
  Order <- SmallOrder
  Functions <- SmallFunctions
  MaxVisits = 4
  Junk = Junk
  Disabled = Disabled
  Free = Free
  Reserved = Reserved
  NoReg = NoReg
INVARIANTS
  RegInv
  AssertionsHold
  AllocatedCode
PROPERTIES
  CodeSpec
CHECK_DEADLOCK FALSE
