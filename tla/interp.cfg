SPECIFICATION Spec
CONSTANTS
  BITS = 1
  OPSTACK_SIZE = 8
  PORTS = 1
  Data <- SmallConstant
  DeclaredU16 <- DeclaredSmall
  Literals <- Numbers
  F32Literals <- TwoFloats
  ComparedTypes <- Signed
  Formats <- Mixed
CONSTRAINT FewOperands
INVARIANT TypeOK
PROPERTY OperandsKeepTheirTypes
