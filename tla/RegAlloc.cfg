SPECIFICATION Spec
CONSTANTS NumRegs = 6
          NumArgRegs = 2
          MaxLive = 5
          IMM = IMM
          ZERO = ZERO
          ONE = ONE
          NOTHING = NOTHING
          ALLOCA = ALLOCA
          ARGS = ARGS
          JUNK = JUNK
          FRAGMENT = FRAGMENT
          MaxArgs = 3
          Horizon = 6
CHECK_DEADLOCK FALSE
INVARIANTS OperandsFound AssertionsHold FrameBalanced
