CONSTANTS Screen = {s1, s2, s3}
          Lines = 7
          Windows = {2}
          Counts = {1}
          NoScreen = NoScreen
          SizeMod = 100
          RegularOnly = TRUE
SPECIFICATION Spec
CHECK_DEADLOCK FALSE
SYMMETRY Alike
INVARIANTS Layout EachInOneQueue
