SPECIFICATION FairSpec
CONSTANTS
  MaxVersion = 4
  Kinds = {"good", "crashes", "hangs"}
INVARIANTS TypeOK AlwaysBootable NeverUndone
PROPERTY EndsUp
