SPECIFICATION FairSpec
CONSTANTS
  VERSION = 1
  Images = {1}
  ADDITIONS = 2
  UPDATES = 2
  COMMANDS = 1
INVARIANTS TypeOK AlwaysReadable SuccessInEffect OldSecretGone
PROPERTIES NeverDecreases RequestAnswered
