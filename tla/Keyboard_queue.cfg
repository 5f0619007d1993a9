CONSTANTS
  KBD_BUFFER_SIZE = 4
  Letters = {"a"}
  Specials = {"enter"}
  Modifiers = {"lshift", "rshift", "ctrl"}
SPECIFICATION FairSpec
INVARIANT TypeOK
PROPERTIES ImplementsKeyQueue KeyEchoed
