CONSTANTS
  Choices <- MCChoices
SPECIFICATION Spec
INVARIANTS
  AnnouncedIsStarted
  ReplacedComesBack
  UnpluggedIsStopped
PROPERTY
  ConfiguringEnds
