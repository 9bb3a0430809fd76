\* Three events typed, a ring that overflows with the third.
CONSTANTS
  KEY_QUEUE_LEN = 3
  KEY_NONE = KEY_NONE
  MaxTyped = 3
  Quit = Quit
  Scancodes <- MCScancodes
  keymap <- MCKeymap
  Keys <- MCKeys
  Truncated <- MCTruncated
SPECIFICATION FairSpec
INVARIANTS TypeOK NothingLost OnlyTyped
PROPERTIES ImplementsFifo PromptKeysStay Delivered
\* The window is closed, the ring overflows or an access fails an assertion.
CHECK_DEADLOCK FALSE
