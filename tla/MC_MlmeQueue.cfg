SPECIFICATION FairSpec
CONSTANTS
  Tasks <- OneTask
  N = 3
  Senders <- OneSender
  Receivers <- OneReceiver
INVARIANTS RingCoherent
PROPERTIES DeliversInOrder Handled
