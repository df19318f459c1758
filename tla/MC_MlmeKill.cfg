SPECIFICATION FairSpec
CONSTANTS
  Tasks <- OneTask
  N = 3
  Senders <- NoSender
  Receivers <- OneReceiver
PROPERTIES KillReturns
