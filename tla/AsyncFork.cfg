SPECIFICATION ForkSpec
CONSTANTS
  Asyncs = {h1}
  Senders = {s1}
  NoHandle = NoHandle
PROPERTY ChildSendDelivered
