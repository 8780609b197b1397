SPECIFICATION FairSpec
CONSTANTS
  KeepaliveInterval = 11
  KeyValidity = 12
INVARIANTS
  ValidWhileStreaming
  ReconnectsSoon
PROPERTY
  Reconnects
