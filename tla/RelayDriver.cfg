\* The interlock against every sequence of calls, contact delays and resets.
SPECIFICATION RelaySpec
INVARIANTS
  BridgeIsView
PROPERTIES
  ContactsInterlocked
