\* Fast typing, and all modifiers with the keys that imitate them.
CONSTANTS
  Typists <- AllTypists
SPECIFICATION Spec
INVARIANTS
  LocksFollowKeys
  ModifiersHaveCause
PROPERTIES
  DecodesWhatWasTyped
