SPECIFICATION FairSpec
CONSTANTS
  user = user
  lease = lease
  bg1 = bg1
  bg2 = bg2
  subscription = subscription
  bypass = bypass
  ks = ks
  NoKey = NoKey
  None = None
  Ops = {user, bg1, bg2}
  Lease = {}
  Background = {bg1, bg2}
  Cancellable = {bg1}
  Request = {user}
  Kinds <- MCKinds
  KindOf <- MCKindOf
  Keys = {ks}
  KeyOf <- MCKeyOf
INVARIANTS TypeOK OneAnswer DedupeExact NoLostWakeup
PROPERTIES ImplementsSlot BackgroundCallReturns
