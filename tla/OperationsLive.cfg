SPECIFICATION FairSpec
CONSTANTS
  user = user
  lease = lease
  bg1 = bg1
  bg2 = bg2
  subscription = subscription
  bypass = bypass
  ks = ks
  NoKey = NoKey
  None = None
  Ops = {user, lease}
  Lease = {lease}
  Background = {}
  Cancellable = {lease}
  Request = {lease}
  Kinds <- MCKinds
  KindOf <- MCKindOf
  Keys = {ks}
  KeyOf <- MCKeyOf
PROPERTY UserCallReturns
