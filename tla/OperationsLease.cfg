SPECIFICATION Spec
CONSTANTS
  user = user
  lease = lease
  bg1 = bg1
  bg2 = bg2
  subscription = subscription
  bypass = bypass
  ks = ks
  NoKey = NoKey
  None = None
  Ops = {user, lease, bg1}
  Lease = {lease}
  Background = {bg1}
  Cancellable = {lease}
  Request = {user, lease}
  Kinds <- MCKinds
  KindOf <- MCKindOf
  Keys = {ks}
  KeyOf <- MCKeyOf
INVARIANTS LiveLeaseOwnsSlot IInv
PROPERTIES SlotUntilFinish CancelHasCause
