SPECIFICATION OutboxSpec
CONSTANTS
  NoDelivery = NoDelivery
  Delivery <- MCDelivery
  Hook <- MCHook
  HookOf <- MCHookOf
  Drain <- MCDrain
  MaxAttempts = 2
  MaxCrashes = 1
INVARIANTS EveryTryCounted
PROPERTIES SettledStaysIfAlone EveryDeliverySettled
