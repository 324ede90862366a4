CONSTANTS
  Sigs = {1, 2}
  DefaultIgnored = {2}
  SaMask <- MCSaMask
  Senders = {q1, q2}
SPECIFICATION Spec
INVARIANTS NoLostSignal NoSignalDropped NoWriteAfterFree MaskRestored EintrMeansHandled
PROPERTIES SignalEndsCall
