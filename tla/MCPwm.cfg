SPECIFICATION Spec
CONSTANTS
  Pwms = {pwm0, pwm1}
  Pins = {a, b}
  NoPin = NoPin
  NumChannels = 2
  Periods <- SomePeriods
  Values <- SomeValues
INVARIANTS ChannelGivenWasFree
