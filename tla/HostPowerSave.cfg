\* Two senders and a host that sleeps and wakes, in both builds.
CONSTANTS
  Senders = {a, b}
  Builds = {TRUE, FALSE}
  TimerMayFail = TRUE
  MaxNotes = 2
SPECIFICATION Spec
INVARIANT TypeOK
INVARIANT SleepAgreed
 
INVARIANT GpioReleased
PROPERTY SenderReturns
CHECK_DEADLOCK FALSE
