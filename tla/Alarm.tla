------------------------------- MODULE Alarm -------------------------------
(***************************************************************************)
(* The ITIMER_REAL timer of a process: alarmState, setAlarm and stop in    *)
(* internal/kernel/process.go.  Each time.AfterFunc is a timer object of   *)
(* its own.  When one expires the Go runtime starts its function in a new  *)
(* goroutine, and Timer.Stop no longer has an effect on it: that goroutine *)
(* may run before or after whatever the process does next.                 *)
(*                                                                         *)
(* Time is counted in ticks, and only as time left, so that it needs no    *)
(* bound.                                                                  *)
(***************************************************************************)
EXTENDS Integers

CONSTANTS MaxTimers,   \* bound: calls of time.AfterFunc
          MaxTicks,    \* bound: the longest alarm
          Intervals    \* intervals passed to setAlarm, 0 for a one-shot timer

ASSUME AlarmAssumption == /\ MaxTimers \in Nat \ {0}
                          /\ MaxTicks \in Nat \ {0}
                          /\ Intervals \subseteq 0..MaxTicks /\ 0 \in Intervals

Timers == 1..MaxTimers
NoTimer == 0

VARIABLES
  timer,      \* alarmState.timer
  left,       \* alarmState.deadline, as ticks left, 0 once it has passed
  interval,   \* alarmState.interval
  state,      \* of each timer: unused, armed, fired, sending, over
  due,        \* ticks left on each timer
  sigalrm,    \* SIGALRM is pending
  ended,      \* finish has called alarm.stop
  disarmed,   \* history: the last setAlarm had value 0
  sent,       \* history: SIGALRM was sent since the last setAlarm
  raced       \* history: setAlarm armed a timer while an expired one had yet to fire

history == <<disarmed, sent, raced>>
alarmVars == <<timer, left, interval, state, due, sigalrm, ended, history>>

AlarmTypeOK == /\ timer \in Timers \cup {NoTimer}
               /\ left \in 0..MaxTicks /\ interval \in Intervals
               /\ state \in [Timers -> {"unused", "armed", "fired", "sending", "over"}]
               /\ due \in [Timers -> 0..MaxTicks]
               /\ sigalrm \in BOOLEAN /\ ended \in BOOLEAN
               /\ disarmed \in BOOLEAN /\ sent \in BOOLEAN /\ raced \in BOOLEAN

AlarmInit == /\ timer = NoTimer
             /\ left = 0 /\ interval = 0
             /\ state = [t \in Timers |-> "unused"]
             /\ due = [t \in Timers |-> 0]
             /\ sigalrm = FALSE
             /\ ended = FALSE
             /\ disarmed = TRUE /\ sent = FALSE /\ raced = FALSE

IsNew(t) == state[t] = "unused" /\ \A u \in Timers : state[u] = "unused" => t <= u

(* Timer.Stop: stops a timer that has not expired. *)
Stopped == IF timer # NoTimer /\ state[timer] = "armed"
           THEN [state EXCEPT ![timer] = "over"] ELSE state

(* time.AfterFunc(v, fire). *)
AfterFunc(t, v, st) == /\ state' = [st EXCEPT ![t] = "armed"]
                       /\ due' = [due EXCEPT ![t] = v]
                       /\ timer' = t
                       /\ left' = v

(* A mutant: setAlarm that stops a.timer after it has replaced it. *)
ArmStopsNew(t, v, i) ==
  /\ ~ended /\ IsNew(t)
  /\ state' = [state EXCEPT ![t] = "over"]
  /\ timer' = t /\ left' = v /\ interval' = i
  /\ disarmed' = FALSE /\ sent' = FALSE
  /\ UNCHANGED <<due, sigalrm, ended, raced>>

(* setAlarm with a value, under a.mu. *)
Arm(t, v, i) == /\ ~ended /\ IsNew(t)
                /\ AfterFunc(t, v, Stopped)
                /\ interval' = i
                /\ disarmed' = FALSE /\ sent' = FALSE
                /\ raced' = (raced \/ \E u \in Timers : state[u] = "fired")
                /\ UNCHANGED <<sigalrm, ended>>

(* setAlarm with value 0, under a.mu. *)
Disarm == /\ ~ended
          /\ state' = Stopped
          /\ timer' = NoTimer
          /\ disarmed' = TRUE /\ sent' = FALSE
          /\ UNCHANGED <<left, interval, due, sigalrm, ended, raced>>

Tick == /\ due' = [t \in Timers |-> IF due[t] > 0 THEN due[t] - 1 ELSE 0]
        /\ left' = IF left > 0 THEN left - 1 ELSE 0
        /\ UNCHANGED <<timer, interval, state, sigalrm, ended, history>>

(* The runtime starts the goroutine of a timer that is due. *)
Expire(t) == /\ state[t] = "armed" /\ due[t] = 0
             /\ state' = [state EXCEPT ![t] = "fired"]
             /\ UNCHANGED <<timer, left, interval, due, sigalrm, ended, history>>

(* A mutant: fire that does not ask whether it was disarmed meanwhile. *)
FireAgainAnyway(t, u) ==
  /\ state[t] = "fired" /\ interval > 0 /\ IsNew(u)
  /\ AfterFunc(u, interval, [state EXCEPT ![t] = "sending"])
  /\ UNCHANGED <<interval, sigalrm, ended, history>>

(* fire, under a.mu: a periodic timer is armed again. *)
FireAgain(t, u) == /\ state[t] = "fired" /\ interval > 0 /\ timer # NoTimer
                   /\ IsNew(u)
                   /\ AfterFunc(u, interval, [state EXCEPT ![t] = "sending"])
                   /\ UNCHANGED <<interval, sigalrm, ended, history>>

FireOnce(t) == /\ state[t] = "fired" /\ (interval = 0 \/ timer = NoTimer)
               /\ state' = [state EXCEPT ![t] = "sending"]
               /\ timer' = NoTimer
               /\ UNCHANGED <<left, interval, due, sigalrm, ended, history>>

(* fire, after the unlock: p.Signal(SIGALRM). *)
Send(t) == /\ state[t] = "sending"
           /\ state' = [state EXCEPT ![t] = "over"]
           /\ sigalrm' = TRUE /\ sent' = TRUE
           /\ UNCHANGED <<timer, left, interval, due, ended, disarmed, raced>>

(* The guest runs its SIGALRM handler. *)
Handle == /\ sigalrm /\ ~ended
          /\ sigalrm' = FALSE
          /\ UNCHANGED <<timer, left, interval, state, due, ended, history>>

(* alarm.stop, from finish. *)
Stop == /\ ~ended
        /\ ended' = TRUE
        /\ state' = Stopped
        /\ timer' = NoTimer
        /\ UNCHANGED <<left, interval, due, sigalrm, history>>

AlarmNext == \/ \E t \in Timers, v \in 1..MaxTicks, i \in Intervals : Arm(t, v, i)
             \/ Disarm \/ Tick \/ Handle \/ Stop
             \/ \E t \in Timers : \/ Expire(t) \/ FireOnce(t) \/ Send(t)
                                  \/ \E u \in Timers : FireAgain(t, u)

AlarmSpec == AlarmInit /\ [][AlarmNext]_alarmVars

(* An alarm is not lost: until the process disarms it or ends, an alarm     *)
(* that has not sent SIGALRM has a timer that is running or firing,         *)
(* whatever expired timers do meanwhile.                                    *)
AlarmNotLost ==
  (~disarmed /\ ~ended /\ ~sent) =>
    \E t \in Timers : state[t] \in {"armed", "fired", "sending"}

(* setAlarm "with value 0 disarms ... the timer" (process.go): after it, no *)
(* timer is left that will expire later.                                    *)
DisarmStopsTimer == disarmed => \A t \in Timers : state[t] # "armed"

(* That holds, and there is one timer at most, as long as no alarm is set   *)
(* in the moment between an expiry and its fire: then a.timer is the timer  *)
(* that runs.  A disarm in that moment does no harm: fire looks at a.timer  *)
(* before it arms the next period.  The deadline that setAlarm reports from *)
(* is that timer's.                                                         *)
OneTimerUnlessRaced ==
  ~raced => /\ DisarmStopsTimer
            /\ \A t \in Timers : state[t] = "armed" => t = timer /\ due[t] = left
=============================================================================
