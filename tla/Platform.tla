------------------------------- MODULE Platform -------------------------------
(***************************************************************************)
(* The application platform's main loop against the clock: runtime.c with  *)
(* health_supervisor.c, boot_confirmation.c, boot_info.c, the independent  *)
(* watchdog of watchdog.c and the millisecond counter of systick.c.        *)
(*                                                                         *)
(* The loop reads the clock once, at its top, and every step after it works *)
(* with that value; time passes between any two steps.  What the           *)
(* application's callbacks do is open: app_process may take any time or     *)
(* never return, and app_is_healthy changes its mind as often as it likes.  *)
(***************************************************************************)
EXTENDS Naturals

CONSTANTS
  Modulus,            \* 2^32 in the code: milliseconds is a uint32_t
  WatchdogTimeout,    \* WATCHDOG_TIMEOUT_MS
  Stabilization,      \* BOOT_CONFIRM_STABILIZATION_MS
  CommitErrors        \* may platform_confirm_pending_boot fail to save

\* Time left without a feeding is bounded by the watchdog, so that no interval
\* the loop measures comes near a whole turn of the counter.
ASSUME PlatformAssumption ==
  /\ {Modulus, WatchdogTimeout, Stabilization} \subseteq Nat \ {0}
  /\ WatchdogTimeout > 1
  /\ 2 * WatchdogTimeout + Stabilization < Modulus
  /\ CommitErrors \in BOOLEAN

VARIABLES
  pc,                 \* the statement of main that is next
  milliseconds,       \* the SysTick counter
  unfed,              \* the watchdog's counter: time since its last refresh
  now_ms,             \* main's copy of the counter
  healthy,            \* what app_is_healthy answers
  supervisor,         \* health_supervisor_t
  confirmation,       \* boot_confirmation_t
  lap,                \* history: time since now_ms was read, and before that,
                      \* the length of the loop's last iteration
  sick,               \* history: reported unhealthy since the last refresh
  stable              \* history: time since the loop first saw the application
                      \* healthy, by its own reading of the clock

vars == <<pc, milliseconds, unfed, now_ms, healthy, supervisor, confirmation, lap, sick, stable>>

\* Left at zero, as if health_supervisor_init had not been told.
FaultyMaxProgressAge == 0

\* What main gives health_supervisor_init.
MaxProgressAge == WatchdogTimeout \div 2

Plus(cap, t) == IF t < cap THEN t + 1 ELSE t

\* (uint32_t)(now - since).
Elapsed(now, since) == (now + Modulus - since) % Modulus

NewSupervisor ==
  [last_progress |-> 0, application_healthy |-> FALSE, progress_seen |-> FALSE]

NewConfirmation == [active |-> FALSE, since |-> 0, completed |-> FALSE]

-----------------------------------------------------------------------------
\* Everything main does before its loop, up to watchdog_init and the two inits.
Start ==
  /\ pc = "start"
  /\ pc' = "top"
  /\ unfed' = 0
  /\ supervisor' = NewSupervisor /\ confirmation' = NewConfirmation
  /\ healthy' \in BOOLEAN
  /\ UNCHANGED <<milliseconds, now_ms, lap, sick, stable>>

\* An invalid handoff, an app_init that fails or hangs: main waits for the
\* watchdog the bootloader started.
StartFails ==
  /\ pc = "start"
  /\ pc' = "hung"
  /\ UNCHANGED <<milliseconds, unfed, now_ms, healthy, supervisor, confirmation, lap, sick, stable>>

ReadClock ==
  /\ pc = "top"
  /\ now_ms' = milliseconds
  /\ lap' = [current |-> 0, last |-> lap.current]
  /\ pc' = "process"
  /\ UNCHANGED <<milliseconds, unfed, healthy, supervisor, confirmation, sick, stable>>

\* update_agent_poll and app_process.
Process ==
  /\ pc = "process"
  /\ healthy' \in BOOLEAN
  /\ pc' = "report"
  /\ UNCHANGED <<milliseconds, unfed, now_ms, supervisor, confirmation, lap, sick, stable>>

ProcessHangs ==
  /\ pc = "process"
  /\ pc' = "hung"
  /\ UNCHANGED <<milliseconds, unfed, now_ms, healthy, supervisor, confirmation, lap, sick, stable>>

\* main asks the application twice: here, and again for boot_confirmation_poll.
Report ==
  /\ pc = "report"
  /\ supervisor' = [last_progress |-> now_ms, application_healthy |-> healthy,
                    progress_seen |-> TRUE]
  /\ pc' = "confirm"
  /\ sick' = (sick \/ ~healthy)
  /\ healthy' \in BOOLEAN
  /\ UNCHANGED <<milliseconds, unfed, now_ms, confirmation, lap, stable>>

\* The period goes on although the application was seen unhealthy.
FaultyInterrupted == confirmation

Interrupted == [confirmation EXCEPT !.active = FALSE]

\* The period must be hit exactly.
FaultyStablePeriodOver == Elapsed(now_ms, confirmation.since) = Stabilization

StablePeriodOver == Elapsed(now_ms, confirmation.since) >= Stabilization

\* boot_confirmation_poll.
ConfirmationPoll ==
  /\ pc = "confirm"
  /\ \/ /\ confirmation.completed
        /\ UNCHANGED <<confirmation, stable>>
     \/ /\ ~confirmation.completed /\ ~healthy
        /\ confirmation' = Interrupted
        /\ stable' = 0
     \/ /\ ~confirmation.completed /\ healthy /\ ~confirmation.active
        /\ confirmation' = [confirmation EXCEPT !.active = TRUE, !.since = now_ms]
        /\ stable' = IF lap.current < Stabilization THEN lap.current ELSE Stabilization
     \/ /\ ~confirmation.completed /\ healthy /\ confirmation.active
        /\ \E ok \in IF CommitErrors THEN BOOLEAN ELSE {TRUE} :
             confirmation' = [confirmation EXCEPT !.completed = StablePeriodOver /\ ok]
        /\ UNCHANGED stable
  /\ pc' = "feed"
  /\ UNCHANGED <<milliseconds, unfed, now_ms, healthy, supervisor, lap, sick>>

\* Progress alone is enough.
FaultyMayFeed ==
  supervisor.progress_seen /\ Elapsed(now_ms, supervisor.last_progress) <= MaxProgressAge

\* health_supervisor_may_feed_watchdog.
MayFeed ==
  /\ supervisor.application_healthy /\ supervisor.progress_seen
  /\ MaxProgressAge # 0
  /\ Elapsed(now_ms, supervisor.last_progress) <= MaxProgressAge

Feed ==
  /\ pc = "feed"
  /\ unfed' = IF MayFeed THEN 0 ELSE unfed
  /\ sick' = (sick /\ ~MayFeed)
  /\ pc' = "top"
  /\ UNCHANGED <<milliseconds, now_ms, healthy, supervisor, confirmation, lap, stable>>

Loop == ReadClock \/ Process \/ Report \/ ConfirmationPoll \/ Feed

-----------------------------------------------------------------------------
(* SysTick_Handler and the watchdog, which count on whatever main does. *)

\* A counter wider than the arithmetic made with it.
FaultyCountUp(ms) == ms + 1

CountUp(ms) == (ms + 1) % Modulus

Tick ==
  /\ unfed < WatchdogTimeout
  /\ milliseconds' = CountUp(milliseconds)
  /\ unfed' = unfed + 1
  /\ lap' = [lap EXCEPT !.current = Plus(WatchdogTimeout, @)]
  /\ stable' = Plus(Stabilization, stable)
  /\ UNCHANGED <<pc, now_ms, healthy, supervisor, confirmation, sick>>

NoLap == [current |-> 0, last |-> 0]

\* The bootloader starts and refreshes the watchdog again, and jumps back here;
\* systick_init clears the counter, as .bss and the stack are initialised.
WatchdogReset ==
  /\ unfed = WatchdogTimeout
  /\ pc' = "start"
  /\ milliseconds' = 0 /\ unfed' = 0 /\ now_ms' = 0
  /\ healthy' = FALSE
  /\ supervisor' = NewSupervisor /\ confirmation' = NewConfirmation
  /\ lap' = NoLap /\ sick' = FALSE /\ stable' = 0

Init ==
  /\ pc = "start"
  /\ milliseconds = 0 /\ unfed = 0 /\ now_ms = 0
  /\ healthy = FALSE
  /\ supervisor = NewSupervisor /\ confirmation = NewConfirmation
  /\ lap = NoLap /\ sick = FALSE /\ stable = 0

Next ==
  \/ Start \/ StartFails \/ ProcessHangs \/ Loop
  \/ Tick \/ WatchdogReset

Spec == Init /\ [][Next]_vars

Committed == ConfirmationPoll /\ ~confirmation.completed /\ confirmation'.completed

\* main runs as long as it does not hang, the two counters always do, and the
\* flash does not refuse every save for ever.
FairSpec ==
  /\ Spec
  /\ WF_vars(Start) /\ WF_vars(Loop) /\ WF_vars(Tick) /\ WF_vars(WatchdogReset)
  /\ SF_vars(Committed)

-----------------------------------------------------------------------------
(* Properties. *)

TypeOK ==
  /\ pc \in {"start", "top", "process", "report", "confirm", "feed", "hung"}
  /\ milliseconds \in 0 .. Modulus - 1 /\ now_ms \in 0 .. Modulus - 1
  /\ unfed \in 0 .. WatchdogTimeout
  /\ healthy \in BOOLEAN /\ sick \in BOOLEAN
  /\ supervisor \in [last_progress : 0 .. Modulus - 1, application_healthy : BOOLEAN,
                     progress_seen : BOOLEAN]
  /\ confirmation \in [active : BOOLEAN, since : 0 .. Modulus - 1, completed : BOOLEAN]
  /\ lap \in [current : 0 .. WatchdogTimeout, last : 0 .. WatchdogTimeout]
  /\ stable \in 0 .. Stabilization

\* What the loop's readings of the clock and its refreshes of the watchdog are
\* worth between any two statements: the copy main works with is as old as the
\* iteration, a healthy period is measured by it from its start for as long as it
\* counts, and without a bad report the last refresh lies at most the current and
\* the previous iteration back (runtime.c, boot_confirmation.c, health_supervisor.c).
LoopInv ==
  /\ TypeOK
  /\ pc \in {"process", "report", "confirm", "feed"} =>
       lap.current <= unfed /\ Elapsed(milliseconds, now_ms) = lap.current
  /\ confirmation.active =>
       \/ stable = Stabilization
       \/ /\ Elapsed(milliseconds, confirmation.since) = stable
          /\ Elapsed(now_ms, confirmation.since) <= stable
  /\ pc = "top" /\ ~sick => unfed <= lap.current
  /\ pc \in {"process", "report", "confirm", "feed"} /\ ~sick =>
       unfed <= lap.current + lap.last
  /\ pc \in {"confirm", "feed"} =>
       /\ supervisor.progress_seen /\ supervisor.last_progress = now_ms
       /\ ~sick => supervisor.application_healthy

\* An image is confirmed only after the whole stabilization interval without
\* one poll that found it unhealthy, wherever the counter wraps in it.
ConfirmsAfterStablePeriod ==
  [][~confirmation.completed /\ confirmation'.completed
       => stable = Stabilization /\ healthy]_vars

\* The watchdog resets for a reason: main hung, the application
\* was reported unhealthy since the last refresh, or one of the last two iterations took half the timeout.
ResetsForAReason ==
  [][unfed = WatchdogTimeout /\ unfed' = 0 /\ pc' = "start"
       => \/ pc \in {"start", "hung"} \/ sick
          \/ 2 * lap.current >= WatchdogTimeout
          \/ 2 * lap.last >= WatchdogTimeout]_vars

\* An application that stays unhealthy, or hangs, is reset.
SickIsReset == []([](~healthy) => <>(pc = "start")) /\ (pc = "hung" ~> pc = "start")

\* An application that stays healthy is confirmed, unless it is reset.
HealthyIsConfirmed == []([](pc # "start" /\ healthy) => <>(confirmation.completed \/ pc = "hung"))

=============================================================================
