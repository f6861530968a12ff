---------------------------- MODULE Runtime_proofs ----------------------------
(***************************************************************************)
(* What the application's main loop can rely on, for every width of the    *)
(* millisecond counter, every watchdog timeout and stabilization period,    *)
(* and whatever the application's callbacks do; the lock of the tracer it   *)
(* shares with interrupts and faults; and what the host decodes of the      *)
(* records, for all records, reports and bounds.                           *)
(***************************************************************************)
EXTENDS Platform, TraceLog, SequenceTheorems, FiniteSetTheorems, WellFoundedInduction, TLAPS

Running == {"process", "report", "confirm", "feed"}

-----------------------------------------------------------------------------
(* The arithmetic of a counter that wraps. *)

\* What the unsigned subtraction of two readings comes to.
LEMMA ElapsedValue ==
  ASSUME NEW now \in 0 .. Modulus - 1, NEW since \in 0 .. Modulus - 1
  PROVE  Elapsed(now, since) = IF now >= since THEN now - since ELSE now + Modulus - since
  BY PlatformAssumption DEF Elapsed

\* It is never negative.
LEMMA ElapsedType ==
  ASSUME NEW now \in 0 .. Modulus - 1, NEW since \in 0 .. Modulus - 1
  PROVE  Elapsed(now, since) \in Nat
  <1>1. Modulus \in Nat
    BY PlatformAssumption
  <1> QED BY <1>1, ElapsedValue

\* Zero is a value of each of the counters.
LEMMA ZeroCounts ==
  0 \in 0 .. Modulus - 1 /\ 0 \in 0 .. WatchdogTimeout /\ 0 \in 0 .. Stabilization
  BY PlatformAssumption

\* A tick moves the counter by one, or back to zero.
LEMMA CountUpValue ==
  ASSUME NEW ms \in 0 .. Modulus - 1
  PROVE  /\ CountUp(ms) \in 0 .. Modulus - 1
         /\ CountUp(ms) = IF ms = Modulus - 1 THEN 0 ELSE ms + 1
  BY PlatformAssumption DEF CountUp

\* Until a whole turn of the counter has passed, a tick adds one to what has
\* elapsed, whether or not the counter wraps.
LEMMA TickElapses ==
  ASSUME NEW ms \in 0 .. Modulus - 1, NEW since \in 0 .. Modulus - 1,
         Elapsed(ms, since) < Modulus - 1
  PROVE  Elapsed(CountUp(ms), since) = Elapsed(ms, since) + 1
  <1>1. Modulus \in Nat
    BY PlatformAssumption
  <1>2. CountUp(ms) \in 0 .. Modulus - 1
    BY CountUpValue
  <1>3. /\ Elapsed(ms, since) = IF ms >= since THEN ms - since ELSE ms + Modulus - since
        /\ Elapsed(CountUp(ms), since) = IF CountUp(ms) >= since THEN CountUp(ms) - since
                                         ELSE CountUp(ms) + Modulus - since
    BY <1>2, ElapsedValue
  <1>4. CountUp(ms) = IF ms = Modulus - 1 THEN 0 ELSE ms + 1
    BY CountUpValue
  <1> QED BY <1>1, <1>2, <1>3, <1>4

\* Nothing has elapsed since this moment.
LEMMA NothingElapsed ==
  ASSUME NEW ms \in 0 .. Modulus - 1
  PROVE  Elapsed(ms, ms) = 0
  <1>1. Modulus \in Nat
    BY PlatformAssumption
  <1> QED BY <1>1, ElapsedValue

-----------------------------------------------------------------------------
\* A reset starts from a state in which the invariant holds.
LEMMA InitEstablishesInv == Init => LoopInv
  <1> SUFFICES ASSUME Init PROVE LoopInv
    OBVIOUS
  <1>1. TypeOK
    BY ZeroCounts DEF Init, TypeOK, NewSupervisor, NewConfirmation, NoLap
  <1> QED BY <1>1 DEF Init, LoopInv, NewConfirmation

\* Every statement of the loop, and every tick between two of them, keeps it.
LEMMA StepKeepsInv == LoopInv /\ [Next]_vars => LoopInv'
  <1> SUFFICES ASSUME LoopInv, [Next]_vars PROVE LoopInv'
    OBVIOUS
  <1>1. /\ Modulus \in Nat \ {0} /\ WatchdogTimeout \in Nat \ {0, 1}
        /\ Stabilization \in Nat \ {0}
        /\ 2 * WatchdogTimeout + Stabilization < Modulus
    BY PlatformAssumption
  <1>2. TypeOK
    BY DEF LoopInv
  <1>3. CASE Start
    BY <1>1, <1>3 DEF Start, LoopInv, TypeOK, NewSupervisor, NewConfirmation
  <1>4. CASE StartFails \/ ProcessHangs
    BY <1>1, <1>4 DEF StartFails, ProcessHangs, LoopInv, TypeOK
  <1>5. CASE ReadClock
    <2>1. Elapsed(milliseconds, milliseconds) = 0
      BY <1>2, NothingElapsed DEF TypeOK
    <2>2. TypeOK'
      BY <1>1, <1>2, <1>5 DEF ReadClock, TypeOK
    <2> QED BY <1>1, <1>2, <1>5, <2>1, <2>2 DEF ReadClock, LoopInv, TypeOK
  <1>6. CASE Process
    BY <1>1, <1>6 DEF Process, LoopInv, TypeOK
  <1>7. CASE Report
    BY <1>1, <1>7 DEF Report, LoopInv, TypeOK
  <1>8. CASE ConfirmationPoll
    <2>1. /\ pc = "confirm" /\ pc' = "feed" /\ milliseconds' = milliseconds
          /\ unfed' = unfed /\ now_ms' = now_ms /\ healthy' = healthy
          /\ supervisor' = supervisor /\ lap' = lap /\ sick' = sick
      BY <1>8 DEF ConfirmationPoll
    <2>2. confirmation' \in [active : BOOLEAN, since : 0 .. Modulus - 1, completed : BOOLEAN]
      <3>1. StablePeriodOver \in BOOLEAN
        BY DEF StablePeriodOver
      <3> QED BY <1>2, <1>8, <3>1 DEF ConfirmationPoll, Interrupted, TypeOK
    <2>3. /\ stable' \in 0 .. Stabilization
          /\ confirmation'.active =>
               \/ stable' = Stabilization
               \/ /\ Elapsed(milliseconds, confirmation'.since) = stable'
                  /\ Elapsed(now_ms, confirmation'.since) <= stable'
      <3>1. CASE ~confirmation.completed /\ healthy /\ ~confirmation.active
        <4>1. confirmation'.since = now_ms
          BY <1>2, <1>8, <3>1 DEF ConfirmationPoll, TypeOK
        <4>2. stable' = IF lap.current < Stabilization THEN lap.current ELSE Stabilization
          BY <1>8, <3>1 DEF ConfirmationPoll
        <4>3. Elapsed(milliseconds, now_ms) = lap.current /\ lap.current \in Nat
          BY <1>2, <2>1 DEF LoopInv, TypeOK
        <4>4. Elapsed(now_ms, now_ms) = 0
          BY <1>2, NothingElapsed DEF TypeOK
        <4> QED BY <1>1, <4>1, <4>2, <4>3, <4>4
      <3>2. CASE ~confirmation.completed /\ ~healthy
        <4>1. stable' = 0 /\ ~confirmation'.active
          BY <1>2, <1>8, <3>2 DEF ConfirmationPoll, Interrupted, TypeOK
        <4> QED BY <4>1, ZeroCounts
      <3>3. CASE confirmation.completed \/ (healthy /\ confirmation.active)
        <4>1. /\ stable' = stable /\ confirmation'.active = confirmation.active
              /\ confirmation'.since = confirmation.since
          BY <1>2, <1>8, <3>3 DEF ConfirmationPoll, TypeOK
        <4> QED BY <1>2, <4>1 DEF LoopInv, TypeOK
      <3> QED BY <3>1, <3>2, <3>3
    <2>4. TypeOK'
      BY <1>2, <2>1, <2>2, <2>3 DEF TypeOK
    <2> QED BY <2>1, <2>3, <2>4 DEF LoopInv
  <1>9. CASE Feed
    <2>1. ~sick => MayFeed
      <3>1. MaxProgressAge \in Nat \ {0}
        BY <1>1 DEF MaxProgressAge
      <3>2. ~sick => /\ supervisor.application_healthy /\ supervisor.progress_seen
                     /\ supervisor.last_progress = now_ms
        BY <1>9 DEF Feed, LoopInv
      <3>3. Elapsed(now_ms, now_ms) = 0
        BY <1>2, NothingElapsed DEF TypeOK
      <3> QED BY <3>1, <3>2, <3>3 DEF MayFeed
    <2> QED BY <1>1, <1>9, <2>1 DEF Feed, LoopInv, TypeOK
  <1>10. CASE Tick
    <2>1. /\ pc' = pc /\ unfed < WatchdogTimeout /\ milliseconds' = CountUp(milliseconds)
          /\ unfed' = unfed + 1 /\ now_ms' = now_ms /\ healthy' = healthy
          /\ supervisor' = supervisor /\ confirmation' = confirmation /\ sick' = sick
          /\ lap' = [lap EXCEPT !.current = Plus(WatchdogTimeout, @)]
          /\ stable' = Plus(Stabilization, stable)
      BY <1>10 DEF Tick
    <2>2. /\ lap'.current = (IF lap.current < WatchdogTimeout THEN lap.current + 1
                             ELSE lap.current)
          /\ lap'.last = lap.last
          /\ stable' = (IF stable < Stabilization THEN stable + 1 ELSE stable)
      BY <1>2, <2>1 DEF TypeOK, Plus
    <2>3. TypeOK'
      <3>1. CountUp(milliseconds) \in 0 .. Modulus - 1
        BY <1>2, CountUpValue DEF TypeOK
      <3>2. lap' \in [current : 0 .. WatchdogTimeout, last : 0 .. WatchdogTimeout]
        BY <1>1, <1>2, <2>1, <2>2 DEF TypeOK
      <3> QED BY <1>1, <1>2, <2>1, <2>2, <3>1, <3>2 DEF TypeOK
    <2>4. pc \in Running =>
            lap'.current <= unfed' /\ Elapsed(milliseconds', now_ms) = lap'.current
      <3> SUFFICES ASSUME pc \in Running
                   PROVE  lap'.current <= unfed' /\ Elapsed(milliseconds', now_ms) = lap'.current
        OBVIOUS
      <3>1. lap.current <= unfed /\ Elapsed(milliseconds, now_ms) = lap.current
        BY DEF LoopInv, Running
      <3>2. lap.current \in Nat /\ unfed \in Nat /\ lap.current < Modulus - 1
        BY <1>1, <1>2, <2>1, <3>1 DEF TypeOK
      <3>3. Elapsed(milliseconds', now_ms) = lap.current + 1
        BY <1>2, <2>1, <3>1, <3>2, TickElapses DEF TypeOK
      <3> QED BY <1>1, <2>1, <2>2, <3>1, <3>2, <3>3
    <2>5. confirmation.active =>
            \/ stable' = Stabilization
            \/ /\ Elapsed(milliseconds', confirmation.since) = stable'
               /\ Elapsed(now_ms, confirmation.since) <= stable'
      <3>1. CASE stable = Stabilization
        BY <1>1, <2>2, <3>1
      <3>2. CASE /\ confirmation.active /\ stable < Stabilization
                 /\ Elapsed(milliseconds, confirmation.since) = stable
                 /\ Elapsed(now_ms, confirmation.since) <= stable
        <4>1. stable \in Nat /\ stable < Modulus - 1
          BY <1>1, <1>2, <3>2 DEF TypeOK
        <4>2. Elapsed(milliseconds', confirmation.since) = stable + 1
          BY <1>2, <2>1, <3>2, <4>1, TickElapses DEF TypeOK
        <4>3. Elapsed(now_ms, confirmation.since) \in Nat
          BY <1>2, ElapsedType DEF TypeOK
        <4> QED BY <2>2, <3>2, <4>1, <4>2, <4>3
      <3> QED BY <1>1, <1>2, <3>1, <3>2 DEF LoopInv, TypeOK
    <2>6. /\ pc = "top" /\ ~sick => unfed' <= lap'.current
          /\ pc \in Running /\ ~sick => unfed' <= lap'.current + lap'.last
      <3>1. /\ unfed \in 0 .. WatchdogTimeout /\ lap.current \in 0 .. WatchdogTimeout
            /\ lap.last \in 0 .. WatchdogTimeout
        BY <1>2 DEF TypeOK
      <3> QED BY <1>1, <2>1, <2>2, <3>1 DEF LoopInv, Running
    <2> QED BY <2>1, <2>3, <2>4, <2>5, <2>6 DEF LoopInv, Running
  <1>11. CASE WatchdogReset
    <2>1. TypeOK'
      BY <1>11, ZeroCounts DEF WatchdogReset, TypeOK, NewSupervisor, NewConfirmation, NoLap
    <2> QED BY <1>11, <2>1 DEF WatchdogReset, LoopInv, NewConfirmation
  <1>12. CASE UNCHANGED vars
    BY <1>12 DEF vars, LoopInv, TypeOK
  <1> QED BY <1>3, <1>4, <1>5, <1>6, <1>7, <1>8, <1>9, <1>10, <1>11, <1>12 DEF Next, Loop

\* The readings of the clock and the refreshes of the watchdog are worth what
\* LoopInv says, through every wrap of the counter.
THEOREM LoopInvariant == Spec => []LoopInv
  <1> QED BY InitEstablishesInv, StepKeepsInv, PTL DEF Spec

\* An image is confirmed only after the whole stabilization interval.
THEOREM ConfirmationIsEarned == Spec => ConfirmsAfterStablePeriod
  <1>1. ASSUME LoopInv, [Next]_vars, ~confirmation.completed, confirmation'.completed
        PROVE  stable = Stabilization /\ healthy
    <2>1. ConfirmationPoll
      BY <1>1 DEF Next, Start, StartFails, ProcessHangs, Loop, ReadClock, Process, Report, Feed,
                  Tick, WatchdogReset, NewConfirmation, vars
    <2>2. /\ healthy /\ confirmation.active /\ StablePeriodOver
      BY <1>1, <2>1 DEF ConfirmationPoll, Interrupted, LoopInv, TypeOK
    <2>3. /\ Stabilization \in Nat /\ Modulus \in Nat /\ stable \in 0 .. Stabilization
          /\ now_ms \in 0 .. Modulus - 1 /\ confirmation.since \in 0 .. Modulus - 1
      BY <1>1, PlatformAssumption DEF LoopInv, TypeOK
    <2>4. Elapsed(now_ms, confirmation.since) \in Nat
      BY <2>3, ElapsedType
    <2> QED BY <1>1, <2>2, <2>3, <2>4 DEF LoopInv, StablePeriodOver
  <1>2. LoopInv /\ [Next]_vars
          => [~confirmation.completed /\ confirmation'.completed
                => stable = Stabilization /\ healthy]_vars
    BY <1>1
  <1> QED BY <1>2, LoopInvariant, PTL DEF Spec, ConfirmsAfterStablePeriod

\* The watchdog resets only what hung, what was reported sick, or a loop one of
\* whose last two iterations took half the timeout.
THEOREM ResetsAreDeserved == Spec => ResetsForAReason
  <1>1. ASSUME LoopInv, unfed = WatchdogTimeout, pc \notin {"start", "hung"}, ~sick
        PROVE  2 * lap.current >= WatchdogTimeout \/ 2 * lap.last >= WatchdogTimeout
    <2>1. /\ WatchdogTimeout \in Nat /\ lap.current \in 0 .. WatchdogTimeout
          /\ lap.last \in 0 .. WatchdogTimeout
      BY <1>1, PlatformAssumption DEF LoopInv, TypeOK
    <2>2. CASE pc = "top"
      BY <1>1, <2>1, <2>2 DEF LoopInv
    <2>3. CASE pc \in Running
      BY <1>1, <2>1, <2>3 DEF LoopInv, Running
    <2> QED BY <1>1, <2>2, <2>3 DEF LoopInv, TypeOK, Running
  <1>2. LoopInv /\ [Next]_vars
          => [unfed = WatchdogTimeout /\ unfed' = 0 /\ pc' = "start"
                => \/ pc \in {"start", "hung"} \/ sick
                   \/ 2 * lap.current >= WatchdogTimeout
                   \/ 2 * lap.last >= WatchdogTimeout]_vars
    BY <1>1
  <1> QED BY <1>2, LoopInvariant, PTL DEF Spec, ResetsForAReason

-----------------------------------------------------------------------------
(* The tracer. *)

\* No record is empty.
LEMMA FramesAreSequences ==
  ASSUME NEW f \in Frames
  PROVE  f \in Seq(Nat) /\ f # <<>>
<1>1. f \in Seq(Nat) /\ Encoded(f)
  BY TraceAssumption
<1>2. Len(f) >= 5 + 0
  BY <1>1 DEF Encoded, FrameSize
<1>3. Len(<<>>) = 0
  OBVIOUS
<1> QED
  BY <1>1, <1>2, <1>3

\* What a fault reports consists of records.
LEMMA ReportsAreFrames ==
  ASSUME NEW r \in Reports
  PROVE  r \in Seq(Frames)
<1>1. r \in Seq(Seq(Nat))
  BY TraceAssumption
<1>2. \A n \in DOMAIN r : r[n] \in Frames
  BY DEF Frames
<1> QED
  BY <1>1, <1>2

\* The tracer starts free.
LEMMA InitLock == TraceInit => LockInv
<1> SUFFICES ASSUME TraceInit PROVE LockInv
  OBVIOUS
<1>1. /\ level = "main" /\ trace_busy = 0 /\ record = Quiet /\ rest = Quiet /\ reports = <<>>
      /\ escalated \in BOOLEAN
  BY DEF TraceInit
<1> QED
  BY <1>1 DEF LockInv, TraceTypeOK, Contexts, Quiet, Emitting

\* The main loop finds the lock free and takes it.
LEMMA TraceLocks ==
  ASSUME LockInv, NEW f \in Events, Trace(f)
  PROVE  LockInv'
<1>1. f \in Frames
  BY DEF Frames
<1>2. f \in Seq(Nat) /\ f # <<>>
  BY <1>1, FramesAreSequences
<1>3. MayLock
  BY DEF LockInv, TraceTypeOK, Trace, Emitting, MayLock, Contexts
<1>4. /\ trace_busy' = 1
      /\ record' = [record EXCEPT !["main"] = f]
      /\ rest' = [rest EXCEPT !["main"] = f]
      /\ UNCHANGED <<level, reports, escalated>> /\ level = "main"
  BY <1>3 DEF Trace, Emit, report
<1>5. TraceTypeOK'
  BY <1>1, <1>2, <1>4 DEF LockInv, TraceTypeOK, Contexts
<1> QED
  BY <1>2, <1>4, <1>5 DEF LockInv, TraceTypeOK, Contexts, Emitting

\* An interrupt over a record of main leaves it alone; otherwise it takes the
\* lock.
LEMMA InterruptLocks ==
  ASSUME LockInv, NEW f \in Events, Interrupt(f)
  PROVE  LockInv'
<1>1. f \in Frames
  BY DEF Frames
<1>2. f \in Seq(Nat) /\ f # <<>>
  BY <1>1, FramesAreSequences
<1>3. level = "main" /\ level' = "isr" /\ reports' = reports /\ escalated' = escalated
  BY DEF Interrupt, report
<1>4. CASE MayLock
  <2>1. /\ trace_busy' = 1
        /\ record' = [record EXCEPT !["isr"] = f]
        /\ rest' = [rest EXCEPT !["isr"] = f]
    BY <1>4 DEF Interrupt, Emit
  <2>2. TraceTypeOK'
    BY <1>1, <1>2, <1>3, <2>1 DEF LockInv, TraceTypeOK, Contexts
  <2> QED
    BY <1>2, <1>3, <1>4, <2>1, <2>2 DEF LockInv, TraceTypeOK, Contexts, Emitting, MayLock
<1>5. CASE ~MayLock
  <2>1. UNCHANGED <<trace_busy, record, rest>>
    BY <1>5 DEF Interrupt, Emit, tracer
  <2> QED
    BY <1>3, <2>1 DEF LockInv, TraceTypeOK, Contexts, Emitting
<1> QED
  BY <1>4, <1>5

\* A byte less to put changes nothing else, and only of who is in the tracer.
LEMMA PutKeepsLock ==
  ASSUME LockInv, Put
  PROVE  LockInv'
<1>1. /\ rest[level] # <<>> /\ rest' = [rest EXCEPT ![level] = Tail(@)]
      /\ UNCHANGED <<level, trace_busy, record, reports, escalated>>
  BY DEF Put
<1>2. level \in Contexts /\ rest[level] \in Seq(Nat)
  BY DEF LockInv, TraceTypeOK
<1>3. Tail(rest[level]) \in Seq(Nat)
  BY <1>1, <1>2
<1>4. TraceTypeOK'
  BY <1>1, <1>2, <1>3 DEF LockInv, TraceTypeOK
<1>5. Emitting(level)
  BY <1>1, <1>2 DEF LockInv
<1>6. \A c \in Contexts : c # level => rest'[c] = rest[c]
  BY <1>1 DEF LockInv, TraceTypeOK
<1> QED
  BY <1>1, <1>2, <1>4, <1>5, <1>6 DEF LockInv, Emitting

\* Who unlocks is the one who holds the lock.
LEMMA UnlockFrees ==
  ASSUME LockInv, Unlock
  PROVE  LockInv'
<1>1. /\ record[level] # <<>> /\ rest[level] = <<>>
      /\ trace_busy' = 0
      /\ record' = [record EXCEPT ![level] = <<>>]
      /\ UNCHANGED <<level, rest, reports, escalated>>
  BY DEF Unlock, Unlocked, report
<1>2. TraceTypeOK'
  BY <1>1 DEF LockInv, TraceTypeOK
<1> QED
  BY <1>1, <1>2 DEF LockInv, TraceTypeOK, Contexts, Emitting

\* A fault finds a record at most, or two if it escalates, and leaves them broken off,
\* the lock free.
LEMMA FaultFrees ==
  ASSUME LockInv, Fault
  PROVE  LockInv'
<1>1. /\ level' = "fault" /\ trace_busy' = 0 /\ escalated' \in BOOLEAN /\ reports' \in Reports
      /\ record' = [record EXCEPT !["fault"] = <<>>] /\ rest' = [rest EXCEPT !["fault"] = <<>>]
  BY DEF Fault, Aborted
<1>2. reports' \in Seq(Frames)
  BY <1>1, ReportsAreFrames
<1>3. TraceTypeOK'
  BY <1>1, <1>2 DEF LockInv, TraceTypeOK, Contexts
<1> QED
  BY <1>1, <1>3 DEF LockInv, TraceTypeOK, Contexts, Emitting

\* The fault handler always gets the lock for its next record.
LEMMA ReportLocks ==
  ASSUME LockInv, ReportFault
  PROVE  LockInv'
<1> DEFINE f == Head(reports)
<1>1. level = "fault" /\ record["fault"] = <<>> /\ reports # <<>>
  BY DEF ReportFault
<1>2. reports \in Seq(Frames)
  BY DEF LockInv, TraceTypeOK
<1>3. f \in Frames /\ Tail(reports) \in Seq(Frames)
  BY <1>1, <1>2
<1>4. f \in Seq(Nat) /\ f # <<>>
  BY <1>3, FramesAreSequences
<1>5. MayLock
  BY <1>1 DEF LockInv, TraceTypeOK, Emitting, MayLock
<1>6. /\ trace_busy' = 1
      /\ record' = [record EXCEPT !["fault"] = f]
      /\ rest' = [rest EXCEPT !["fault"] = f]
      /\ reports' = Tail(reports) /\ level' = level /\ escalated' = escalated
  BY <1>5 DEF ReportFault, Emit
<1>7. TraceTypeOK'
  BY <1>3, <1>4, <1>6 DEF LockInv, TraceTypeOK, Contexts
<1> QED
  BY <1>1, <1>4, <1>6, <1>7 DEF LockInv, TraceTypeOK, Contexts, Emitting

\* The remaining steps of the device and of the host.
LEMMA OthersKeepLock ==
  ASSUME LockInv, ReturnFromInterrupt \/ Reset \/ Read \/ UNCHANGED traceVars
  PROVE  LockInv'
<1>1. CASE ReturnFromInterrupt
  BY <1>1 DEF ReturnFromInterrupt, tracer, report, LockInv, TraceTypeOK, Contexts, Emitting
<1>2. CASE Reset
  <2>1. /\ level' = "main" /\ trace_busy' = 0 /\ record' = Quiet /\ rest' = Quiet
        /\ reports' = <<>> /\ escalated' \in BOOLEAN
    BY <1>2 DEF Reset
  <2> QED BY <2>1 DEF Quiet, LockInv, TraceTypeOK, Contexts, Emitting
<1>3. CASE Read
  BY <1>3 DEF Read, tracer, report, LockInv, TraceTypeOK, Contexts, Emitting
<1>4. CASE UNCHANGED traceVars
  BY <1>4 DEF traceVars, LockInv, TraceTypeOK, Contexts, Emitting
<1> QED
  BY <1>1, <1>2, <1>3, <1>4

\* The lock protects the tracer from the interrupt, and a fault never finds it
\* held for ever (trace.c:13-36), for all records and reports.
THEOREM LockProtects == TraceSpec => []LockInv
<1>1. LockInv /\ [TraceNext]_traceVars => LockInv'
  BY TraceLocks, InterruptLocks, PutKeepsLock, UnlockFrees, FaultFrees, ReportLocks,
     OthersKeepLock DEF TraceNext, TracerStep
<1> QED
  BY <1>1, InitLock, PTL DEF TraceSpec

-----------------------------------------------------------------------------
(* What the host finds in bytes. *)

\* A set of numbers with zero and all successors of its own has every number.
LEMMA Induction ==
  ASSUME NEW S, 0 \in S, \A n \in Nat : n \in S => n + 1 \in S
  PROVE  Nat \subseteq S
<1> DEFINE T == Nat \ S
           R == OpToRel(<, Nat)
<1> SUFFICES ASSUME T # {} PROVE FALSE
  OBVIOUS
<1>1. IsWellFoundedOn(R, Nat)
  BY NatLessThanWellFounded
<1>2. PICK least \in T : \A y \in T : <<y, least>> \notin R
  <2> HIDE DEF R
  <2> QED BY <1>1, WFMin
<1>3. least \in Nat /\ least - 1 \in Nat /\ least - 1 + 1 = least
  OBVIOUS
<1>4. <<least - 1, least>> \in R
  BY <1>3 DEF OpToRel
<1> HIDE DEF R
<1> QED
  BY <1>2, <1>3, <1>4

\* The numbers of the constants.
LEMMA TraceConstants ==
  /\ Sync0 \in Nat /\ Sync1 \in Nat /\ Sync0 # Sync1 /\ MaxArgs \in Nat /\ Ids \subseteq Nat
  /\ Sync0 \notin Ids /\ Sync1 \notin Ids /\ FifoSize \in Nat \ {0}
  /\ FrameSize(0) = 5 /\ FrameSize(MaxArgs) \in Nat /\ FrameSize(MaxArgs) >= 5
<1>1. {Sync0, Sync1, MaxArgs, MaxRecords, MaxUpsets, MaxLost} \cup Ids \subseteq Nat
      /\ Sync0 # Sync1 /\ {Sync0, Sync1} \cap Ids = {} /\ FifoSize \in Nat \ {0}
  BY TraceAssumption
<1>2. Sync0 \in Nat /\ Sync1 \in Nat /\ MaxArgs \in Nat /\ Ids \subseteq Nat
      /\ Sync0 \notin Ids /\ Sync1 \notin Ids
  BY ONLY <1>1, Zenon
<1> QED
  BY <1>1, <1>2 DEF FrameSize

\* A record has its header, its arguments and a CRC.
LEMMA FrameHas ==
  ASSUME NEW f \in Frames
  PROVE  /\ f \in Seq(Nat) /\ Len(f) \in Nat /\ Len(f) >= 5 /\ DOMAIN f = 1 .. Len(f)
         /\ f[1] = Sync0 /\ f[2] = Sync1 /\ f[3] \in Ids
         /\ f[4] \in Nat /\ f[4] <= MaxArgs /\ Len(f) = 5 + f[4] /\ Len(f) = FrameSize(f[4])
         /\ Len(f) <= FrameSize(MaxArgs)
<1>1. f \in Seq(Nat) /\ Encoded(f)
  BY TraceAssumption
<1>2. Len(f) \in Nat /\ DOMAIN f = 1 .. Len(f)
  BY <1>1, LenProperties
<1> QED
  BY <1>1, <1>2, TraceConstants DEF Encoded, FrameSize

\* A header with a marker, an id and as many arguments as there can be.
Claims(bytes, i) ==
  /\ MarkerAt(bytes, i) /\ i + 4 <= Len(bytes)
  /\ bytes[i + 2] \in Ids /\ bytes[i + 3] <= MaxArgs

SizeAt(bytes, i) == FrameSize(bytes[i + 3])
FrameAt(bytes, i) == SubSeq(bytes, i, i + SizeAt(bytes, i) - 1)

\* The bytes from i on may be the beginning of a record.
Waits(bytes, i) ==
  \/ i > Len(bytes)
  \/ i = Len(bytes) /\ bytes[i] = Sync0
  \/ MarkerAt(bytes, i) /\ i + 4 > Len(bytes)
  \/ Claims(bytes, i) /\ i + SizeAt(bytes, i) - 1 > Len(bytes)

Takes(bytes, i) ==
  /\ Claims(bytes, i) /\ i + SizeAt(bytes, i) - 1 <= Len(bytes)
  /\ FrameAt(bytes, i) \in Checked

LastIndex(bytes) == Len(bytes) + FrameSize(MaxArgs) + 1

\* What Scan finds from i on, if g is what it finds further on.
Found(g, bytes, i) ==
  IF Waits(bytes, i) THEN [records |-> <<>>, starts |-> <<>>, rest |-> From(bytes, i)]
  ELSE IF Takes(bytes, i)
       THEN [g[i + SizeAt(bytes, i)] EXCEPT !.records = <<FrameAt(bytes, i)>> \o @,
                                            !.starts = <<i>> \o @]
       ELSE g[i + 1]

\* What is found in bytes depends on what comes behind only.
LEMMA FoundBehind ==
  ASSUME NEW bytes \in Seq(Nat), NEW i \in 1 .. LastIndex(bytes), NEW g, NEW h,
         \A j \in 1 .. LastIndex(bytes) : j > i => g[j] = h[j]
  PROVE  Found(g, bytes, i) = Found(h, bytes, i)
<1>1. Len(bytes) \in Nat
  BY LenProperties
<1>2. CASE Waits(bytes, i)
  BY <1>2 DEF Found
<1>3. CASE ~Waits(bytes, i) /\ Takes(bytes, i)
  <2> DEFINE size == SizeAt(bytes, i)
  <2>1. i + 3 \in 1 .. Len(bytes) /\ bytes[i + 3] <= MaxArgs
    BY <1>1, <1>3, TraceConstants DEF Takes, Claims, LastIndex
  <2>2. bytes[i + 3] \in Nat
    BY <2>1, ElementOfSeq
  <2>3. size \in Nat /\ size >= 5 /\ i + size - 1 <= Len(bytes)
    <3>1. size \in Nat /\ size >= 5
      <4> DEFINE args == bytes[i + 3]
      <4>1. args \in Nat
        BY <2>2
      <4> HIDE DEF args
      <4>2. 5 + args \in Nat /\ 5 + args >= 5
        BY <4>1
      <4> QED BY <4>2 DEF FrameSize, SizeAt, args
    <3> QED BY <1>3, <3>1 DEF Takes
  <2> HIDE DEF size
  <2>4. i + size \in 1 .. LastIndex(bytes) /\ i + size > i
    BY <1>1, <2>3, TraceConstants DEF LastIndex
  <2>5. g[i + size] = h[i + size]
    BY <2>4
  <2> QED BY <1>3, <2>5 DEF Found, size
<1>4. CASE ~Waits(bytes, i) /\ ~Takes(bytes, i)
  <2>1. i + 1 \in 1 .. LastIndex(bytes) /\ i + 1 > i
    BY <1>1, <1>4, TraceConstants DEF LastIndex, Waits
  <2> QED BY <1>4, <2>1 DEF Found
<1> QED
  BY <1>2, <1>3, <1>4

\* There is a function that Scan defines.
LEMMA ScanExists ==
  ASSUME NEW bytes \in Seq(Nat)
  PROVE  \E g : g = [i \in 1 .. LastIndex(bytes) |-> Found(g, bytes, i)]
<1> DEFINE N == LastIndex(bytes)
           Solves(g, n) == \A i \in 1 .. N : i + n > N => g[i] = Found(g, bytes, i)
           S == {n \in Nat : n <= N => \E g : DOMAIN g = 1 .. N /\ g = [i \in DOMAIN g |-> g[i]]
                                              /\ Solves(g, n)}
<1>1. N \in Nat /\ N >= 1
  BY LenProperties, TraceConstants DEF LastIndex
<1> HIDE DEF N
<1>2. 0 \in S
  <2> DEFINE g == [i \in 1 .. N |-> 0]
  <2>1. DOMAIN g = 1 .. N /\ g = [i \in DOMAIN g |-> g[i]] /\ Solves(g, 0)
    BY <1>1
  <2> QED BY <2>1
<1>3. ASSUME NEW n \in Nat, n \in S
      PROVE  n + 1 \in S
  <2> SUFFICES ASSUME n + 1 <= N
               PROVE  \E g : DOMAIN g = 1 .. N /\ g = [i \in DOMAIN g |-> g[i]] /\ Solves(g, n + 1)
    OBVIOUS
  <2>1. PICK g : DOMAIN g = 1 .. N /\ g = [i \in DOMAIN g |-> g[i]] /\ Solves(g, n)
    BY <1>1, <1>3
  <2> DEFINE j == N - n
             h == [i \in 1 .. N |-> IF i = j THEN Found(g, bytes, j) ELSE g[i]]
  <2>2. j \in 1 .. N /\ \A i \in 1 .. N : i + (n + 1) > N <=> i = j \/ i + n > N
    BY <1>1
  <2>3. \A i \in 1 .. N : i + n > N => i # j
    BY <1>1
  <2>4. DOMAIN h = 1 .. N /\ h = [i \in DOMAIN h |-> h[i]]
    OBVIOUS
  <2> HIDE DEF j
  <2>5. h[j] = Found(g, bytes, j) /\ \A i \in 1 .. N : i # j => h[i] = g[i]
    BY <2>2
  <2> HIDE DEF h
  <2>6. \A i \in 1 .. N : i > j => h[i] = g[i]
    BY <2>2, <2>5
  <2>7. h[j] = Found(h, bytes, j)
    <3>1. Found(h, bytes, j) = Found(g, bytes, j)
      BY <2>2, <2>6, FoundBehind DEF N
    <3> QED BY <2>5, <3>1
  <2>8. ASSUME NEW i \in 1 .. N, i + n > N
        PROVE  h[i] = Found(h, bytes, i)
    <3>1. i >= j
      BY <1>1, <2>8 DEF j
    <3>2. \A k \in 1 .. N : k > i => h[k] = g[k]
      BY <1>1, <2>2, <2>6, <3>1
    <3>3. Found(h, bytes, i) = Found(g, bytes, i)
      BY <3>2, FoundBehind DEF N
    <3>4. h[i] = g[i] /\ g[i] = Found(g, bytes, i)
      BY <2>1, <2>3, <2>5, <2>8
    <3> QED BY <3>3, <3>4
  <2>9. Solves(h, n + 1)
    BY <2>2, <2>7, <2>8
  <2> QED BY <2>4, <2>9
<1> HIDE DEF S
<1>4. N \in S
  BY <1>1, <1>2, <1>3, Induction
<1>5. PICK g : DOMAIN g = 1 .. N /\ g = [i \in DOMAIN g |-> g[i]] /\ Solves(g, N)
  BY <1>1, <1>4 DEF S
<1>6. \A i \in 1 .. N : g[i] = Found(g, bytes, i)
  BY <1>1, <1>5
<1> HIDE DEF Solves
<1>7. g = [i \in 1 .. N |-> Found(g, bytes, i)]
  BY <1>5, <1>6
<1> QED
  BY <1>7 DEF N

\* And Scan takes what it is at the first byte.
LEMMA ScanIs ==
  ASSUME NEW bytes \in Seq(Nat)
  PROVE  \E g : /\ \A i \in 1 .. LastIndex(bytes) : g[i] = Found(g, bytes, i)
                /\ Scan(bytes) = g[1]
<1> DEFINE wait(i) == [records |-> <<>>, starts |-> <<>>, rest |-> From(bytes, i)]
           N == Len(bytes) + FrameSize(MaxArgs) + 1
           body(g, i) ==
             LET size == FrameSize(bytes[i + 3])
                 frame == SubSeq(bytes, i, i + size - 1)
             IN IF i > Len(bytes) THEN wait(i)
                ELSE IF i = Len(bytes) /\ bytes[i] = Sync0 THEN wait(i)
                ELSE IF ~MarkerAt(bytes, i) THEN g[i + 1]
                ELSE IF i + FrameSize(0) - 1 > Len(bytes) THEN wait(i)
                ELSE IF bytes[i + 2] \notin Ids \/ bytes[i + 3] > MaxArgs THEN g[i + 1]
                ELSE IF i + size - 1 > Len(bytes) THEN wait(i)
                ELSE IF frame \notin Checked THEN g[AfterMismatch(i, size)]
                ELSE [g[i + size] EXCEPT !.records = <<frame>> \o @, !.starts = <<i>> \o @]
           Eq(g) == g = [i \in 1 .. N |-> body(g, i)]
           from == CHOOSE g : Eq(g)
<1>1. Len(bytes) \in Nat /\ N = LastIndex(bytes) /\ N \in Nat
  BY LenProperties, TraceConstants DEF LastIndex
<1>2. ASSUME NEW g, NEW i \in 1 .. N
      PROVE  body(g, i) = Found(g, bytes, i)
  <2> DEFINE size == FrameSize(bytes[i + 3])
  <2>1. i \in Nat /\ FrameSize(0) = 5 /\ i + FrameSize(0) - 1 = i + 4
        /\ AfterMismatch(i, size) = i + 1
    BY TraceConstants DEF AfterMismatch
  <2>2. MarkerAt(bytes, i) => ~(i >= Len(bytes))
    BY <1>1, <2>1 DEF MarkerAt
  <2>3. i + 4 <= Len(bytes) => bytes[i + 3] \in Nat
    <3>1. i + 4 <= Len(bytes) => i + 3 \in 1 .. Len(bytes)
      BY <1>1, <2>1
    <3> QED BY <3>1, ElementOfSeq
  <2>4. i + 4 <= Len(bytes) => size \in Nat
    BY <2>3, SMTT(30) DEF FrameSize
  <2> HIDE DEF size
  <2>5. /\ size = SizeAt(bytes, i)
        /\ FrameAt(bytes, i) = SubSeq(bytes, i, i + size - 1)
    BY DEF size, SizeAt, FrameAt
  <2>6. /\ Claims(bytes, i) <=> /\ MarkerAt(bytes, i) /\ ~(i + 4 > Len(bytes))
                                /\ ~(bytes[i + 2] \notin Ids \/ bytes[i + 3] > MaxArgs)
    <3> DEFINE args == bytes[i + 3]
    <3>1. CASE i + 4 <= Len(bytes)
      <4>1. args \in Nat /\ MaxArgs \in Nat
        BY <2>3, <3>1, TraceConstants
      <4> HIDE DEF args
      <4>2. args <= MaxArgs <=> ~(args > MaxArgs)
        BY ONLY <4>1
      <4>3. ~(i + 4 > Len(bytes))
        BY <1>1, <2>1, <3>1
      <4> QED BY ONLY <3>1, <4>2, <4>3 DEF Claims, args
    <3> QED BY <1>1, <2>1, <3>1 DEF Claims
  <2>7. i + 4 <= Len(bytes) => (i + size - 1 <= Len(bytes) <=> ~(i + size - 1 > Len(bytes)))
    BY <1>1, <2>1, <2>4, SMTT(30)
  <2>8. i + 4 <= Len(bytes) <=> ~(i + 4 > Len(bytes))
    BY <1>1, <2>1
  <2>9. body(g, i) =
          IF i > Len(bytes) THEN wait(i)
          ELSE IF i = Len(bytes) /\ bytes[i] = Sync0 THEN wait(i)
          ELSE IF ~MarkerAt(bytes, i) THEN g[i + 1]
          ELSE IF i + 4 > Len(bytes) THEN wait(i)
          ELSE IF bytes[i + 2] \notin Ids \/ bytes[i + 3] > MaxArgs THEN g[i + 1]
          ELSE IF i + size - 1 > Len(bytes) THEN wait(i)
          ELSE IF SubSeq(bytes, i, i + size - 1) \notin Checked THEN g[i + 1]
          ELSE [g[i + size] EXCEPT !.records = <<SubSeq(bytes, i, i + size - 1)>> \o @,
                                   !.starts = <<i>> \o @]
    BY <2>1 DEF size
  <2>10. Found(g, bytes, i) =
           IF \/ i > Len(bytes)
              \/ i = Len(bytes) /\ bytes[i] = Sync0
              \/ MarkerAt(bytes, i) /\ i + 4 > Len(bytes)
              \/ Claims(bytes, i) /\ i + size - 1 > Len(bytes)
           THEN wait(i)
           ELSE IF /\ Claims(bytes, i) /\ i + size - 1 <= Len(bytes)
                   /\ SubSeq(bytes, i, i + size - 1) \in Checked
                THEN [g[i + size] EXCEPT !.records = <<SubSeq(bytes, i, i + size - 1)>> \o @,
                                         !.starts = <<i>> \o @]
                ELSE g[i + 1]
    BY <2>5 DEF Found, Waits, Takes
  <2>11. i > Len(bytes) => ~MarkerAt(bytes, i)
    BY <1>1, <2>1, <2>2
  <2>12. i = Len(bytes) => ~MarkerAt(bytes, i)
    BY <1>1, <2>1, <2>2
  <2> HIDE DEF body, wait
  <2> QED BY ONLY <2>6, <2>7, <2>8, <2>9, <2>10, <2>11, <2>12
<1>3. PICK h : h = [i \in 1 .. LastIndex(bytes) |-> Found(h, bytes, i)]
  BY ScanExists
<1>4. Eq(h)
  <2> HIDE DEF body, N
  <2>1. h = [i \in 1 .. N |-> Found(h, bytes, i)]
    BY <1>1, <1>3
  <2>2. \A i \in 1 .. N : Found(h, bytes, i) = body(h, i)
    BY <1>2
  <2> QED BY <2>1, <2>2
<1>5. Eq(from)
  <2> HIDE DEF Eq
  <2> QED BY <1>4
<1>6. Scan(bytes) = from[1]
  BY DEF Scan
<1> HIDE DEF from
<1>7. \A i \in 1 .. N : from[i] = body(from, i)
  <2> HIDE DEF body, N
  <2> QED BY <1>5
<1>8. \A i \in 1 .. N : from[i] = Found(from, bytes, i)
  <2> HIDE DEF body, N
  <2> QED BY <1>2, <1>7
<1> QED
  BY <1>1, <1>6, <1>8

\* Where the CRCs are: of each byte the record whose CRC it is, or <<>>.
Marks == Seq(Frames \cup {<<>>})

\* The first q units of f, and of its CRCs the one at its end, are in bytes from s on, and
\* q is all of them, or bytes ends there.
Begins(bytes, crc, f, s, q) ==
  /\ \A k \in 1 .. q : /\ s + k - 1 <= Len(bytes)
                       /\ bytes[s + k - 1] = f[k] /\ crc[s + k - 1] = CrcIn(f)[k]
  /\ q = Len(f) \/ s + q - 1 = Len(bytes)

\* What the host makes of the bytes from i on: they end the records at ends, with no
\* other in between, and what begins at r waits.
Reads(bytes, crc, i, records, ends, r) ==
  /\ r \in i .. Len(bytes) + 1 /\ Waits(bytes, r)
  /\ records \in Seq(Frames) /\ ends \in [1 .. Len(records) -> i .. r - 1]
  /\ \A n \in 1 .. Len(records) : crc[ends[n]] = records[n]
  /\ \A m, n \in 1 .. Len(records) : m < n => ends[m] < ends[n]
  /\ \A f \in Frames, s \in i .. r - 1 : \A q \in 1 .. Len(f) :
       Begins(bytes, crc, f, s, q) =>
         q = Len(f) /\ \E n \in 1 .. Len(records) : ends[n] = s + Len(f) - 1

\* The bytes taken at i have one CRC, their own, at their end.
Proper(bytes, crc, i) ==
  LET size == SizeAt(bytes, i)
  IN \A k \in 1 .. size : crc[i + k - 1] = IF k = size THEN FrameAt(bytes, i) ELSE <<>>

\* The bytes at i that are a record.
LEMMA TakesFrame ==
  ASSUME NEW bytes \in Seq(Nat), NEW i \in 1 .. Len(bytes) + 1, Takes(bytes, i)
  PROVE  /\ FrameAt(bytes, i) \in Checked /\ Len(FrameAt(bytes, i)) = SizeAt(bytes, i)
         /\ SizeAt(bytes, i) \in Nat /\ SizeAt(bytes, i) >= 5
         /\ i + SizeAt(bytes, i) - 1 <= Len(bytes)
         /\ \A k \in 1 .. SizeAt(bytes, i) : FrameAt(bytes, i)[k] = bytes[i + k - 1]
<1> DEFINE size == SizeAt(bytes, i)
<1>1. Len(bytes) \in Nat /\ i \in Nat /\ i >= 1
  BY LenProperties
<1>2. i + 3 \in 1 .. Len(bytes) /\ i + size - 1 <= Len(bytes) /\ FrameAt(bytes, i) \in Checked
  BY <1>1 DEF Takes, Claims
<1>3. bytes[i + 3] \in Nat
  BY <1>2, ElementOfSeq
<1>4. size \in Nat /\ size >= 5
  <2> DEFINE args == bytes[i + 3]
  <2> HIDE DEF args
  <2>1. args \in Nat
    BY <1>3 DEF args
  <2>2. 5 + args \in Nat /\ 5 + args >= 5
    BY <2>1
  <2> QED BY <2>2 DEF FrameSize, SizeAt, args
<1> HIDE DEF size
<1>5. /\ i \in Int /\ i + size - 1 \in Int /\ i >= 1 /\ i + size - 1 <= Len(bytes) /\ i <= i + size - 1
      /\ (i + size - 1) - i + 1 = size
  BY <1>1, <1>2, <1>4
<1>6. Len(SubSeq(bytes, i, i + size - 1)) = size
      /\ \A k \in 1 .. size : SubSeq(bytes, i, i + size - 1)[k] = bytes[i + k - 1]
  BY <1>1, <1>5, SubSeqProperties
<1> QED
  BY <1>2, <1>4, <1>6 DEF FrameAt, size

\* A record that begins at i, where nothing waits, is taken.
LEMMA BeginsIsTaken ==
  ASSUME NEW bytes \in Seq(Nat), NEW i \in 1 .. Len(bytes) + 1, ~Waits(bytes, i),
         NEW crc, NEW f \in Frames, NEW q \in 1 .. Len(f), Begins(bytes, crc, f, i, q)
  PROVE  Takes(bytes, i)
<1>1. Len(bytes) \in Nat /\ i \in Nat /\ i >= 1 /\ i <= Len(bytes)
  BY LenProperties DEF Waits
<1>2. /\ f \in Seq(Nat) /\ Len(f) \in Nat /\ Len(f) >= 5
      /\ f[1] = Sync0 /\ f[2] = Sync1 /\ f[3] \in Ids
      /\ f[4] \in Nat /\ f[4] <= MaxArgs /\ Len(f) = FrameSize(f[4])
  BY FrameHas
<1>3. \A k \in 1 .. q : i + k - 1 <= Len(bytes) /\ bytes[i + k - 1] = f[k]
  BY DEF Begins
<1>4. q = Len(f) \/ i + q - 1 = Len(bytes)
  BY DEF Begins
<1>5. q # 1
  <2> SUFFICES ASSUME q = 1 PROVE FALSE
    OBVIOUS
  <2>1. i = Len(bytes)
    BY <1>1, <1>2, <1>4
  <2>2. bytes[i] = f[1]
    BY <1>1, <1>3
  <2> QED BY <1>2, <2>1, <2>2 DEF Waits
<1>6. bytes[i] = f[1] /\ bytes[i + 1] = f[2] /\ i + 1 <= Len(bytes)
  <2>1. 1 \in 1 .. q /\ 2 \in 1 .. q
    BY <1>2, <1>5
  <2>2. i + 1 - 1 = i /\ i + 2 - 1 = i + 1
    BY <1>1
  <2> QED BY <1>3, <2>1, <2>2
<1>7. MarkerAt(bytes, i)
  BY <1>1, <1>2, <1>6 DEF MarkerAt
<1>8. i + 4 <= Len(bytes)
  BY <1>1, <1>7 DEF Waits
<1>9. q >= 5
  <2>1. q \in Nat /\ Len(f) \in Nat /\ Len(f) >= 5
    BY <1>2
  <2> QED BY ONLY <1>1, <1>4, <1>8, <2>1
<1>10. bytes[i + 2] = f[3] /\ bytes[i + 3] = f[4]
  <2>1. 3 \in 1 .. q /\ 4 \in 1 .. q
    BY <1>9
  <2>2. i + 3 - 1 = i + 2 /\ i + 4 - 1 = i + 3
    BY <1>1
  <2> QED BY <1>3, <2>1, <2>2
<1>11. Claims(bytes, i) /\ SizeAt(bytes, i) = Len(f)
  BY <1>2, <1>7, <1>8, <1>10 DEF Claims, SizeAt
<1>12. i + Len(f) - 1 <= Len(bytes)
  BY <1>1, <1>2, <1>11 DEF Waits
<1>13. q = Len(f)
  BY <1>1, <1>2, <1>4, <1>12
<1>14. SubSeq(bytes, i, i + Len(f) - 1) = f
  <2> DEFINE t == SubSeq(bytes, i, i + Len(f) - 1)
  <2>1. (i + Len(f) - 1) - i + 1 = Len(f) /\ i <= i + Len(f) - 1
        /\ i + Len(f) - 1 \in Int /\ i \in Int
    <3>1. Len(f) \in Nat /\ Len(f) >= 5
      BY <1>2
    <3> QED BY ONLY <1>1, <3>1
  <2>2. t \in Seq(Nat) /\ Len(t) = Len(f) /\ \A k \in 1 .. Len(f) : t[k] = bytes[i + k - 1]
    <3>1. \A k \in i .. i + Len(f) - 1 : k \in 1 .. Len(bytes)
      BY <1>1, <1>2, <1>12
    <3>2. \A k \in i .. i + Len(f) - 1 : bytes[k] \in Nat
      BY <3>1, ElementOfSeq
    <3> QED BY <2>1, <3>2, SubSeqProperties
  <2> HIDE DEF t
  <2>3. t = f
    BY <1>2, <1>3, <1>13, <2>2, SeqEqual
  <2> QED BY <2>3 DEF t
<1> QED
  BY <1>11, <1>12, <1>14 DEF Takes, FrameAt, Checked

LEMMA ReadsWaiting ==
  ASSUME NEW bytes \in Seq(Nat), NEW crc, NEW i \in 1 .. Len(bytes) + 1, Waits(bytes, i)
  PROVE  Reads(bytes, crc, i, <<>>, [n \in 1 .. 0 |-> 0], i)
<1>1. i \in i .. Len(bytes) + 1 /\ i .. i - 1 = {} /\ 1 .. Len(<<>>) = {} /\ 1 .. 0 = {}
  BY LenProperties
<1>2. <<>> \in Seq(Frames)
  OBVIOUS
<1> QED
  BY <1>1, <1>2 DEF Reads

LEMMA ReadsSkip ==
  ASSUME NEW bytes \in Seq(Nat), NEW crc,
         NEW i \in 1 .. Len(bytes), ~Waits(bytes, i), ~Takes(bytes, i),
         NEW records, NEW ends, NEW r, Reads(bytes, crc, i + 1, records, ends, r)
  PROVE  Reads(bytes, crc, i, records, ends, r)
<1>1. Len(bytes) \in Nat /\ i \in Nat /\ i \in 1 .. Len(bytes) + 1
  BY LenProperties
<1>2. r \in i + 1 .. Len(bytes) + 1 /\ r \in i .. Len(bytes) + 1 /\ i + 1 .. r - 1 \subseteq i .. r - 1
      /\ \A s \in i .. r - 1 : s = i \/ s \in i + 1 .. r - 1
  BY <1>1 DEF Reads
<1>3. records \in Seq(Frames) /\ ends \in [1 .. Len(records) -> i .. r - 1]
  BY <1>2 DEF Reads
<1>4. ASSUME NEW f \in Frames, NEW s \in i .. r - 1, NEW q \in 1 .. Len(f),
             Begins(bytes, crc, f, s, q)
      PROVE  q = Len(f) /\ \E n \in 1 .. Len(records) : ends[n] = s + Len(f) - 1
  <2>1. s # i
    BY <1>1, <1>4, BeginsIsTaken
  <2> QED BY <1>2, <1>4, <2>1 DEF Reads
<1> QED
  BY <1>2, <1>3, <1>4 DEF Reads

\* Records are not within one another: a part of f from s on, over or behind the end of
\* the record at i, is that record or begins behind it.
LEMMA BeginsBehind ==
  ASSUME NEW bytes \in Seq(Nat), NEW crc, NEW i \in 1 .. Len(bytes) + 1, Takes(bytes, i),
         Proper(bytes, crc, i),
         NEW f \in Frames, NEW s \in i .. i + SizeAt(bytes, i) - 1, NEW q \in 1 .. Len(f),
         Begins(bytes, crc, f, s, q)
  PROVE  q = Len(f) /\ i + SizeAt(bytes, i) - 1 = s + Len(f) - 1
<1> DEFINE size == SizeAt(bytes, i)
           frame == FrameAt(bytes, i)
           end == i + size - 1
<1>1. Len(frame) = size /\ size \in Nat /\ size >= 5 /\ end <= Len(bytes)
  BY TakesFrame
<1>2. /\ Len(bytes) \in Nat /\ i \in Nat /\ i >= 1 /\ s \in Nat /\ s >= i /\ s <= end
  BY <1>1, LenProperties, SMTT(30)
<1>3. Len(f) \in Nat /\ f # <<>> /\ q \in Nat /\ q >= 1 /\ q <= Len(f)
  BY FrameHas, FramesAreSequences
<1>4. /\ \A k \in 1 .. q : /\ s + k - 1 <= Len(bytes)
                           /\ crc[s + k - 1] = IF k = Len(f) THEN f ELSE <<>>
      /\ q = Len(f) \/ s + q - 1 = Len(bytes)
  <2>1. /\ \A k \in 1 .. q : s + k - 1 <= Len(bytes) /\ crc[s + k - 1] = CrcIn(f)[k]
        /\ q = Len(f) \/ s + q - 1 = Len(bytes)
    BY DEF Begins
  <2>2. \A k \in 1 .. q : k \in 1 .. Len(f)
    BY <1>3
  <2>3. \A k \in 1 .. Len(f) : CrcIn(f)[k] = IF k = Len(f) THEN f ELSE <<>>
    BY DEF CrcIn
  <2> QED BY <2>1, <2>2, <2>3
<1>5. \A k \in 1 .. size : crc[i + k - 1] = IF k = size THEN frame ELSE <<>>
  BY DEF Proper
<1> HIDE DEF size, frame
<1>6. frame # <<>>
  <2>1. Len(<<>>) = 0
    OBVIOUS
  <2> QED BY <1>1, <2>1
<1> DEFINE k == end - s + 1
<1>7. k \in Nat /\ k >= 1 /\ s + k - 1 = end
  BY <1>1, <1>2
<1>8. end \in Nat /\ end = i + size - 1
  BY <1>1, <1>2
<1> HIDE DEF end, k
<1>9. CASE k <= q
  <2>1. k \in 1 .. q
    BY <1>3, <1>7, <1>9
  <2>2. crc[end] = IF k = Len(f) THEN f ELSE <<>>
    BY <1>4, <1>7, <2>1
  <2>3. crc[end] = frame
    <3>1. size \in 1 .. size
      BY <1>1
    <3> QED BY <1>5, <1>8, <3>1
  <2>4. k = Len(f)
    BY <1>6, <2>2, <2>3
  <2>5. q = Len(f) /\ end = s + Len(f) - 1
    BY ONLY <1>3, <1>7, <1>9, <2>4
  <2> QED BY <2>5 DEF end, size
<1>10. CASE k > q
  <2>1. s + q - 1 < end /\ s + q - 1 >= i /\ s + q - 1 # Len(bytes)
    BY ONLY <1>1, <1>2, <1>3, <1>7, <1>8, <1>10
  <2>2. q = Len(f)
    BY <1>4, <2>1
  <2> DEFINE j == s + q - i
  <2>3. j \in 1 .. size /\ i + j - 1 = s + q - 1 /\ j # size
    BY ONLY <1>1, <1>2, <1>3, <1>8, <2>1
  <2> HIDE DEF j
  <2>4. crc[s + q - 1] = f
    <3>1. q \in 1 .. q
      BY <1>3
    <3> QED BY <1>4, <2>2, <3>1
  <2>5. crc[s + q - 1] = <<>>
    BY <1>5, <2>3
  <2> QED BY <1>3, <2>4, <2>5
<1>11. k <= q \/ k > q
  BY ONLY <1>3, <1>7
<1> QED
  BY <1>8, <1>9, <1>10, <1>11 DEF size

LEMMA ReadsTake ==
  ASSUME NEW bytes \in Seq(Nat), NEW crc \in Marks, Len(bytes) <= Len(crc),
         NEW i \in 1 .. Len(bytes) + 1, Takes(bytes, i), Proper(bytes, crc, i),
         NEW records, NEW ends, NEW r, Reads(bytes, crc, i + SizeAt(bytes, i), records, ends, r)
  PROVE  \E ends2 : Reads(bytes, crc, i, <<FrameAt(bytes, i)>> \o records, ends2, r)
<1> DEFINE size == SizeAt(bytes, i)
           frame == FrameAt(bytes, i)
           end == i + size - 1
           all == <<frame>> \o records
           ends2 == [n \in 1 .. Len(all) |-> IF n = 1 THEN end ELSE ends[n - 1]]
<1>1. Len(frame) = size /\ size \in Nat /\ size >= 5 /\ end <= Len(bytes)
  BY TakesFrame
<1>2. /\ Len(bytes) \in Nat /\ Len(crc) \in Nat /\ i \in Nat /\ i >= 1
  BY LenProperties DEF Marks
<1>3. /\ r \in i + size .. Len(bytes) + 1 /\ Waits(bytes, r)
      /\ records \in Seq(Frames) /\ ends \in [1 .. Len(records) -> i + size .. r - 1]
      /\ \A n \in 1 .. Len(records) : crc[ends[n]] = records[n]
      /\ \A m, n \in 1 .. Len(records) : m < n => ends[m] < ends[n]
      /\ \A f \in Frames, s \in i + size .. r - 1 : \A q \in 1 .. Len(f) :
           Begins(bytes, crc, f, s, q) =>
             q = Len(f) /\ \E n \in 1 .. Len(records) : ends[n] = s + Len(f) - 1
  BY DEF Reads
<1>4. crc[end] = frame
  <2>1. \A k \in 1 .. size : crc[i + k - 1] = IF k = size THEN frame ELSE <<>>
    BY DEF Proper
  <2>2. size \in 1 .. size
    BY <1>1
  <2> HIDE DEF size, frame
  <2> QED BY <2>1, <2>2
<1>5. \A f \in Frames, s \in i .. end : \A q \in 1 .. Len(f) :
        Begins(bytes, crc, f, s, q) => q = Len(f) /\ end = s + Len(f) - 1
  BY BeginsBehind
<1> HIDE DEF size, frame
<1>15. frame \in Frames
  <2>1. end \in 1 .. Len(crc)
    BY <1>1, <1>2
  <2>2. frame \in Frames \cup {<<>>}
    <3> HIDE DEF end
    <3> QED BY <1>4, <2>1, ElementOfSeq DEF Marks
  <2>3. frame # <<>>
    <3>1. Len(<<>>) = 0
      OBVIOUS
    <3> QED BY <1>1, <3>1
  <2> QED BY <2>2, <2>3
<1>6. Len(records) \in Nat
  BY <1>3, LenProperties
<1>7. /\ all \in Seq(Frames) /\ Len(all) = Len(records) + 1 /\ all[1] = frame
      /\ \A n \in 1 .. Len(all) : n # 1 => n - 1 \in 1 .. Len(records) /\ all[n] = records[n - 1]
  <2>1. <<frame>> \in Seq(Frames) /\ Len(<<frame>>) = 1 /\ <<frame>>[1] = frame
    BY <1>15
  <2>2. /\ all \in Seq(Frames) /\ Len(all) = 1 + Len(records)
        /\ \A n \in 1 .. 1 + Len(records) :
             all[n] = IF n <= 1 THEN <<frame>>[n] ELSE records[n - 1]
    BY <1>3, <2>1, ConcatProperties
  <2> HIDE DEF all
  <2>3. all[1] = frame
    BY <1>6, <2>1, <2>2
  <2>4. ASSUME NEW n \in 1 .. Len(all), n # 1
        PROVE  n - 1 \in 1 .. Len(records) /\ all[n] = records[n - 1]
    <3>1. n \in 1 .. 1 + Len(records) /\ ~(n <= 1) /\ n - 1 \in 1 .. Len(records)
      BY <1>6, <2>2, <2>4
    <3> QED BY <2>2, <3>1
  <2> QED BY <1>6, <2>2, <2>3, <2>4
<1> HIDE DEF all
<1>8. /\ r \in Nat /\ end \in i .. r - 1 /\ r \in i .. Len(bytes) + 1
      /\ i + size .. r - 1 \subseteq i .. r - 1 /\ (\A e \in i + size .. r - 1 : end < e)
      /\ \A s \in i .. r - 1 : s \in i .. end \/ s \in i + size .. r - 1
  <2>1. size \in Nat /\ size >= 5 /\ r \in i + size .. Len(bytes) + 1
    BY <1>1, <1>3
  <2> QED BY ONLY <1>2, <2>1
<1> HIDE DEF end
<1>9. ends2[1] = end /\ \A n \in 1 .. Len(records) : n + 1 \in 1 .. Len(all) /\ ends2[n + 1] = ends[n]
  BY <1>6, <1>7
<1>10. \A n \in 1 .. Len(all) : n # 1 => n - 1 \in 1 .. Len(records) /\ ends2[n] = ends[n - 1]
  BY <1>6, <1>7
<1>11. ends2 \in [1 .. Len(all) -> i .. r - 1]
  <2>1. \A n \in 1 .. Len(all) : ends2[n] \in i .. r - 1
    <3>1. \A n \in 1 .. Len(records) : ends[n] \in i + size .. r - 1
      BY <1>3
    <3> HIDE DEF ends2
    <3> QED BY <1>8, <1>9, <1>10, <3>1
  <2> QED BY <2>1
<1> HIDE DEF ends2
<1>12. ASSUME NEW n \in 1 .. Len(all)
       PROVE  crc[ends2[n]] = all[n]
  <2>1. CASE n = 1
    BY <1>4, <1>7, <1>9, <2>1
  <2>2. CASE n # 1
    <3>1. n - 1 \in 1 .. Len(records) /\ ends2[n] = ends[n - 1] /\ all[n] = records[n - 1]
      BY <1>7, <1>10, <2>2
    <3> QED BY <1>3, <3>1
  <2> QED BY <2>1, <2>2
<1>13. ASSUME NEW m \in 1 .. Len(all), NEW n \in 1 .. Len(all), m < n
       PROVE  ends2[m] < ends2[n]
  <2>1. n # 1 /\ m \in Nat /\ n \in Nat
    BY <1>6, <1>7, <1>13
  <2>2. n - 1 \in 1 .. Len(records) /\ ends2[n] = ends[n - 1] /\ ends[n - 1] \in i + size .. r - 1
    BY <1>3, <1>10, <2>1
  <2>3. CASE m = 1
    BY <1>8, <1>9, <2>2, <2>3
  <2>4. CASE m # 1
    <3>1. m - 1 \in 1 .. Len(records) /\ ends2[m] = ends[m - 1] /\ m - 1 < n - 1
      BY <1>10, <1>13, <2>1, <2>4
    <3> QED BY <1>3, <2>2, <3>1
  <2> QED BY <2>3, <2>4
<1>14. ASSUME NEW f \in Frames, NEW s \in i .. r - 1, NEW q \in 1 .. Len(f),
              Begins(bytes, crc, f, s, q)
       PROVE  q = Len(f) /\ \E n \in 1 .. Len(all) : ends2[n] = s + Len(f) - 1
  <2>1. CASE s \in i .. end
    <3>1. 1 \in 1 .. Len(all)
      BY <1>6, <1>7
    <3> QED BY <1>5, <1>9, <1>14, <2>1, <3>1
  <2>2. CASE s \in i + size .. r - 1
    BY <1>3, <1>9, <1>14, <2>2
  <2> QED BY <1>8, <2>1, <2>2
<1> QED
  <2>1. Reads(bytes, crc, i, all, ends2, r)
    BY <1>3, <1>7, <1>8, <1>11, <1>12, <1>13, <1>14 DEF Reads
  <2> QED BY <2>1 DEF frame, all

\* What is taken has the CRCs that it claims, for records that begin at starts.
EarnestIn(crc, records, starts) ==
  \A n \in DOMAIN records :
    LET f == records[n] IN SubSeq(crc, starts[n], starts[n] + Len(f) - 1) = CrcIn(f)

\* One element in front of a sequence.
LEMMA InFront ==
  ASSUME NEW X, NEW one \in Seq(X), NEW more \in Seq(X), Len(one) = 1
  PROVE  one \o more \in Seq(X) /\ Len(one \o more) = 1 + Len(more)
<1>1. one \o more \in Seq(X) /\ Len(one \o more) = Len(one) + Len(more)
  BY ConcatProperties
<1> QED BY <1>1

\* The first record taken and all behind it are earnest when all are.
LEMMA EarnestTake ==
  ASSUME NEW bytes \in Seq(Nat), NEW crc \in Marks, Len(bytes) <= Len(crc),
         NEW i \in 1 .. Len(bytes) + 1, Takes(bytes, i),
         NEW records \in Seq(Checked), NEW starts \in Seq(Nat), Len(starts) = Len(records),
         EarnestIn(crc, <<FrameAt(bytes, i)>> \o records, <<i>> \o starts)
  PROVE  Proper(bytes, crc, i) /\ EarnestIn(crc, records, starts)
<1> DEFINE frame == FrameAt(bytes, i)
           size == SizeAt(bytes, i)
           all == <<frame>> \o records
           from == <<i>> \o starts
           K == Len(records)
<1>1. /\ frame \in Checked /\ Len(frame) = size /\ size \in Nat /\ size >= 5
      /\ i + size - 1 <= Len(bytes)
  BY TakesFrame
<1>2. Len(bytes) \in Nat /\ Len(crc) \in Nat /\ i \in Nat /\ i >= 1 /\ K \in Nat
  BY LenProperties DEF Marks
<1>3. /\ DOMAIN records = 1 .. K
      /\ \A n \in DOMAIN all :
           SubSeq(crc, from[n], from[n] + Len(all[n]) - 1) = CrcIn(all[n])
  BY LenProperties DEF EarnestIn
<1> HIDE DEF frame, size
<1>4. /\ DOMAIN all = 1 .. K + 1 /\ all[1] = frame
      /\ \A n \in 1 .. K : n + 1 \in 1 .. K + 1 /\ all[n + 1] = records[n]
  <2>1. <<frame>> \in Seq(Checked) /\ Len(<<frame>>) = 1 /\ <<frame>>[1] = frame
    BY <1>1
  <2>2. /\ all \in Seq(Checked) /\ Len(all) = 1 + K
        /\ \A n \in 1 .. 1 + K : all[n] = IF n <= 1 THEN <<frame>>[n] ELSE records[n - 1]
    BY <2>1, ConcatProperties
  <2> HIDE DEF all, K
  <2>3. DOMAIN all = 1 .. K + 1
    BY <1>2, <2>2, LenProperties
  <2>4. 1 \in 1 .. 1 + K /\ \A n \in 1 .. K : /\ n + 1 \in 1 .. 1 + K /\ ~(n + 1 <= 1)
                                              /\ (n + 1) - 1 = n /\ n + 1 \in 1 .. K + 1
    BY <1>2
  <2> QED BY <2>1, <2>2, <2>3, <2>4
<1>5. from[1] = i /\ \A n \in 1 .. K : from[n + 1] = starts[n]
  <2>1. <<i>> \in Seq(Nat) /\ Len(<<i>>) = 1 /\ <<i>>[1] = i
    BY <1>2
  <2>2. \A n \in 1 .. 1 + K : from[n] = IF n <= 1 THEN <<i>>[n] ELSE starts[n - 1]
    BY <2>1, ConcatProperties
  <2> HIDE DEF from, K
  <2>3. 1 \in 1 .. 1 + K /\ \A n \in 1 .. K : /\ n + 1 \in 1 .. 1 + K /\ ~(n + 1 <= 1)
                                              /\ (n + 1) - 1 = n
    BY <1>2
  <2> QED BY <2>1, <2>2, <2>3
<1> HIDE DEF all, from
<1>6. SubSeq(crc, i, i + size - 1) = CrcIn(frame)
  <2>1. 1 \in DOMAIN all
    BY <1>2, <1>4
  <2> QED BY <1>1, <1>3, <1>4, <1>5, <2>1
<1>7. \A k \in 1 .. size : crc[i + k - 1] = IF k = size THEN frame ELSE <<>>
  <2>1. i \in Int /\ i + size - 1 \in Int /\ (i + size - 1) - i + 1 = size
    BY <1>1, <1>2
  <2>2. \A k \in i .. i + size - 1 : crc[k] \in Frames \cup {<<>>}
    <3>1. \A k \in i .. i + size - 1 : k \in 1 .. Len(crc)
      BY <1>1, <1>2
    <3> QED BY <3>1, ElementOfSeq DEF Marks
  <2>3. \A k \in 1 .. (i + size - 1) - i + 1 : SubSeq(crc, i, i + size - 1)[k] = crc[i + k - 1]
    BY <2>1, <2>2, SubSeqProperties
  <2>4. \A k \in 1 .. size : CrcIn(frame)[k] = IF k = size THEN frame ELSE <<>>
    BY <1>1 DEF CrcIn
  <2> QED BY <1>6, <2>1, <2>3, <2>4
<1>8. ASSUME NEW n \in 1 .. K
      PROVE  SubSeq(crc, starts[n], starts[n] + Len(records[n]) - 1) = CrcIn(records[n])
  <2>1. n + 1 \in DOMAIN all /\ all[n + 1] = records[n] /\ from[n + 1] = starts[n]
    BY <1>4, <1>5
  <2> QED BY <1>3, <2>1
<1>9. Proper(bytes, crc, i)
  BY <1>7 DEF Proper, frame, size
<1> QED
  BY <1>3, <1>8, <1>9 DEF EarnestIn

\* Scan reads all bytes.
LEMMA ScanReads ==
  ASSUME NEW bytes \in Seq(Nat), NEW crc \in Marks, Len(bytes) <= Len(crc),
         EarnestIn(crc, Scan(bytes).records, Scan(bytes).starts)
  PROVE  \E ends, r : /\ Reads(bytes, crc, 1, Scan(bytes).records, ends, r)
                      /\ Scan(bytes).rest = From(bytes, r)
<1>1. PICK g : /\ \A i \in 1 .. LastIndex(bytes) : g[i] = Found(g, bytes, i)
               /\ Scan(bytes) = g[1]
  BY ScanIs
<1> DEFINE L == Len(bytes)
           Result(records, starts, r) ==
             [records |-> records, starts |-> starts, rest |-> From(bytes, r)]
           Good(i) ==
             \E records, starts, r :
               /\ records \in Seq(Checked) /\ starts \in Seq(Nat)
               /\ g[i] = Result(records, starts, r) /\ Len(starts) = Len(records)
               /\ EarnestIn(crc, records, starts)
                    => \E ends : Reads(bytes, crc, i, records, ends, r)
           S == {n \in Nat : \A i \in 1 .. L + 1 : i + n > L => Good(i)}
<1>2. L \in Nat /\ LastIndex(bytes) \in Nat /\ LastIndex(bytes) >= L + 1
  BY LenProperties, TraceConstants DEF LastIndex
<1>3. ASSUME NEW i \in 1 .. L + 1, \A j \in 1 .. L + 1 : j > i => Good(j)
      PROVE  Good(i)
  <2>1. g[i] = Found(g, bytes, i)
    BY <1>1, <1>2
  <2>2. CASE Waits(bytes, i)
    <3>1. Reads(bytes, crc, i, <<>>, [n \in 1 .. 0 |-> 0], i)
      BY <2>2, ReadsWaiting
    <3>2. g[i] = Result(<<>>, <<>>, i)
      BY <2>1, <2>2 DEF Found
    <3>3. <<>> \in Seq(Checked) /\ <<>> \in Seq(Nat) /\ Len(<<>>) = Len(<<>>)
      OBVIOUS
    <3> HIDE DEF Result
    <3> QED BY <3>1, <3>2, <3>3
  <2>3. CASE ~Waits(bytes, i) /\ Takes(bytes, i)
    <3> DEFINE j == i + SizeAt(bytes, i)
               F == <<FrameAt(bytes, i)>>
               I == <<i>>
    <3>1. j \in 1 .. L + 1 /\ j > i
      <4> DEFINE size == SizeAt(bytes, i)
      <4>1. size \in Nat /\ size >= 5 /\ i + size - 1 <= L
        BY <2>3, TakesFrame
      <4> HIDE DEF size
      <4>2. i + size \in 1 .. L + 1 /\ i + size > i
        BY <1>2, <4>1
      <4> QED BY <4>2 DEF size
    <3>2. PICK records, starts, r :
            /\ records \in Seq(Checked) /\ starts \in Seq(Nat)
            /\ g[j] = Result(records, starts, r) /\ Len(starts) = Len(records)
            /\ EarnestIn(crc, records, starts)
                 => \E ends : Reads(bytes, crc, j, records, ends, r)
      <4>1. Good(j)
        BY <1>3, <3>1
      <4> HIDE DEF Result
      <4> QED BY <4>1
    <3>3. g[i] = [g[j] EXCEPT !.records = F \o @, !.starts = I \o @]
      BY <2>1, <2>3 DEF Found
    <3>4. F \in Seq(Checked) /\ Len(F) = 1 /\ I \in Seq(Nat) /\ Len(I) = 1
      BY <2>3, TakesFrame
    <3>5. EarnestIn(crc, F \o records, I \o starts)
            => \E ends : Reads(bytes, crc, i, F \o records, ends, r)
      <4> SUFFICES ASSUME EarnestIn(crc, F \o records, I \o starts)
                   PROVE  \E ends : Reads(bytes, crc, i, F \o records, ends, r)
        OBVIOUS
      <4>1. Proper(bytes, crc, i) /\ EarnestIn(crc, records, starts)
        BY <2>3, <3>2, EarnestTake
      <4>2. PICK ends : Reads(bytes, crc, j, records, ends, r)
        BY <3>2, <4>1
      <4> QED BY <2>3, <4>1, <4>2, ReadsTake
    <3> HIDE DEF j, F, I
    <3>6. /\ F \o records \in Seq(Checked) /\ I \o starts \in Seq(Nat)
          /\ Len(I \o starts) = Len(F \o records)
      <4>3. /\ F \in Seq(Checked) /\ records \in Seq(Checked) /\ Len(F) = 1
            /\ I \in Seq(Nat) /\ starts \in Seq(Nat) /\ Len(I) = 1
        BY <3>2, <3>4
      <4>1. F \o records \in Seq(Checked) /\ Len(F \o records) = 1 + Len(records)
        BY ONLY <4>3, InFront
      <4>2. I \o starts \in Seq(Nat) /\ Len(I \o starts) = 1 + Len(starts)
        BY ONLY <4>3, InFront
      <4> QED BY <3>2, <4>1, <4>2
    <3>7. g[i] = Result(F \o records, I \o starts, r)
      <4> DEFINE x == Result(records, starts, r)
      <4>1. g[i] = [x EXCEPT !.records = F \o @, !.starts = I \o @]
        BY <3>2, <3>3
      <4> QED BY <4>1
    <3> HIDE DEF Result
    <3> QED BY <3>5, <3>6, <3>7
  <2>4. CASE ~Waits(bytes, i) /\ ~Takes(bytes, i)
    <3> HIDE DEF Result
    <3>1. i \in 1 .. L /\ i + 1 \in 1 .. L + 1 /\ i + 1 > i
      BY <1>2, <2>4 DEF Waits
    <3>2. PICK records, starts, r :
            /\ records \in Seq(Checked) /\ starts \in Seq(Nat)
            /\ g[i + 1] = Result(records, starts, r) /\ Len(starts) = Len(records)
            /\ EarnestIn(crc, records, starts)
                 => \E ends : Reads(bytes, crc, i + 1, records, ends, r)
      BY <1>3, <3>1
    <3>3. EarnestIn(crc, records, starts) => \E ends : Reads(bytes, crc, i, records, ends, r)
      BY <2>4, <3>1, <3>2, ReadsSkip
    <3>4. g[i] = g[i + 1]
      BY <2>1, <2>4 DEF Found
    <3> QED BY <3>2, <3>3, <3>4
  <2> QED BY <2>2, <2>3, <2>4
<1> HIDE DEF Good, L
<1>4. 0 \in S
  <2>1. ASSUME NEW i \in 1 .. L + 1, i + 0 > L
        PROVE  Good(i)
    <3>1. \A j \in 1 .. L + 1 : ~(j > i)
      BY <1>2, <2>1
    <3> QED BY <1>3, <3>1
  <2> QED BY <2>1
<1>5. ASSUME NEW n \in Nat, n \in S
      PROVE  n + 1 \in S
  <2>1. ASSUME NEW i \in 1 .. L + 1, i + (n + 1) > L
        PROVE  Good(i)
    <3>1. \A j \in 1 .. L + 1 : j > i => j + n > L
      BY <1>2, <2>1
    <3>2. \A j \in 1 .. L + 1 : j > i => Good(j)
      BY <1>5, <3>1
    <3> QED BY <1>3, <3>2
  <2> QED BY <2>1
<1> HIDE DEF S
<1>6. L \in S
  BY <1>2, <1>4, <1>5, Induction
<1>7. 1 \in 1 .. L + 1 /\ 1 + L > L
  BY <1>2
<1>8. Good(1)
  BY <1>6, <1>7 DEF S
<1> HIDE DEF Result
<1>9. PICK records, starts, r :
        /\ records \in Seq(Checked) /\ starts \in Seq(Nat)
        /\ g[1] = Result(records, starts, r)
        /\ EarnestIn(crc, records, starts)
             => \E ends : Reads(bytes, crc, 1, records, ends, r)
  BY <1>8 DEF Good
<1>10. /\ Scan(bytes).records = records /\ Scan(bytes).starts = starts
       /\ Scan(bytes).rest = From(bytes, r)
  BY <1>1, <1>9 DEF Result
<1> QED
  BY <1>9, <1>10

\* What is left of a sequence from r on.
LEMMA FromIs ==
  ASSUME NEW X, NEW xs \in Seq(X), NEW r \in 1 .. Len(xs) + 1
  PROVE  /\ From(xs, r) \in Seq(X) /\ Len(From(xs, r)) = Len(xs) - r + 1
         /\ \A k \in 1 .. Len(xs) - r + 1 : From(xs, r)[k] = xs[r + k - 1]
<1>1. Len(xs) \in Nat /\ r \in Int /\ Len(xs) \in Int
  BY LenProperties
<1>2. \A k \in r .. Len(xs) : k \in 1 .. Len(xs)
  BY <1>1
<1>3. \A k \in r .. Len(xs) : xs[k] \in X
  BY <1>2, ElementOfSeq
<1>4. /\ From(xs, r) \in Seq(X)
      /\ Len(From(xs, r)) = IF r <= Len(xs) THEN Len(xs) - r + 1 ELSE 0
      /\ \A k \in 1 .. Len(xs) - r + 1 : From(xs, r)[k] = xs[r + k - 1]
  BY <1>1, <1>3, SubSeqProperties DEF From
<1>5. ~(r <= Len(xs)) => Len(xs) - r + 1 = 0
  BY <1>1
<1> QED
  BY <1>4, <1>5

Upto(xs, n) == SubSeq(xs, 1, n)
Both(xs, ys) == xs \o ys

\* The host reads n bytes of the line behind its buffer and keeps what begins at r.
LEMMA StreamRead ==
  ASSUME NEW buf \in Seq(Nat), NEW lin \in Seq(Nat), NEW n \in 1 .. Len(lin),
         NEW r \in 1 .. Len(Both(buf, Upto(lin, n))) + 1
  PROVE  LET bytes == Both(buf, Upto(lin, n))
             before == Both(buf, lin)
             after == Both(From(bytes, r), From(lin, n + 1))
         IN /\ bytes \in Seq(Nat) /\ before \in Seq(Nat) /\ after \in Seq(Nat)
            /\ From(bytes, r) \in Seq(Nat) /\ From(lin, n + 1) \in Seq(Nat)
            /\ Len(bytes) <= Len(before)
            /\ \A k \in 1 .. Len(bytes) : bytes[k] = before[k]
            /\ Len(after) = Len(before) - r + 1
            /\ \A k \in 1 .. Len(after) : after[k] = before[r + k - 1]
<1> DEFINE head == SubSeq(lin, 1, n)
           tail == From(lin, n + 1)
           bytes == Both(buf, Upto(lin, n))
           before == Both(buf, lin)
           kept == From(bytes, r)
           after == Both(kept, tail)
           b == Len(buf)
           l == Len(lin)
<1>1. b \in Nat /\ l \in Nat /\ n \in Nat /\ n <= l /\ n >= 1
  BY LenProperties
<1>2. head \in Seq(Nat) /\ Len(head) = n /\ \A k \in 1 .. n : head[k] = lin[k]
  <2>1. \A k \in 1 .. n : k \in 1 .. l
    BY <1>1
  <2>2. \A k \in 1 .. n : lin[k] \in Nat
    BY <2>1, ElementOfSeq
  <2>3. 1 \in Int /\ n \in Int /\ 1 <= n /\ n - 1 + 1 = n
    BY <1>1
  <2>4. \A k \in 1 .. n : 1 + k - 1 = k
    BY <1>1
  <2> QED BY <2>2, <2>3, <2>4, SubSeqProperties
<1>3. tail \in Seq(Nat) /\ Len(tail) = l - n /\ \A k \in 1 .. l - n : tail[k] = lin[n + k]
  <2>1. n + 1 \in 1 .. l + 1 /\ l - (n + 1) + 1 = l - n
    BY <1>1
  <2>2. \A k \in 1 .. l - n : n + 1 + k - 1 = n + k
    BY <1>1
  <2>3. /\ tail \in Seq(Nat) /\ Len(tail) = l - (n + 1) + 1
        /\ \A k \in 1 .. l - (n + 1) + 1 : tail[k] = lin[n + 1 + k - 1]
    BY <2>1, FromIs
  <2> HIDE DEF tail, l
  <2>4. \A k \in 1 .. l - n : tail[k] = lin[n + 1 + k - 1]
    BY <2>1, <2>3
  <2>5. \A k \in 1 .. l - n : tail[k] = lin[n + k]
    BY <2>2, <2>4
  <2> QED BY <2>1, <2>3, <2>5
<1>13. bytes = buf \o head /\ before = buf \o lin
  BY DEF Both, Upto
<1>7. r \in 1 .. Len(bytes) + 1
  OBVIOUS
<1> HIDE DEF head, tail, bytes, before
<1>4. /\ bytes \in Seq(Nat) /\ Len(bytes) = b + n
      /\ \A k \in 1 .. b + n : bytes[k] = IF k <= b THEN buf[k] ELSE head[k - b]
  <2> DEFINE c == buf \o head
  <2>1. /\ c \in Seq(Nat) /\ Len(c) = b + n
        /\ \A k \in 1 .. b + n : c[k] = IF k <= b THEN buf[k] ELSE head[k - b]
    BY <1>2, ConcatProperties
  <2> HIDE DEF c, b
  <2>2. bytes = c
    BY <1>13 DEF c
  <2> QED BY <2>1, <2>2
<1>5. /\ before \in Seq(Nat) /\ Len(before) = b + l
      /\ \A k \in 1 .. b + l : before[k] = IF k <= b THEN buf[k] ELSE lin[k - b]
  BY <1>13, ConcatProperties
<1> HIDE DEF b, l
<1>6. \A k \in 1 .. b + n : bytes[k] = before[k]
  <2>1. \A k \in 1 .. b + n : k \in 1 .. b + l /\ (~(k <= b) => k - b \in 1 .. n)
    BY <1>1
  <2> QED BY <1>2, <1>4, <1>5, <2>1
<1>9. r \in Nat /\ r >= 1 /\ r <= b + n + 1
  BY <1>1, <1>4, <1>7
<1>8. /\ kept \in Seq(Nat) /\ Len(kept) = b + n - r + 1
      /\ \A k \in 1 .. b + n - r + 1 : kept[k] = bytes[r + k - 1]
  <2>1. /\ kept \in Seq(Nat) /\ Len(kept) = Len(bytes) - r + 1
        /\ \A k \in 1 .. Len(bytes) - r + 1 : kept[k] = bytes[r + k - 1]
    BY <1>4, <1>7, FromIs
  <2> HIDE DEF kept
  <2>2. Len(bytes) = b + n
    BY <1>4
  <2> HIDE DEF bytes
  <2>3. Len(bytes) - r + 1 = b + n - r + 1
    BY ONLY <1>1, <1>9, <2>2
  <2> QED BY ONLY <2>1, <2>3
<1>14. after = kept \o tail
  BY DEF Both
<1> HIDE DEF kept, after
<1>10. /\ after \in Seq(Nat) /\ Len(after) = b + l - r + 1
       /\ \A k \in 1 .. b + l - r + 1 :
            after[k] = IF k <= b + n - r + 1 THEN kept[k] ELSE tail[k - (b + n - r + 1)]
  <2>1. /\ after \in Seq(Nat) /\ Len(after) = Len(kept) + Len(tail)
        /\ \A k \in 1 .. Len(kept) + Len(tail) :
            after[k] = IF k <= Len(kept) THEN kept[k] ELSE tail[k - Len(kept)]
    <3> DEFINE c == kept \o tail
    <3>1. /\ c \in Seq(Nat) /\ Len(c) = Len(kept) + Len(tail)
          /\ \A k \in 1 .. Len(kept) + Len(tail) :
              c[k] = IF k <= Len(kept) THEN kept[k] ELSE tail[k - Len(kept)]
      BY <1>3, <1>8, ConcatProperties
    <3> HIDE DEF c
    <3>2. after = c
      BY <1>14 DEF c
    <3> QED BY <3>1, <3>2
  <2>2. Len(kept) + Len(tail) = b + l - r + 1
    BY <1>1, <1>3, <1>8, <1>9
  <2> QED BY <1>8, <2>1, <2>2
<1>11. ASSUME NEW k \in 1 .. b + l - r + 1
       PROVE  after[k] = before[r + k - 1]
  <2>1. r + k - 1 \in 1 .. b + l
    BY <1>1, <1>9
  <2>2. CASE k <= b + n - r + 1
    <3>1. r + k - 1 \in 1 .. b + n /\ k \in 1 .. b + n - r + 1
      BY <1>1, <1>9, <2>2
    <3> QED BY <1>6, <1>8, <1>10, <2>2, <3>1
  <2>3. CASE ~(k <= b + n - r + 1)
    <3> DEFINE j == k - (b + n - r + 1)
    <3>1. /\ j \in 1 .. l - n /\ ~(r + k - 1 <= b) /\ (r + k - 1) - b = n + j
      BY <1>1, <1>9, <2>3
    <3> HIDE DEF j
    <3>2. before[r + k - 1] = lin[n + j]
      BY <1>5, <2>1, <3>1
    <3>3. after[k] = tail[j]
      BY <1>10, <2>3 DEF j
    <3> QED BY <1>3, <3>1, <3>2, <3>3
  <2> QED BY <2>2, <2>3
<1>12. Len(bytes) <= Len(before) /\ Len(after) = Len(before) - r + 1
  <2>1. Len(bytes) = b + n /\ Len(before) = b + l /\ Len(after) = b + l - r + 1
    BY <1>4, <1>5, <1>10
  <2> QED BY ONLY <1>1, <1>9, <2>1
<1> QED
  BY <1>3, <1>4, <1>5, <1>6, <1>8, <1>10, <1>11, <1>12 DEF tail, kept, after, bytes, before

\* What waits is shorter than the longest record, and no record is at its beginning.
WaitsForMore(buf) ==
  /\ Len(buf) < FrameSize(MaxArgs)
  /\ \A f \in Frames : Len(f) <= Len(buf) => \E k \in 1 .. Len(f) : buf[k] # f[k]

LEMMA WaitsShort ==
  ASSUME NEW bytes \in Seq(Nat), NEW r \in 1 .. Len(bytes) + 1, Waits(bytes, r)
  PROVE  WaitsForMore(From(bytes, r))
<1> DEFINE b == From(bytes, r)
           l == Len(bytes)
<1>1. l \in Nat /\ r \in Nat /\ r >= 1 /\ r <= l + 1
  BY LenProperties
<1>2. Len(b) = l - r + 1 /\ \A k \in 1 .. l - r + 1 : b[k] = bytes[r + k - 1]
  BY FromIs
<1>3. FrameSize(MaxArgs) \in Nat /\ FrameSize(MaxArgs) >= 5
  BY TraceConstants
<1> HIDE DEF b, l
<1>4. CASE r + 4 > l
  <2>1. Len(b) < 5
    BY ONLY <1>1, <1>2, <1>4
  <2>2. Len(b) \in Nat
    BY <1>1, <1>2
  <2>3. Len(b) < FrameSize(MaxArgs)
    BY ONLY <1>3, <2>1, <2>2
  <2>4. ASSUME NEW f \in Frames
        PROVE  ~(Len(f) <= Len(b))
    <3>1. Len(f) \in Nat /\ Len(f) >= 5
      BY FrameHas
    <3> QED BY ONLY <2>1, <2>2, <3>1
  <2> QED BY <2>3, <2>4 DEF WaitsForMore, b
<1>5. CASE r + 4 <= l
  <2> DEFINE args == bytes[r + 3]
  <2>1. r + 3 \in 1 .. Len(bytes)
    BY <1>1, <1>5 DEF l
  <2>2. args \in Nat
    BY <2>1, ElementOfSeq
  <2>3. args <= MaxArgs /\ r + FrameSize(args) - 1 > l
    BY <1>1, <1>5 DEF Waits, Claims, MarkerAt, SizeAt, l
  <2>4. b[4] = args
    <3>1. 4 \in 1 .. l - r + 1 /\ r + 4 - 1 = r + 3
      BY <1>1, <1>5
    <3> QED BY <1>2, <3>1
  <2> HIDE DEF args
  <2>5. Len(b) < FrameSize(args) /\ FrameSize(args) <= FrameSize(MaxArgs)
        /\ FrameSize(args) \in Nat /\ Len(b) \in Nat
    BY <1>1, <1>2, <2>2, <2>3, TraceConstants DEF FrameSize
  <2>6. Len(b) < FrameSize(MaxArgs)
    BY <1>3, <2>5
  <2>7. ASSUME NEW f \in Frames, Len(f) <= Len(b)
        PROVE  \E k \in 1 .. Len(f) : b[k] # f[k]
    <3>1. Len(f) \in Nat /\ Len(f) >= 5 /\ Len(f) = FrameSize(f[4])
      BY FrameHas
    <3>2. 4 \in 1 .. Len(f)
      BY <3>1
    <3>3. b[4] # f[4]
      <4> SUFFICES ASSUME f[4] = args PROVE FALSE
        BY <2>4
      <4>1. Len(f) = FrameSize(args)
        BY <3>1
      <4> QED BY <2>5, <2>7, <4>1
    <3> QED BY <3>2, <3>3
  <2> QED BY <2>6, <2>7 DEF WaitsForMore, b
<1>6. r + 4 > l \/ r + 4 <= l
  BY <1>1
<1> QED
  BY <1>4, <1>5, <1>6

(* What becomes of the records begun: each byte of the stream, that is of the *)
(* buffer and the line, is a unit of one of them.                           *)

\* Byte i of the stream is unit pos[i] of record of[i], in the order they were put.
Origins(S, bg, of, pos) ==
  /\ of \in [1 .. Len(S) -> 1 .. Len(bg)] /\ pos \in [1 .. Len(S) -> Nat]
  /\ \A i \in 1 .. Len(S) : pos[i] \in 1 .. Len(bg[of[i]]) /\ S[i] = bg[of[i]][pos[i]]
  /\ \A i, j \in 1 .. Len(S) :
       i < j => of[i] < of[j] \/ (of[i] = of[j] /\ pos[i] < pos[j])

\* And the CRC of that record is the last of its units.
Crcs(C, S, bg, of, pos) ==
  /\ Len(C) = Len(S)
  /\ \A i \in 1 .. Len(S) : C[i] = IF pos[i] = Len(bg[of[i]]) THEN bg[of[i]] ELSE <<>>

\* xs are the records at of those begun, in their order.
Chosen(xs, bg, at) ==
  /\ at \in [1 .. Len(xs) -> 1 .. Len(bg)]
  /\ \A n \in 1 .. Len(xs) : xs[n] = bg[at[n]]
  /\ \A m, n \in 1 .. Len(xs) : m < n => at[m] < at[n]

\* The first p units of record m are in the stream from s on, none missing.
Holds(S, of, pos, m, p, s) ==
  \A k \in 1 .. p : s + k - 1 \in 1 .. Len(S) /\ of[s + k - 1] = m /\ pos[s + k - 1] = k

\* Record m is decoded, or whole in the stream.
Arrived(S, bg, dec, of, pos, at, m) ==
  \/ \E d \in 1 .. Len(dec) : at[d] = m
  \/ \E s \in 1 .. Len(S) : Holds(S, of, pos, m, Len(bg[m]), s)

\* The records begun account for the stream, for what is decoded and for the log.
Ledger(S, bg, dec, lg, of, pos, at, put) ==
  /\ Origins(S, bg, of, pos) /\ Chosen(dec, bg, at) /\ Chosen(lg, bg, put)
  /\ \A d \in 1 .. Len(dec), i \in 1 .. Len(S) : at[d] < of[i]
  /\ \A n \in 1 .. Len(lg) : Arrived(S, bg, dec, of, pos, at, put[n])

\* The last record begun is rec, and rst is still to be put of it.
Putting(S, bg, dec, lg, of, pos, at, put, rec, rst) ==
  /\ bg # <<>> /\ bg[Len(bg)] = rec /\ Len(rst) \in 1 .. Len(rec)
  /\ LET p == Len(rec) - Len(rst) IN
       /\ rst = From(rec, p + 1)
       /\ \A i \in 1 .. Len(S) : of[i] = Len(bg) => pos[i] <= p
  /\ \A d \in 1 .. Len(dec) : at[d] < Len(bg)
  /\ \A n \in 1 .. Len(lg) : put[n] < Len(bg)

\* What was put of it is whole, at the end of the stream.
AtEnd(S, bg, of, pos, rec, rst) ==
  LET p == Len(rec) - Len(rst)
  IN p <= Len(S) /\ Holds(S, of, pos, Len(bg), p, Len(S) - p + 1)

\* Of the report rep, reps has not begun; what has begun are the last records that have,
\* and has arrived, save that the last one may be open.
Reporting(S, bg, dec, of, pos, at, rep, reps, open) ==
  LET j == Len(rep) - Len(reps) IN
    /\ j \in 0 .. Len(rep) /\ j <= Len(bg) /\ reps = From(rep, j + 1)
    /\ \A n \in 1 .. j :
         /\ bg[Len(bg) - j + n] = rep[n]
         /\ Arrived(S, bg, dec, of, pos, at, Len(bg) - j + n) \/ (n = j /\ open)

\* From its first element on, a sequence is whole.
LEMMA FromOne ==
  ASSUME NEW X, NEW xs \in Seq(X)
  PROVE  From(xs, 1) = xs
<1>1. Len(xs) \in Nat /\ 1 \in 1 .. Len(xs) + 1 /\ Len(xs) - 1 + 1 = Len(xs)
  BY LenProperties
<1>2. /\ From(xs, 1) \in Seq(X) /\ Len(From(xs, 1)) = Len(xs) - 1 + 1
      /\ \A k \in 1 .. Len(xs) - 1 + 1 : From(xs, 1)[k] = xs[1 + k - 1]
  BY <1>1, FromIs
<1>3. \A k \in 1 .. Len(xs) : From(xs, 1)[k] = xs[k]
  <2>1. \A k \in 1 .. Len(xs) : 1 + k - 1 = k
    BY <1>1
  <2> QED BY <1>1, <1>2, <2>1
<1> QED
  BY <1>1, <1>2, <1>3, SeqEqual

\* One more record begins.
LEMMA BeginMore ==
  ASSUME NEW bg \in Seq(Frames), NEW f \in Frames
  PROVE  /\ Append(bg, f) \in Seq(Frames) /\ Len(Append(bg, f)) = Len(bg) + 1
         /\ Len(bg) \in Nat /\ 1 .. Len(bg) \subseteq 1 .. Len(bg) + 1
         /\ Append(bg, f)[Len(bg) + 1] = f
         /\ \A m \in 1 .. Len(bg) : Append(bg, f)[m] = bg[m]
BY AppendProperties, LenProperties

LEMMA LedgerBegins ==
  ASSUME NEW S, NEW bg \in Seq(Frames), NEW dec, NEW lg, NEW of, NEW pos, NEW at, NEW put,
         NEW f \in Frames, Ledger(S, bg, dec, lg, of, pos, at, put)
  PROVE  /\ Ledger(S, Append(bg, f), dec, lg, of, pos, at, put)
         /\ \A m \in 1 .. Len(bg) :
              Arrived(S, bg, dec, of, pos, at, m)
                => Arrived(S, Append(bg, f), dec, of, pos, at, m)
<1> DEFINE bg2 == Append(bg, f)
<1>1. /\ Len(bg2) = Len(bg) + 1 /\ 1 .. Len(bg) \subseteq 1 .. Len(bg2)
      /\ \A m \in 1 .. Len(bg) : bg2[m] = bg[m]
  BY BeginMore
<1> HIDE DEF bg2
<1>2. /\ Origins(S, bg, of, pos) /\ Chosen(dec, bg, at) /\ Chosen(lg, bg, put)
      /\ \A d \in 1 .. Len(dec), i \in 1 .. Len(S) : at[d] < of[i]
      /\ \A n \in 1 .. Len(lg) : Arrived(S, bg, dec, of, pos, at, put[n])
  BY DEF Ledger
<1>3. Origins(S, bg2, of, pos)
  <2>1. of \in [1 .. Len(S) -> 1 .. Len(bg)]
    BY <1>2 DEF Origins
  <2>2. of \in [1 .. Len(S) -> 1 .. Len(bg2)]
    BY <1>1, <2>1
  <2> QED BY <1>1, <1>2, <2>1, <2>2 DEF Origins
<1>4. ASSUME NEW xs, NEW h, Chosen(xs, bg, h)
      PROVE  Chosen(xs, bg2, h)
  <2>1. h \in [1 .. Len(xs) -> 1 .. Len(bg)]
    BY <1>4 DEF Chosen
  <2>2. h \in [1 .. Len(xs) -> 1 .. Len(bg2)]
    BY <1>1, <2>1
  <2> QED BY <1>1, <1>4, <2>1, <2>2 DEF Chosen
<1>5. \A m \in 1 .. Len(bg) :
        Arrived(S, bg, dec, of, pos, at, m) => Arrived(S, bg2, dec, of, pos, at, m)
  BY <1>1 DEF Arrived
<1>6. \A n \in 1 .. Len(lg) : put[n] \in 1 .. Len(bg)
  BY <1>2 DEF Chosen
<1>7. Ledger(S, bg2, dec, lg, of, pos, at, put)
  BY <1>2, <1>3, <1>4, <1>5, <1>6 DEF Ledger
<1> QED
  BY <1>5, <1>7 DEF bg2

LEMMA PuttingBegins ==
  ASSUME NEW S \in Seq(Nat), NEW bg \in Seq(Frames), NEW dec, NEW lg, NEW of, NEW pos, NEW at, NEW put,
         NEW f \in Frames, Ledger(S, bg, dec, lg, of, pos, at, put)
  PROVE  /\ Putting(S, Append(bg, f), dec, lg, of, pos, at, put, f, f)
         /\ AtEnd(S, Append(bg, f), of, pos, f, f)
<1> DEFINE bg2 == Append(bg, f)
<1>1. /\ bg2 \in Seq(Frames) /\ Len(bg2) = Len(bg) + 1 /\ Len(bg) \in Nat
      /\ bg2[Len(bg2)] = f
  BY BeginMore
<1> HIDE DEF bg2
<1>2. f \in Seq(Nat) /\ Len(f) \in Nat /\ Len(f) >= 5
  BY FrameHas
<1>3. bg2 # <<>> /\ Len(f) \in 1 .. Len(f) /\ Len(f) - Len(f) = 0 /\ 0 + 1 = 1 /\ 1 .. 0 = {}
  BY <1>1, <1>2
<1>4. f = From(f, 0 + 1)
  BY <1>2, <1>3, FromOne
<1>5. Len(S) \in Nat /\ 0 <= Len(S)
  BY LenProperties
<1>6. Holds(S, of, pos, Len(bg2), 0, Len(S) - 0 + 1)
  BY <1>3 DEF Holds
<1>7. \A i \in 1 .. Len(S) : of[i] \in 1 .. Len(bg)
  BY DEF Ledger, Origins
<1>8. \A i \in 1 .. Len(S) : of[i] # Len(bg2)
  BY <1>1, <1>7
<1>9. \A d \in 1 .. Len(dec) : at[d] \in 1 .. Len(bg)
  BY DEF Ledger, Chosen
<1>10. \A n \in 1 .. Len(lg) : put[n] \in 1 .. Len(bg)
  BY DEF Ledger, Chosen
<1>11. (\A d \in 1 .. Len(dec) : at[d] < Len(bg2)) /\ \A n \in 1 .. Len(lg) : put[n] < Len(bg2)
  BY <1>1, <1>9, <1>10
<1>12. Putting(S, bg2, dec, lg, of, pos, at, put, f, f)
  BY <1>1, <1>3, <1>4, <1>8, <1>11 DEF Putting
<1>13. AtEnd(S, bg2, of, pos, f, f)
  BY <1>3, <1>5, <1>6 DEF AtEnd
<1> QED
  BY <1>12, <1>13 DEF bg2

\* One less of what is left of a sequence.
LEMMA RestBehind ==
  ASSUME NEW X, NEW rec \in Seq(X), NEW rst, Len(rst) \in 1 .. Len(rec),
         rst = From(rec, Len(rec) - Len(rst) + 1)
  PROVE  /\ rst \in Seq(X) /\ Head(rst) = rec[Len(rec) - Len(rst) + 1]
         /\ Tail(rst) \in Seq(X) /\ Len(Tail(rst)) = Len(rst) - 1
         /\ Tail(rst) = From(rec, Len(rec) - Len(Tail(rst)) + 1)
         /\ Tail(rst) # <<>> <=> Len(rst) # 1
<1> DEFINE p == Len(rec) - Len(rst)
           q == Len(rec) - Len(Tail(rst))
<1>1. rec \in Seq(X) /\ Len(rec) \in Nat /\ Len(rst) \in Nat /\ Len(rst) >= 1
      /\ p \in Nat /\ Len(rec) = p + Len(rst)
  BY LenProperties
<1>2. p + 1 \in 1 .. Len(rec) + 1 /\ Len(rec) - (p + 1) + 1 = Len(rst)
  BY <1>1
<1>3. rst \in Seq(X) /\ \A k \in 1 .. Len(rst) : rst[k] = rec[p + 1 + k - 1]
  <2>1. From(rec, p + 1) \in Seq(X)
        /\ \A k \in 1 .. Len(rec) - (p + 1) + 1 : From(rec, p + 1)[k] = rec[p + 1 + k - 1]
    BY <1>1, <1>2, FromIs
  <2> QED BY <1>2, <2>1
<1>4. Len(<<>>) = 0 /\ rst # <<>>
  BY <1>1
<1>5. /\ Tail(rst) \in Seq(X) /\ Len(Tail(rst)) = Len(rst) - 1 /\ Head(rst) = rst[1]
      /\ \A k \in 1 .. Len(rst) - 1 : Tail(rst)[k] = rst[k + 1]
  BY <1>3, <1>4, HeadTailProperties
<1>6. Head(rst) = rec[p + 1]
  <2>1. 1 \in 1 .. Len(rst) /\ p + 1 + 1 - 1 = p + 1
    BY <1>1
  <2> QED BY <1>3, <1>5, <2>1
<1>7. q = p + 1 /\ q + 1 \in 1 .. Len(rec) + 1 /\ Len(rec) - (q + 1) + 1 = Len(rst) - 1
  BY <1>1, <1>5
<1> HIDE DEF q
<1>8. /\ From(rec, q + 1) \in Seq(X) /\ Len(From(rec, q + 1)) = Len(rst) - 1
      /\ \A k \in 1 .. Len(rst) - 1 : From(rec, q + 1)[k] = rec[q + 1 + k - 1]
  <2>1. /\ From(rec, q + 1) \in Seq(X) /\ Len(From(rec, q + 1)) = Len(rec) - (q + 1) + 1
        /\ \A k \in 1 .. Len(rec) - (q + 1) + 1 : From(rec, q + 1)[k] = rec[q + 1 + k - 1]
    BY <1>1, <1>7, FromIs
  <2> QED BY <1>7, <2>1
<1>9. ASSUME NEW k \in 1 .. Len(rst) - 1
      PROVE  Tail(rst)[k] = From(rec, q + 1)[k]
  <2>1. k + 1 \in 1 .. Len(rst) /\ p + 1 + (k + 1) - 1 = q + 1 + k - 1
    BY <1>1, <1>7
  <2>2. rst[k + 1] = rec[p + 1 + (k + 1) - 1]
    BY <1>3, <2>1
  <2> QED BY <1>5, <1>8, <2>1, <2>2
<1>10. Tail(rst) = From(rec, q + 1)
  BY <1>5, <1>8, <1>9, SeqEqual
<1>11. Tail(rst) # <<>> <=> Len(rst) # 1
  <2>1. Len(Tail(rst)) = 0 <=> Tail(rst) = <<>>
    BY <1>5, EmptySeq
  <2>2. Len(rst) \in Nat /\ Len(Tail(rst)) = Len(rst) - 1
    BY <1>1, <1>5
  <2> QED BY ONLY <2>1, <2>2
<1> QED
  BY <1>3, <1>5, <1>6, <1>10, <1>11 DEF q

LEMMA RestOfFrame ==
  ASSUME NEW rec \in Frames, NEW rst, Len(rst) \in 1 .. Len(rec),
         rst = From(rec, Len(rec) - Len(rst) + 1)
  PROVE  /\ rst \in Seq(Nat) /\ Head(rst) = rec[Len(rec) - Len(rst) + 1]
         /\ Tail(rst) \in Seq(Nat) /\ Len(Tail(rst)) = Len(rst) - 1
         /\ Tail(rst) = From(rec, Len(rec) - Len(Tail(rst)) + 1)
         /\ Tail(rst) # <<>> <=> Len(rst) # 1
<1>1. rec \in Seq(Nat)
  BY FrameHas
<1> QED
  BY <1>1, RestBehind, Zenon

\* A byte that is dropped is not put.
LEMMA PuttingDrops ==
  ASSUME NEW S, NEW bg \in Seq(Frames), NEW dec, NEW lg, NEW of, NEW pos, NEW at, NEW put,
         NEW rec \in Frames, NEW rst, Ledger(S, bg, dec, lg, of, pos, at, put),
         Putting(S, bg, dec, lg, of, pos, at, put, rec, rst), Tail(rst) # <<>>
  PROVE  Putting(S, bg, dec, lg, of, pos, at, put, rec, Tail(rst))
<1>1. Len(rst) \in 1 .. Len(rec) /\ rst = From(rec, Len(rec) - Len(rst) + 1)
  BY DEF Putting
<1>2. /\ Len(Tail(rst)) = Len(rst) - 1 /\ Tail(rst) = From(rec, Len(rec) - Len(Tail(rst)) + 1)
      /\ Len(rst) # 1
  BY <1>1, RestOfFrame
<1>3. Len(rec) \in Nat
  BY FrameHas
<1>4. Len(Tail(rst)) \in 1 .. Len(rec) /\ Len(rec) - Len(Tail(rst)) = Len(rec) - Len(rst) + 1
      /\ Len(rec) - Len(rst) \in Nat
  <2>1. Len(rst) \in 1 .. Len(rec) /\ Len(Tail(rst)) = Len(rst) - 1 /\ Len(rst) # 1
    BY <1>1, <1>2
  <2> DEFINE c == Len(Tail(rst))
             b == Len(rst)
             a == Len(rec)
  <2> HIDE DEF a, b, c
  <2>2. a \in Nat /\ b \in 1 .. a /\ c = b - 1 /\ b # 1
    BY <1>3, <2>1 DEF a, b, c
  <2>3. c \in 1 .. a /\ a - c = a - b + 1 /\ a - b \in Nat
    BY ONLY <2>2
  <2> QED BY <2>3 DEF a, b, c
<1>5. ASSUME NEW i \in 1 .. Len(S), of[i] = Len(bg)
      PROVE  pos[i] <= Len(rec) - Len(Tail(rst))
  <2>1. pos[i] \in Nat /\ pos[i] <= Len(rec) - Len(rst)
    BY <1>5 DEF Putting, Ledger, Origins
  <2> QED BY <1>4, <2>1
<1> QED
  BY <1>2, <1>4, <1>5 DEF Putting

\* The stream and its CRCs with the first of rst behind them, which is to be put of rec.
Grows(S, S2, C, C2, rec, rst) ==
  /\ Len(S2) = Len(S) + 1 /\ S2[Len(S) + 1] = Head(rst)
  /\ \A i \in 1 .. Len(S) : S2[i] = S[i]
  /\ Len(C2) = Len(S) + 1 /\ C2[Len(S) + 1] = IF Len(rst) = 1 THEN rec ELSE <<>>
  /\ \A i \in 1 .. Len(S) : C2[i] = C[i]

\* S2, the stream with one more byte, is accounted for as S is.
PutOn(S, S2, C2, bg, dec, lg2, of, pos, at, rec, rst) ==
  \E of2, pos2, put2 :
    /\ Ledger(S2, bg, dec, lg2, of2, pos2, at, put2) /\ Crcs(C2, S2, bg, of2, pos2)
    /\ Tail(rst) # <<>> => Putting(S2, bg, dec, lg2, of2, pos2, at, put2, rec, Tail(rst))
    /\ \A m : Arrived(S, bg, dec, of, pos, at, m) => Arrived(S2, bg, dec, of2, pos2, at, m)
    /\ AtEnd(S, bg, of, pos, rec, rst) =>
         IF Tail(rst) # <<>> THEN AtEnd(S2, bg, of2, pos2, rec, Tail(rst))
         ELSE Arrived(S2, bg, dec, of2, pos2, at, Len(bg))

\* The port takes a byte.
LEMMA LedgerPuts ==
  ASSUME NEW S \in Seq(Nat), NEW bg \in Seq(Frames), NEW dec, NEW lg \in Seq(Frames),
         NEW of, NEW pos, NEW at, NEW put, NEW rec \in Frames, NEW rst,
         NEW C, Crcs(C, S, bg, of, pos),
         Ledger(S, bg, dec, lg, of, pos, at, put),
         Putting(S, bg, dec, lg, of, pos, at, put, rec, rst),
         NEW S2 \in Seq(Nat), NEW C2, Grows(S, S2, C, C2, rec, rst),
         NEW lg2 \in {lg, Append(lg, rec)},
         lg2 # lg => AtEnd(S, bg, of, pos, rec, rst) /\ Len(rst) = 1
  PROVE  PutOn(S, S2, C2, bg, dec, lg2, of, pos, at, rec, rst)
<1> DEFINE L == Len(S)
           M == Len(bg)
           a == Len(rec)
           b == Len(rst)
           p == a - b
           w == AtEnd(S, bg, of, pos, rec, rst)
           more == lg2 # lg
           of2 == [i \in 1 .. L + 1 |-> IF i = L + 1 THEN M ELSE of[i]]
           pos2 == [i \in 1 .. L + 1 |-> IF i = L + 1 THEN p + 1 ELSE pos[i]]
           put2 == [n \in 1 .. Len(lg2) |-> IF n = Len(lg) + 1 THEN M ELSE put[n]]
<1>1. /\ Origins(S, bg, of, pos) /\ Chosen(dec, bg, at) /\ Chosen(lg, bg, put)
      /\ \A d \in 1 .. Len(dec), i \in 1 .. L : at[d] < of[i]
      /\ \A n \in 1 .. Len(lg) : Arrived(S, bg, dec, of, pos, at, put[n])
  BY DEF Ledger
<1>2. /\ bg # <<>> /\ bg[M] = rec /\ b \in 1 .. a /\ rst = From(rec, p + 1)
      /\ \A i \in 1 .. L : of[i] = M => pos[i] <= p
      /\ \A d \in 1 .. Len(dec) : at[d] < M
      /\ \A n \in 1 .. Len(lg) : put[n] < M
  BY DEF Putting
<1>3. /\ Head(rst) = rec[p + 1] /\ Len(Tail(rst)) = b - 1
      /\ Tail(rst) = From(rec, a - Len(Tail(rst)) + 1)
      /\ Tail(rst) # <<>> <=> b # 1
      /\ Head(rst) \in Nat
  <2>1. /\ Head(rst) = rec[p + 1] /\ Len(Tail(rst)) = b - 1
        /\ Tail(rst) = From(rec, a - Len(Tail(rst)) + 1)
        /\ Tail(rst) # <<>> <=> b # 1
    BY <1>2, RestOfFrame
  <2>2. rec \in Seq(Nat) /\ Len(rec) \in Nat
    BY FrameHas
  <2>3. p + 1 \in 1 .. Len(rec)
    BY <1>2, <2>2
  <2>4. rec[p + 1] \in Nat
    BY <2>2, <2>3, ElementOfSeq
  <2> QED BY <2>1, <2>4
<1>4. /\ L \in Nat /\ M \in Nat /\ M >= 1 /\ a \in Nat /\ b \in 1 .. a /\ Len(lg) \in Nat
  <2>1. Len(bg) # 0
    BY <1>2, EmptySeq
  <2> QED BY <1>2, <2>1, FrameHas, LenProperties
<1>5. S2 \in Seq(Nat) /\ Len(S2) = L + 1 /\ S2[L + 1] = rec[p + 1]
      /\ \A i \in 1 .. L : S2[i] = S[i]
  BY <1>3 DEF Grows
<1>23. w => p <= L /\ Holds(S, of, pos, M, p, L - p + 1)
  BY DEF AtEnd
<1>24. more => w /\ b = 1
  OBVIOUS
<1>25. lg2 = IF more THEN Append(lg, rec) ELSE lg
  OBVIOUS
<1>26. /\ Len(C2) = L + 1 /\ C2[L + 1] = IF b = 1 THEN rec ELSE <<>>
       /\ \A i \in 1 .. L : C2[i] = IF pos[i] = Len(bg[of[i]]) THEN bg[of[i]] ELSE <<>>
  BY DEF Crcs, Grows
<1> HIDE DEF L, M, a, b, w, more
<1>6. p \in Nat /\ p + 1 \in 1 .. a /\ 1 .. L \subseteq 1 .. L + 1 /\ L + 1 \in 1 .. L + 1
      /\ \A i \in 1 .. L + 1 : i = L + 1 \/ (i # L + 1 /\ i \in 1 .. L)
  BY <1>4
<1> HIDE DEF p
<1>7. of2[L + 1] = M /\ pos2[L + 1] = p + 1
      /\ \A i \in 1 .. L : of2[i] = of[i] /\ pos2[i] = pos[i]
  BY <1>4, <1>6
<1>8. /\ of \in [1 .. L -> 1 .. M] /\ pos \in [1 .. L -> Nat]
      /\ \A i \in 1 .. L : pos[i] \in 1 .. Len(bg[of[i]]) /\ S[i] = bg[of[i]][pos[i]]
      /\ \A i, j \in 1 .. L : i < j => of[i] < of[j] \/ (of[i] = of[j] /\ pos[i] < pos[j])
  BY <1>1 DEF Origins, L, M
<1>9. of2 \in [1 .. L + 1 -> 1 .. M] /\ pos2 \in [1 .. L + 1 -> Nat]
  BY <1>4, <1>6, <1>8, SMTT(30)
<1> HIDE DEF of2, pos2
<1>10. Origins(S2, bg, of2, pos2)
  <2>1. ASSUME NEW i \in 1 .. L + 1
        PROVE  pos2[i] \in 1 .. Len(bg[of2[i]]) /\ S2[i] = bg[of2[i]][pos2[i]]
    <3>1. CASE i = L + 1
      BY <1>2, <1>5, <1>6, <1>7, <3>1 DEF a
    <3>2. CASE i # L + 1
      BY <1>5, <1>6, <1>7, <1>8, <3>2
    <3> QED BY <3>1, <3>2
  <2>2. ASSUME NEW i \in 1 .. L + 1, NEW j \in 1 .. L + 1, i < j
        PROVE  of2[i] < of2[j] \/ (of2[i] = of2[j] /\ pos2[i] < pos2[j])
    <3>1. i \in 1 .. L
      BY <1>4, <2>2
    <3>2. CASE j = L + 1
      <4>1. of[i] \in 1 .. M /\ pos[i] \in Nat
        BY <1>8, <3>1
      <4>2. of[i] < M \/ (of[i] = M /\ pos[i] <= p)
        BY <1>2, <1>4, <3>1, <4>1
      <4> QED BY <1>6, <1>7, <3>1, <3>2, <4>1, <4>2
    <3>3. CASE j # L + 1
      BY <1>6, <1>7, <1>8, <2>2, <3>1, <3>3
    <3> QED BY <3>2, <3>3
  <2> QED BY <1>5, <1>9, <2>1, <2>2 DEF Origins, M
<1>11. ASSUME NEW m, NEW q, NEW s, Holds(S, of, pos, m, q, s)
       PROVE  Holds(S2, of2, pos2, m, q, s)
  BY <1>5, <1>6, <1>7, <1>11 DEF Holds, L
<1>12. ASSUME NEW m, Arrived(S, bg, dec, of, pos, at, m)
       PROVE  Arrived(S2, bg, dec, of2, pos2, at, m)
  <2>1. CASE \E d \in 1 .. Len(dec) : at[d] = m
    BY <2>1 DEF Arrived
  <2>2. CASE \E s \in 1 .. L : Holds(S, of, pos, m, Len(bg[m]), s)
    BY <1>5, <1>6, <1>11, <2>2 DEF Arrived
  <2> QED BY <1>12, <2>1, <2>2 DEF Arrived, L
<1>13. w => p + 1 <= L + 1 /\ Holds(S2, of2, pos2, M, p + 1, (L + 1) - (p + 1) + 1)
  <2> SUFFICES ASSUME w
               PROVE  p + 1 <= L + 1 /\ Holds(S2, of2, pos2, M, p + 1, (L + 1) - (p + 1) + 1)
    OBVIOUS
  <2> DEFINE s == L - p + 1
  <2>1. p <= L /\ Holds(S2, of2, pos2, M, p, s)
    BY <1>11, <1>23
  <2>2. (L + 1) - (p + 1) + 1 = s /\ p + 1 <= L + 1 /\ s + (p + 1) - 1 = L + 1
    BY <1>4, <1>6, <2>1
  <2> HIDE DEF s
  <2>3. ASSUME NEW k \in 1 .. p + 1
        PROVE  s + k - 1 \in 1 .. Len(S2) /\ of2[s + k - 1] = M /\ pos2[s + k - 1] = k
    <3>1. CASE k \in 1 .. p
      BY <2>1, <3>1 DEF Holds
    <3>2. CASE k = p + 1
      BY <1>5, <1>6, <1>7, <2>2, <3>2
    <3> QED BY <1>6, <3>1, <3>2
  <2> QED BY <2>2, <2>3 DEF Holds
<1>14. w /\ b = 1 => Arrived(S2, bg, dec, of2, pos2, at, M)
  <2> SUFFICES ASSUME w, b = 1
               PROVE  Arrived(S2, bg, dec, of2, pos2, at, M)
    OBVIOUS
  <2> DEFINE s == (L + 1) - (p + 1) + 1
  <2>1. p + 1 = a /\ Len(bg[M]) = a
    BY <1>2, <1>4 DEF p, a
  <2>2. Holds(S2, of2, pos2, M, Len(bg[M]), s)
    BY <1>13, <2>1
  <2>3. s \in 1 .. Len(S2)
    <3>1. p + 1 <= L + 1
      BY <1>13
    <3>2. s \in 1 .. L + 1
      BY ONLY <1>4, <1>6, <3>1
    <3> QED BY <1>5, <3>2
  <2> QED BY <2>2, <2>3 DEF Arrived
<1>15. /\ Len(lg2) = IF more THEN Len(lg) + 1 ELSE Len(lg)
       /\ \A n \in 1 .. Len(lg) : lg2[n] = lg[n]
       /\ more => lg2[Len(lg) + 1] = rec
       /\ \A n \in 1 .. Len(lg2) : n \in 1 .. Len(lg) \/ (more /\ n = Len(lg) + 1)
  <2>1. CASE more
    <3>1. lg2 = Append(lg, rec)
      BY <1>25, <2>1
    <3>2. Len(lg2) = Len(lg) + 1 /\ lg2[Len(lg) + 1] = rec
          /\ \A n \in 1 .. Len(lg) : lg2[n] = lg[n]
      BY <3>1, AppendProperties
    <3> QED BY <1>4, <2>1, <3>2
  <2>2. CASE ~(more)
    <3>1. lg2 = lg
      BY <1>25, <2>2
    <3> QED BY <2>2, <3>1
  <2> QED BY <2>1, <2>2
<1>16. /\ \A n \in 1 .. Len(lg) : n \in 1 .. Len(lg2) /\ put2[n] = put[n] /\ put[n] \in 1 .. M
       /\ more => Len(lg) + 1 \in 1 .. Len(lg2) /\ put2[Len(lg) + 1] = M
  <2>1. \A n \in 1 .. Len(lg) : put[n] \in 1 .. M
    BY <1>1 DEF Chosen, M
  <2>2. \A n \in 1 .. Len(lg) : n \in 1 .. Len(lg2) /\ n # Len(lg) + 1
    BY <1>4, <1>15
  <2>3. more => Len(lg) + 1 \in 1 .. Len(lg2)
    BY <1>4, <1>15
  <2> QED BY <2>1, <2>2, <2>3
<1>17. Chosen(lg2, bg, put2)
  <2>1. put2 \in [1 .. Len(lg2) -> 1 .. M]
    <3>1. ASSUME NEW n \in 1 .. Len(lg2)
          PROVE  put2[n] \in 1 .. M
      <4> HIDE DEF put2
      <4>1. CASE n \in 1 .. Len(lg)
        BY <1>16, <4>1
      <4>2. CASE more /\ n = Len(lg) + 1
        <5>1. M \in 1 .. M
          BY <1>4
        <5> QED BY <1>16, <4>2, <5>1
      <4> QED BY <1>15, <4>1, <4>2
    <3> QED BY <3>1
  <2> HIDE DEF put2
  <2>2. \A n \in 1 .. Len(lg) : lg[n] = bg[put[n]]
    BY <1>1 DEF Chosen
  <2>3. \A n \in 1 .. Len(lg2) : lg2[n] = bg[put2[n]]
    BY <1>2, <1>15, <1>16, <2>2
  <2>4. ASSUME NEW m \in 1 .. Len(lg2), NEW n \in 1 .. Len(lg2), m < n
        PROVE  put2[m] < put2[n]
    <3>1. m \in 1 .. Len(lg)
      BY <1>4, <1>15, <2>4
    <3>2. CASE n \in 1 .. Len(lg)
      BY <1>1, <1>16, <2>4, <3>1, <3>2 DEF Chosen
    <3>3. CASE more /\ n = Len(lg) + 1
      BY <1>2, <1>16, <3>1, <3>3
    <3> QED BY <1>15, <3>2, <3>3
  <2> QED BY <2>1, <2>3, <2>4 DEF Chosen, M
<1> HIDE DEF put2
<1>18. ASSUME NEW n \in 1 .. Len(lg2)
       PROVE  Arrived(S2, bg, dec, of2, pos2, at, put2[n])
  BY <1>1, <1>12, <1>14, <1>15, <1>16, <1>24
<1>19. \A d \in 1 .. Len(dec), i \in 1 .. L + 1 : at[d] < of2[i]
  BY <1>1, <1>2, <1>6, <1>7
<1>20. Ledger(S2, bg, dec, lg2, of2, pos2, at, put2)
  BY <1>1, <1>5, <1>10, <1>17, <1>18, <1>19 DEF Ledger
<1>27. Crcs(C2, S2, bg, of2, pos2)
  <2> SUFFICES ASSUME NEW i \in 1 .. L + 1
               PROVE  C2[i] = IF pos2[i] = Len(bg[of2[i]]) THEN bg[of2[i]] ELSE <<>>
    BY <1>5, <1>26 DEF Crcs
  <2>1. CASE i = L + 1
    <3>1. p + 1 = Len(bg[M]) <=> b = 1
      BY <1>2, <1>4 DEF p, a
    <3> QED BY <1>2, <1>7, <1>26, <2>1, <3>1
  <2>2. CASE i # L + 1
    <3>1. i \in 1 .. L
      BY <1>6, <2>2
    <3> QED BY <1>7, <1>26, <3>1
  <2> QED BY <2>1, <2>2
<1>21. ASSUME Tail(rst) # <<>>
       PROVE  /\ Putting(S2, bg, dec, lg2, of2, pos2, at, put2, rec, Tail(rst))
              /\ w => AtEnd(S2, bg, of2, pos2, rec, Tail(rst))
  <2> DEFINE c == Len(Tail(rst))
  <2>1. b # 1 /\ c = b - 1 /\ Tail(rst) = From(rec, a - c + 1)
    BY <1>3, <1>21
  <2> HIDE DEF c
  <2>2. c \in 1 .. a /\ a - c = p + 1
    BY <1>4, <2>1 DEF p
  <2>3. \A i \in 1 .. L + 1 : of2[i] = M => pos2[i] <= a - c
    <3>1. \A i \in 1 .. L : pos[i] \in Nat
      BY <1>8
    <3>2. \A i \in 1 .. L : of[i] = M => pos[i] <= p + 1
      BY <1>2, <1>6, <3>1
    <3>3. p + 1 <= p + 1
      BY <1>6
    <3>4. \A i \in 1 .. L + 1 : of2[i] = M => pos2[i] <= p + 1
      BY <1>6, <1>7, <3>2, <3>3
    <3> QED BY <2>2, <3>4
  <2>4. \A n \in 1 .. Len(lg2) : put2[n] < M
    BY <1>2, <1>15, <1>16, <1>24, <2>1
  <2>5. w => a - c <= L + 1 /\ Holds(S2, of2, pos2, M, a - c, (L + 1) - (a - c) + 1)
    BY <1>13, <2>2
  <2>6. bg # <<>> /\ bg[Len(bg)] = rec /\ \A d \in 1 .. Len(dec) : at[d] < Len(bg)
    BY <1>2 DEF M
  <2>7. Putting(S2, bg, dec, lg2, of2, pos2, at, put2, rec, Tail(rst))
    BY <1>5, <2>1, <2>2, <2>3, <2>4, <2>6 DEF Putting, M, a, c
  <2>8. w => AtEnd(S2, bg, of2, pos2, rec, Tail(rst))
    BY <1>5, <2>5 DEF AtEnd, M, a, c
  <2> QED BY <2>7, <2>8
<1>22. w /\ Tail(rst) = <<>> => Arrived(S2, bg, dec, of2, pos2, at, Len(bg))
  BY <1>3, <1>14 DEF M
<1> QED
  BY <1>12, <1>20, <1>21, <1>22, <1>27 DEF w, PutOn

\* S2, what is left of the stream S once records are read, is accounted for as S is.
ReadOff(S, S2, C2, bg, dec, lg, of, pos, at, put, records) ==
  \E of2, pos2, at2 :
    LET dec2 == dec \o records IN
      /\ Ledger(S2, bg, dec2, lg, of2, pos2, at2, put) /\ Crcs(C2, S2, bg, of2, pos2)
      /\ \A m \in 1 .. Len(bg) : Arrived(S, bg, dec, of, pos, at, m)
                                   => Arrived(S2, bg, dec2, of2, pos2, at2, m)
      /\ \A rec \in Frames : \A rst :
           Putting(S, bg, dec, lg, of, pos, at, put, rec, rst) =>
             /\ Putting(S2, bg, dec2, lg, of2, pos2, at2, put, rec, rst)
             /\ AtEnd(S, bg, of, pos, rec, rst) => AtEnd(S2, bg, of2, pos2, rec, rst)

\* The host reads a part of the stream, which is bytes, and keeps what begins at r.
LEMMA LedgerReads ==
  ASSUME NEW S \in Seq(Nat), NEW S2 \in Seq(Nat), NEW bytes \in Seq(Nat), NEW bg \in Seq(Frames),
         NEW dec \in Seq(Frames), NEW lg, NEW of, NEW pos, NEW at, NEW put,
         NEW records, NEW ends, NEW r,
         NEW C, NEW C2, Crcs(C, S, bg, of, pos),
         Ledger(S, bg, dec, lg, of, pos, at, put), Reads(bytes, C, 1, records, ends, r),
         Len(bytes) <= Len(S), \A k \in 1 .. Len(bytes) : bytes[k] = S[k],
         Len(S2) = Len(S) - r + 1, \A k \in 1 .. Len(S2) : S2[k] = S[r + k - 1],
         Len(C2) = Len(S2), \A k \in 1 .. Len(S2) : C2[k] = C[r + k - 1]
  PROVE  ReadOff(S, S2, C2, bg, dec, lg, of, pos, at, put, records)
<1> DEFINE L == Len(S)
           L2 == Len(S2)
           B == Len(bytes)
           M == Len(bg)
           N == Len(dec)
           K == Len(records)
           dec2 == dec \o records
           of2 == [i \in 1 .. L2 |-> of[r + i - 1]]
           pos2 == [i \in 1 .. L2 |-> pos[r + i - 1]]
           at2 == [n \in 1 .. N + K |-> IF n <= N THEN at[n] ELSE of[ends[n - N]]]
<1>1. /\ Origins(S, bg, of, pos) /\ Chosen(dec, bg, at) /\ Chosen(lg, bg, put)
      /\ \A d \in 1 .. N, i \in 1 .. L : at[d] < of[i]
      /\ \A n \in 1 .. Len(lg) : Arrived(S, bg, dec, of, pos, at, put[n])
  BY DEF Ledger
<1>2. /\ of \in [1 .. L -> 1 .. M] /\ pos \in [1 .. L -> Nat]
      /\ \A i \in 1 .. L : pos[i] \in 1 .. Len(bg[of[i]]) /\ S[i] = bg[of[i]][pos[i]]
      /\ \A i, j \in 1 .. L : i < j => of[i] < of[j] \/ (of[i] = of[j] /\ pos[i] < pos[j])
  BY <1>1 DEF Origins
<1>3. /\ r \in 1 .. B + 1 /\ records \in Seq(Frames) /\ ends \in [1 .. K -> 1 .. r - 1]
      /\ \A n \in 1 .. K : C[ends[n]] = records[n]
      /\ \A m, n \in 1 .. K : m < n => ends[m] < ends[n]
      /\ \A f \in Frames, s \in 1 .. r - 1 : \A q \in 1 .. Len(f) :
           Begins(bytes, C, f, s, q) =>
             q = Len(f) /\ \E n \in 1 .. K : ends[n] = s + Len(f) - 1
  BY DEF Reads
<1>22. \A i \in 1 .. L : C[i] = IF pos[i] = Len(bg[of[i]]) THEN bg[of[i]] ELSE <<>>
  BY DEF Crcs
<1>23. Len(C2) = L2 /\ \A k \in 1 .. L2 : C2[k] = C[r + k - 1]
  OBVIOUS
<1>4. /\ L \in Nat /\ B \in Nat /\ M \in Nat /\ N \in Nat /\ K \in Nat /\ r \in Nat /\ r >= 1
      /\ L2 = L - r + 1 /\ L2 \in Nat /\ B <= L /\ r <= B + 1
  BY <1>3, LenProperties
<1>5. \A m \in 1 .. M : bg[m] \in Frames
  BY ElementOfSeq
<1>6. \A n \in 1 .. K : records[n] \in Frames
  BY <1>3, ElementOfSeq
<1>7. /\ \A k \in 1 .. B : bytes[k] = S[k] /\ k \in 1 .. L
      /\ \A k \in 1 .. L2 : S2[k] = S[r + k - 1] /\ r + k - 1 \in 1 .. L
  <2>1. (\A k \in 1 .. B : bytes[k] = S[k]) /\ \A k \in 1 .. L2 : S2[k] = S[r + k - 1]
    OBVIOUS
  <2> HIDE DEF L, L2, B
  <2>2. (\A k \in 1 .. B : k \in 1 .. L) /\ \A k \in 1 .. L2 : r + k - 1 \in 1 .. L
    BY ONLY <1>4
  <2> QED BY <2>1, <2>2
<1>8. \A n \in 1 .. N + K : IF n <= N THEN dec2[n] = dec[n] ELSE dec2[n] = records[n - N]
  BY <1>3, ConcatProperties
<1>9. Len(dec2) = N + K
  BY <1>3, ConcatProperties
<1> HIDE DEF L, L2, B, M, N, K, dec2
<1>10. \A n \in 1 .. N + K : (n <= N => n \in 1 .. N) /\ (~(n <= N) => n - N \in 1 .. K)
  BY <1>4, SMTT(30)
<1>11. \A i \in 1 .. L2 : of2[i] = of[r + i - 1] /\ pos2[i] = pos[r + i - 1]
  OBVIOUS
<1>12. /\ \A n \in 1 .. N : n \in 1 .. N + K /\ at2[n] = at[n]
       /\ \A n \in 1 .. N + K : ~(n <= N) => at2[n] = of[ends[n - N]]
  BY <1>4
\* The end of a record that is decoded is the end of a record begun.
<1>13. ASSUME NEW n \in 1 .. K
       PROVE  /\ ends[n] \in 1 .. L /\ ends[n] < r /\ of[ends[n]] \in 1 .. M
              /\ bg[of[ends[n]]] = records[n] /\ pos[ends[n]] = Len(records[n])
  <2> DEFINE e == ends[n]
  <2>1. e \in 1 .. r - 1
    BY <1>3
  <2> HIDE DEF e
  <2>2. e \in 1 .. B /\ e \in 1 .. L /\ e < r
    BY ONLY <1>4, <2>1
  <2>3. C[e] = records[n] /\ records[n] # <<>>
    BY <1>3, <1>6, FramesAreSequences DEF e
  <2>4. of[e] \in 1 .. M
    BY <1>2, <2>2
  <2>5. C[e] = IF pos[e] = Len(bg[of[e]]) THEN bg[of[e]] ELSE <<>>
    BY <1>22, <2>2
  <2>6. bg[of[e]] = records[n] /\ pos[e] = Len(records[n])
    BY <2>3, <2>5
  <2> QED BY <2>2, <2>4, <2>6 DEF e
\* What is behind the end of a record is of a later one.
<1>14. ASSUME NEW n \in 1 .. K, NEW i \in 1 .. L, ends[n] < i
       PROVE  of[ends[n]] < of[i]
  <2>1. ends[n] \in 1 .. L /\ of[ends[n]] \in 1 .. M /\ pos[ends[n]] = Len(bg[of[ends[n]]])
    BY <1>13
  <2>2. of[ends[n]] < of[i] \/ (of[ends[n]] = of[i] /\ pos[ends[n]] < pos[i])
    BY <1>2, <1>14, <2>1
  <2>3. pos[i] \in 1 .. Len(bg[of[i]]) /\ pos[ends[n]] \in Nat
    BY <1>2, <2>1
  <2>4. ~(of[ends[n]] = of[i] /\ pos[ends[n]] < pos[i])
    <3> SUFFICES ASSUME of[ends[n]] = of[i], pos[ends[n]] < pos[i] PROVE FALSE
      OBVIOUS
    <3>1. pos[ends[n]] = Len(bg[of[i]])
      BY <2>1
    <3> QED BY <2>3, <3>1
  <2> QED BY <2>2, <2>4
<1> HIDE DEF of2, pos2
<1>15. Origins(S2, bg, of2, pos2)
  <2>1. ASSUME NEW i \in 1 .. L2
        PROVE  /\ of2[i] \in 1 .. M /\ pos2[i] \in Nat
               /\ pos2[i] \in 1 .. Len(bg[of2[i]]) /\ S2[i] = bg[of2[i]][pos2[i]]
    <3> DEFINE j == r + i - 1
    <3>1. j \in 1 .. L /\ S2[i] = S[j] /\ of2[i] = of[j] /\ pos2[i] = pos[j]
      BY <1>7, <1>11
    <3> HIDE DEF j
    <3>2. of[j] \in 1 .. M /\ pos[j] \in Nat
          /\ pos[j] \in 1 .. Len(bg[of[j]]) /\ S[j] = bg[of[j]][pos[j]]
      BY <1>2, <3>1
    <3> QED BY <3>1, <3>2
  <2>2. of2 \in [1 .. L2 -> 1 .. M] /\ pos2 \in [1 .. L2 -> Nat]
    <3>1. of2 = [i \in 1 .. L2 |-> of2[i]] /\ pos2 = [i \in 1 .. L2 |-> pos2[i]]
      BY DEF of2, pos2
    <3> QED BY <2>1, <3>1
  <2>3. ASSUME NEW i \in 1 .. L2, NEW j \in 1 .. L2, i < j
        PROVE  of2[i] < of2[j] \/ (of2[i] = of2[j] /\ pos2[i] < pos2[j])
    <3>1. i \in Int /\ j \in Int /\ r \in Int
      BY <1>4
    <3>2. r + i - 1 < r + j - 1
      BY ONLY <2>3, <3>1
    <3> QED BY <1>2, <1>7, <1>11, <3>2, SMTT(30)
  <2> QED BY <2>1, <2>2, <2>3 DEF Origins, L2, M
<1>16. Chosen(dec2, bg, at2)
  <2>1. ASSUME NEW n \in 1 .. N + K
        PROVE  at2[n] \in 1 .. M /\ dec2[n] = bg[at2[n]]
    <3>1. CASE n <= N
      <4>1. n \in 1 .. N
        BY <1>10, <3>1
      <4>2. at[n] \in 1 .. M /\ dec[n] = bg[at[n]]
        BY <1>1, <4>1 DEF Chosen, N, M
      <4> QED BY <1>8, <1>12, <3>1, <4>1, <4>2
    <3>2. CASE ~(n <= N)
      <4>1. n - N \in 1 .. K
        BY <1>10, <3>2
      <4>2. dec2[n] = records[n - N] /\ at2[n] = of[ends[n - N]]
        BY <1>8, <1>12, <3>2
      <4>3. of[ends[n - N]] \in 1 .. M /\ bg[of[ends[n - N]]] = records[n - N]
        BY <1>13, <4>1
      <4> QED BY <4>2, <4>3
    <3> QED BY <3>1, <3>2
  <2>2. at2 \in [1 .. N + K -> 1 .. M]
    BY <2>1
  <2> HIDE DEF at2
  <2>3. ASSUME NEW m \in 1 .. N + K, NEW n \in 1 .. N + K, m < n
        PROVE  at2[m] < at2[n]
    <3>1. CASE n <= N
      <4>1. m \in 1 .. N /\ n \in 1 .. N
        BY <1>4, <2>3, <3>1
      <4> QED BY <1>1, <1>12, <2>3, <4>1 DEF Chosen, N
    <3>2. CASE ~(n <= N) /\ m <= N
      <4>1. m \in 1 .. N /\ n - N \in 1 .. K
        BY <1>10, <3>2
      <4>2. ends[n - N] \in 1 .. L
        BY <1>13, <4>1
      <4> QED BY <1>1, <1>12, <3>2, <4>1, <4>2
    <3>3. CASE ~(n <= N) /\ ~(m <= N)
      <4>1. m - N \in 1 .. K /\ n - N \in 1 .. K /\ m - N < n - N
        BY <1>4, <1>10, <2>3, <3>3
      <4>2. ends[m - N] < ends[n - N] /\ ends[n - N] \in 1 .. L
        BY <1>3, <1>13, <4>1
      <4> QED BY <1>12, <1>14, <3>3, <4>1, <4>2
    <3> QED BY <3>1, <3>2, <3>3
  <2> QED BY <1>9, <2>1, <2>2, <2>3 DEF Chosen, M
<1>17. ASSUME NEW d \in 1 .. N + K, NEW i \in 1 .. L2
       PROVE  at2[d] < of2[i]
  <2>1. r + i - 1 \in 1 .. L /\ of2[i] = of[r + i - 1]
    BY <1>7, <1>11
  <2>2. CASE d <= N
    BY <1>1, <1>10, <1>12, <2>1, <2>2
  <2>3. CASE ~(d <= N)
    <3>1. d - N \in 1 .. K /\ ends[d - N] < r /\ ends[d - N] \in 1 .. L
      BY <1>10, <1>13, <2>3
    <3>2. ends[d - N] < r + i - 1
      <4> DEFINE e == ends[d - N]
      <4>1. e \in Nat /\ e < r /\ r \in Nat /\ i \in Nat /\ i >= 1
        BY <1>4, <3>1
      <4> HIDE DEF e
      <4>2. e < r + i - 1
        BY ONLY <4>1
      <4> QED BY <4>2 DEF e
    <3> QED BY <1>12, <1>14, <2>1, <2>3, <3>1, <3>2
  <2> QED BY <2>2, <2>3
<1> HIDE DEF at2
\* A record that is whole, or as far as the stream goes, is decoded or kept.
<1>18. ASSUME NEW m \in 1 .. M, NEW p \in 1 .. Len(bg[m]), NEW s \in Nat, s >= 1,
              Holds(S, of, pos, m, p, s), p = Len(bg[m]) \/ s + p - 1 = L
       PROVE  \/ r <= s /\ Holds(S2, of2, pos2, m, p, s - r + 1)
              \/ p = Len(bg[m]) /\ \E d \in 1 .. N + K : at2[d] = m
  <2> DEFINE f == bg[m]
             l == Len(f)
  <2>1. f \in Frames /\ l \in Nat /\ p \in Nat /\ p >= 1 /\ p <= l
    <3>1. f \in Frames /\ p \in 1 .. l
      BY <1>5
    <3> HIDE DEF f
    <3>2. l \in Nat
      BY <3>1, FrameHas
    <3> QED BY <3>1, <3>2
  <2>2. \A k \in 1 .. p : s + k - 1 \in 1 .. L /\ of[s + k - 1] = m /\ pos[s + k - 1] = k
    BY <1>18 DEF Holds, L
  <2>3. p = l \/ s + p - 1 = L
    BY <1>18
  <2> HIDE DEF f, l
  <2>4. CASE r <= s
    <3>1. ASSUME NEW k \in 1 .. p
          PROVE  /\ (s - r + 1) + k - 1 \in 1 .. L2
                 /\ of2[(s - r + 1) + k - 1] = m /\ pos2[(s - r + 1) + k - 1] = k
      <4> DEFINE i == (s - r + 1) + k - 1
      <4>1. s + k - 1 \in 1 .. L
        BY <2>2
      <4>2. i \in 1 .. L2 /\ r + i - 1 = s + k - 1
        BY <1>4, <2>1, <2>4, <4>1
      <4> HIDE DEF i
      <4>3. of2[i] = of[s + k - 1] /\ pos2[i] = pos[s + k - 1]
        BY <1>11, <4>2
      <4>4. of2[i] = m /\ pos2[i] = k
        BY <2>2, <4>3
      <4> QED BY <4>2, <4>4 DEF i
    <3> QED BY <2>4, <3>1 DEF Holds, L2
  <2>5. CASE s < r
    <3> DEFINE q == IF s + p - 1 <= B THEN p ELSE B - s + 1
    <3>1. s \in 1 .. r - 1 /\ q \in 1 .. l /\ q <= p /\ q \in Nat
      BY <1>4, <1>18, <2>1, <2>5
    <3>2. q = l \/ s + q - 1 = B
      <4>1. CASE s + p - 1 <= B
        <5>1. q = p
          BY <4>1
        <5>2. B \in Nat /\ s \in Nat /\ p \in Nat /\ (p = l \/ s + p - 1 >= B)
          BY <1>4, <1>18, <2>1, <2>3
        <5> HIDE DEF q, l
        <5> QED BY ONLY <4>1, <5>1, <5>2
      <4>2. CASE ~(s + p - 1 <= B)
        <5>1. q = B - s + 1
          BY <4>2
        <5> QED BY <1>4, <1>18, <5>1
      <4> QED BY <4>1, <4>2
    <3>3. \A k \in 1 .. q : s + k - 1 <= B
      BY <1>4, <1>18, <2>1
    <3> HIDE DEF q
    <3>4. ASSUME NEW k \in 1 .. q
          PROVE  s + k - 1 <= B /\ bytes[s + k - 1] = f[k] /\ C[s + k - 1] = CrcIn(f)[k]
      <4>1. k \in 1 .. p
        BY <2>1, <3>1
      <4>4. C[s + k - 1] = CrcIn(f)[k]
        <5>1. s + k - 1 \in 1 .. L /\ of[s + k - 1] = m /\ pos[s + k - 1] = k
          BY <2>2, <4>1
        <5>2. C[s + k - 1] = IF k = Len(f) THEN f ELSE <<>>
          BY <1>22, <5>1 DEF f
        <5>3. k \in 1 .. Len(f)
          BY <3>1 DEF l
        <5> QED BY <5>2, <5>3 DEF CrcIn
      <4>2. s + k - 1 \in 1 .. B
        <5>1. s + k - 1 <= B
          BY <3>3
        <5>2. q \in Nat /\ s >= 1
          BY <1>18, <3>1
        <5> QED BY <1>4, <5>1, <5>2
      <4>3. bytes[s + k - 1] = S[s + k - 1] /\ S[s + k - 1] = bg[m][k]
        BY <1>2, <1>7, <2>2, <4>1, <4>2, SMTT(30)
      <4> QED BY <3>3, <4>3, <4>4 DEF f
    <3>5. Begins(bytes, C, f, s, q)
      BY <3>2, <3>4 DEF Begins, B, l
    <3>6. q = l /\ \E n \in 1 .. K : ends[n] = s + l - 1
      BY <1>3, <2>1, <3>1, <3>5 DEF l
    <3>7. PICK n \in 1 .. K : ends[n] = s + l - 1
      BY <3>6
    <3>8. p = l
      BY <2>1, <3>1, <3>6
    <3>9. of[ends[n]] = m
      <4>1. p \in 1 .. p
        BY <2>1
      <4> QED BY <2>2, <3>7, <3>8, <4>1
    <3>10. n + N \in 1 .. N + K /\ ~(n + N <= N) /\ (n + N) - N = n
      BY <1>4
    <3>11. at2[n + N] = m
      BY <1>12, <3>9, <3>10
    <3> QED BY <3>8, <3>10, <3>11 DEF l, f
  <2>6. r <= s \/ s < r
    BY <1>4, <1>18
  <2> QED BY <2>4, <2>5, <2>6
<1>19. ASSUME NEW m \in 1 .. M, Arrived(S, bg, dec, of, pos, at, m)
       PROVE  Arrived(S2, bg, dec2, of2, pos2, at2, m)
  <2>1. CASE \E d \in 1 .. N : at[d] = m
    <3>1. \E d \in 1 .. N + K : at2[d] = m
      BY <1>12, <2>1
    <3> QED BY <1>9, <3>1 DEF Arrived
  <2>2. CASE \E s \in 1 .. L : Holds(S, of, pos, m, Len(bg[m]), s)
    <3>1. PICK s \in 1 .. L : Holds(S, of, pos, m, Len(bg[m]), s)
      BY <2>2
    <3> DEFINE l == Len(bg[m])
    <3>2. l \in 1 .. l /\ l \in Nat /\ l >= 1 /\ s \in Nat /\ s >= 1
      BY <1>5, FrameHas
    <3>3. \/ r <= s /\ Holds(S2, of2, pos2, m, l, s - r + 1)
          \/ \E d \in 1 .. N + K : at2[d] = m
      BY <1>18, <3>1, <3>2
    <3>4. CASE r <= s /\ Holds(S2, of2, pos2, m, l, s - r + 1)
      <4>1. s - r + 1 \in 1 .. L2
        BY <1>4, <3>4
      <4> QED BY <3>4, <4>1 DEF Arrived, L2
    <3>5. CASE \E d \in 1 .. N + K : at2[d] = m
      BY <1>9, <3>5 DEF Arrived
    <3> QED BY <3>3, <3>4, <3>5
  <2> QED BY <1>19, <2>1, <2>2 DEF Arrived, N, L
<1>20. Ledger(S2, bg, dec2, lg, of2, pos2, at2, put)
  <2>1. \A n \in 1 .. Len(lg) : put[n] \in 1 .. M
    BY <1>1 DEF Chosen, M
  <2>2. \A n \in 1 .. Len(lg) : Arrived(S2, bg, dec2, of2, pos2, at2, put[n])
    BY <1>1, <1>19, <2>1
  <2> QED BY <1>1, <1>9, <1>15, <1>16, <1>17, <2>2 DEF Ledger, L2
<1>21. ASSUME NEW rec \in Frames, NEW rst,
              Putting(S, bg, dec, lg, of, pos, at, put, rec, rst)
       PROVE  /\ Putting(S2, bg, dec2, lg, of2, pos2, at2, put, rec, rst)
              /\ AtEnd(S, bg, of, pos, rec, rst) => AtEnd(S2, bg, of2, pos2, rec, rst)
  <2> DEFINE a == Len(rec)
             b == Len(rst)
             p == a - b
  <2>1. /\ bg # <<>> /\ bg[M] = rec /\ b \in 1 .. a /\ rst = From(rec, p + 1)
        /\ \A i \in 1 .. L : of[i] = M => pos[i] <= p
        /\ \A d \in 1 .. N : at[d] < M
        /\ \A n \in 1 .. Len(lg) : put[n] < M
    BY <1>21 DEF Putting, M, L, N
  <2>2. a \in Nat /\ b \in Nat /\ b >= 1 /\ M \in 1 .. M
    <3>1. M # 0
      BY <2>1, EmptySeq DEF M
    <3> QED BY <1>4, <2>1, <3>1, FrameHas
  <2>3. p \in Nat /\ p < a
    BY <2>1, <2>2
  <2>4. a = Len(bg[M])
    BY <2>1
  <2>8. AtEnd(S, bg, of, pos, rec, rst) => p <= L /\ Holds(S, of, pos, M, p, L - p + 1)
    BY DEF AtEnd, L, M
  <2> HIDE DEF p, a
  <2>5. \A i \in 1 .. L2 : of2[i] = M => pos2[i] <= p
    BY <1>7, <1>11, <2>1
  <2>6. ASSUME NEW d \in 1 .. N + K
        PROVE  at2[d] < M
    <3>1. CASE d <= N
      BY <1>10, <1>12, <2>1, <3>1
    <3>2. CASE ~(d <= N)
      <4>1. d - N \in 1 .. K
        BY <1>10, <3>2
      <4> DEFINE e == ends[d - N]
      <4>2. e \in 1 .. L /\ of[e] \in 1 .. M /\ pos[e] = Len(bg[of[e]]) /\ at2[d] = of[e]
        BY <1>12, <1>13, <3>2, <4>1
      <4> HIDE DEF e
      <4>3. of[e] # M
        <5> SUFFICES ASSUME of[e] = M PROVE FALSE
          OBVIOUS
        <5>1. pos[e] <= p /\ pos[e] = a
          BY <2>1, <2>4, <4>2
        <5> QED BY <2>2, <2>3, <5>1
      <4> QED BY <1>4, <4>2, <4>3, SMTT(30)
    <3> QED BY <3>1, <3>2
  <2>7. ASSUME AtEnd(S, bg, of, pos, rec, rst)
        PROVE  p <= L2 /\ Holds(S2, of2, pos2, M, p, L2 - p + 1)
    <3>1. CASE p = 0
      <4>1. 1 .. p = {}
        BY <3>1
      <4> QED BY <1>4, <3>1, <4>1 DEF Holds
    <3>2. CASE p # 0
      <4> DEFINE s == L - p + 1
      <4>1. p <= L /\ Holds(S, of, pos, M, p, s)
        BY <2>7, <2>8
      <4>2. s \in Nat /\ s >= 1 /\ s + p - 1 = L /\ p \in 1 .. Len(bg[M]) /\ p # Len(bg[M])
        <5>1. s \in Nat /\ s >= 1 /\ s + p - 1 = L
          BY ONLY <1>4, <2>3, <3>2, <4>1
        <5>2. p \in 1 .. a /\ p # a
          BY ONLY <2>2, <2>3, <3>2
        <5> QED BY <2>4, <5>1, <5>2
      <4> HIDE DEF s
      <4>3. r <= s /\ Holds(S2, of2, pos2, M, p, s - r + 1)
        BY <1>18, <2>2, <4>1, <4>2
      <4>4. s - r + 1 = L2 - p + 1 /\ p <= L2
        <5>1. /\ L \in Nat /\ L2 = L - r + 1 /\ r \in Nat /\ p \in Nat /\ p <= L
              /\ r <= s /\ s = L - p + 1
          BY <1>4, <2>3, <4>1, <4>3 DEF s
        <5> HIDE DEF p
        <5> QED BY ONLY <5>1
      <4> QED BY <4>3, <4>4
    <3> QED BY <3>1, <3>2
  <2>9. Putting(S2, bg, dec2, lg, of2, pos2, at2, put, rec, rst)
    BY <1>9, <2>1, <2>5, <2>6 DEF Putting, M, L2, p, a
  <2>10. AtEnd(S, bg, of, pos, rec, rst) => AtEnd(S2, bg, of2, pos2, rec, rst)
    BY <2>7 DEF AtEnd, M, L2, p, a
  <2> QED BY <2>9, <2>10
<1>24. Crcs(C2, S2, bg, of2, pos2)
  <2> SUFFICES ASSUME NEW k \in 1 .. L2
               PROVE  C2[k] = IF pos2[k] = Len(bg[of2[k]]) THEN bg[of2[k]] ELSE <<>>
    BY <1>23 DEF Crcs, L2
  <2>1. r + k - 1 \in 1 .. L /\ of2[k] = of[r + k - 1] /\ pos2[k] = pos[r + k - 1]
    BY <1>7, <1>11
  <2>2. C2[k] = C[r + k - 1]
    BY <1>23
  <2> QED BY <1>22, <2>1, <2>2
<1> QED
  BY <1>19, <1>20, <1>21, <1>24 DEF dec2, M, ReadOff

\* One more element behind both.
LEMMA AppendBehind ==
  ASSUME NEW X, NEW xs \in Seq(X), NEW ys \in Seq(X), NEW x \in X
  PROVE  xs \o Append(ys, x) = Append(xs \o ys, x)
OBVIOUS

\* What was put and is not scanned.
Stream == buffer \o line

\* Can context c go on?  What a fault has broken off cannot.
Live(c) == level = "fault" => c = "fault"

Books(of, pos, at, put) ==
  /\ Ledger(Stream, begun, decoded, log, of, pos, at, put)
  /\ Crcs(crcOf, Stream, begun, of, pos)

OpenBooks(of, pos, at, put) ==
  \A c \in Contexts :
    rest[c] # <<>> /\ Live(c) =>
      /\ Putting(Stream, begun, decoded, log, of, pos, at, put, record[c], rest[c])
      /\ whole[c] => AtEnd(Stream, begun, of, pos, record[c], rest[c])

FaultBooks(of, pos, at) ==
  level = "fault" /\ reported # <<>> =>
    Reporting(Stream, begun, decoded, of, pos, at, reported, reports,
              rest["fault"] # <<>> /\ whole["fault"])

Accounts(of, pos, at, put) ==
  Books(of, pos, at, put) /\ OpenBooks(of, pos, at, put) /\ FaultBooks(of, pos, at)

HistoryTypes ==
  /\ line \in Seq(Nat) /\ buffer \in Seq(Nat) /\ crcOf \in Marks
  /\ begun \in Seq(Frames) /\ decoded \in Seq(Frames) /\ log \in Seq(Frames)
  /\ whole \in [Contexts -> BOOLEAN] /\ reported \in Reports \cup {<<>>}

\* The inductive invariant of the records on their way, as long as the host is not fooled.
AccountsInv ==
  /\ HistoryTypes /\ WaitsForMore(buffer)
  /\ \E of, pos, at, put : Accounts(of, pos, at, put)

LEMMA InitAccounts == TraceInit => AccountsInv
<1> SUFFICES ASSUME TraceInit PROVE AccountsInv
  OBVIOUS
<1>1. /\ line = <<>> /\ buffer = <<>> /\ begun = <<>> /\ decoded = <<>> /\ log = <<>> /\ crcOf = <<>>
      /\ reported = <<>> /\ level = "main" /\ \A c \in Contexts : rest[c] = <<>>
      /\ whole \in [Contexts -> BOOLEAN]
  BY DEF TraceInit, Quiet
<1>2. HistoryTypes
  BY <1>1 DEF HistoryTypes, Marks
<1>3. WaitsForMore(buffer)
  <2>1. \A f \in Frames : ~(Len(f) <= 0)
    <3> TAKE f \in Frames
    <3>1. Len(f) \in Nat /\ Len(f) >= 5
      BY FrameHas
    <3> QED BY <3>1
  <2>2. 0 < FrameSize(MaxArgs) /\ Len(buffer) = 0
    BY <1>1, TraceConstants
  <2> QED BY <2>1, <2>2 DEF WaitsForMore
<1> DEFINE none == [i \in 1 .. 0 |-> 0]
<1>4. Stream = <<>> /\ Len(Stream) = 0 /\ Len(begun) = 0 /\ Len(decoded) = 0 /\ Len(log) = 0
      /\ 1 .. 0 = {}
  BY <1>1 DEF Stream
<1>5. none \in [1 .. 0 -> 1 .. 0] /\ none \in [1 .. 0 -> Nat]
  BY <1>4
<1> HIDE DEF none
<1>6. Books(none, none, none, none)
  BY <1>1, <1>4, <1>5 DEF Books, Ledger, Origins, Chosen, Crcs
<1>7. OpenBooks(none, none, none, none) /\ FaultBooks(none, none, none)
  BY <1>1 DEF OpenBooks, FaultBooks
<1> QED
  BY <1>2, <1>3, <1>6, <1>7 DEF AccountsInv, Accounts

\* A record gets the lock.
LEMMA LockAccounts ==
  ASSUME HistoryTypes, NEW of, NEW pos, NEW at, NEW put, Books(of, pos, at, put),
         LockInv, MayLock,
         NEW c \in Contexts, NEW f \in Frames, Emit(c, f),
         UNCHANGED <<line, crcOf, buffer, decoded, log>>,
         \A d \in Contexts : d # c /\ Live(d)' => rest[d] = <<>>
  PROVE  /\ begun' = Append(begun, f) /\ begun' \in Seq(Frames)
         /\ whole' \in [Contexts -> BOOLEAN] /\ whole'[c] = TRUE
         /\ rest'[c] = f /\ f # <<>> /\ Stream' = Stream
         /\ Books(of, pos, at, put)' /\ OpenBooks(of, pos, at, put)'
         /\ \A m \in 1 .. Len(begun) :
              Arrived(Stream, begun, decoded, of, pos, at, m)
                => Arrived(Stream', begun', decoded', of, pos, at, m)
<1>1. /\ record' = [record EXCEPT ![c] = f] /\ rest' = [rest EXCEPT ![c] = f]
      /\ begun' = Append(begun, f) /\ whole' = [whole EXCEPT ![c] = TRUE]
      /\ UNCHANGED <<line, crcOf, buffer, decoded, log>>
  BY DEF Emit
<1>2. Stream' = Stream /\ Stream \in Seq(Nat) /\ begun \in Seq(Frames)
  BY <1>1, ConcatProperties DEF Stream, HistoryTypes
<1>3. /\ whole' \in [Contexts -> BOOLEAN] /\ whole'[c] = TRUE /\ rest'[c] = f /\ record'[c] = f
      /\ \A d \in Contexts : d # c => rest'[d] = rest[d]
  BY <1>1 DEF HistoryTypes, LockInv, TraceTypeOK
<1>4. begun' \in Seq(Frames)
  BY <1>1, <1>2, BeginMore
<1>5. f # <<>>
  BY FramesAreSequences
<1>6. /\ Ledger(Stream, begun, decoded, log, of, pos, at, put)
      /\ Crcs(crcOf, Stream, begun, of, pos)
  BY DEF Books
<1>12. Crcs(crcOf, Stream, Append(begun, f), of, pos)
  <2>1. \A i \in 1 .. Len(Stream) : of[i] \in 1 .. Len(begun)
    BY <1>6 DEF Ledger, Origins
  <2>2. \A m \in 1 .. Len(begun) : Append(begun, f)[m] = begun[m]
    BY <1>2, BeginMore
  <2> QED BY <1>6, <2>1, <2>2 DEF Crcs
<1>7. /\ Ledger(Stream, Append(begun, f), decoded, log, of, pos, at, put)
      /\ \A m \in 1 .. Len(begun) :
           Arrived(Stream, begun, decoded, of, pos, at, m)
             => Arrived(Stream, Append(begun, f), decoded, of, pos, at, m)
  BY <1>2, <1>6, LedgerBegins
<1>8. /\ Putting(Stream, Append(begun, f), decoded, log, of, pos, at, put, f, f)
      /\ AtEnd(Stream, Append(begun, f), of, pos, f, f)
  BY <1>2, <1>6, PuttingBegins
<1>9. Books(of, pos, at, put)'
  BY <1>1, <1>2, <1>7, <1>12 DEF Books
<1>10. OpenBooks(of, pos, at, put)'
  <2> SUFFICES ASSUME NEW d \in Contexts, rest'[d] # <<>>, Live(d)'
               PROVE  /\ Putting(Stream', begun', decoded', log', of, pos, at, put,
                                 record'[d], rest'[d])
                      /\ whole'[d] => AtEnd(Stream', begun', of, pos, record'[d], rest'[d])
    BY DEF OpenBooks
  <2>1. d = c
    BY <1>3
  <2> QED BY <1>1, <1>2, <1>3, <1>8, <2>1
<1>11. \A m \in 1 .. Len(begun) :
         Arrived(Stream, begun, decoded, of, pos, at, m)
           => Arrived(Stream', begun', decoded', of, pos, at, m)
  BY <1>1, <1>2, <1>7
<1> QED
  BY <1>1, <1>2, <1>3, <1>4, <1>5, <1>9, <1>10, <1>11

LEMMA TraceAccounts ==
  ASSUME LockInv, AccountsInv, NEW f \in Events, Trace(f) \/ Interrupt(f)
  PROVE  AccountsInv'
<1>1. /\ f \in Frames /\ level = "main" /\ level' \in {"main", "isr"}
      /\ UNCHANGED <<line, crcOf, buffer, decoded, log, reported>>
  BY DEF Frames, Trace, Interrupt, host, stream, report
<1>2. PICK c \in Contexts : c = (IF Trace(f) THEN "main" ELSE "isr")
  BY DEF Contexts
<1>3. Emit(c, f) /\ (c = "main" => record["main"] = <<>>)
  BY <1>2 DEF Trace, Interrupt
<1>4. PICK of, pos, at, put : Accounts(of, pos, at, put)
  BY DEF AccountsInv
<1>5. FaultBooks(of, pos, at)'
  BY <1>1 DEF FaultBooks
<1>6. WaitsForMore(buffer)'
  BY <1>1 DEF AccountsInv
<1>7. CASE MayLock
  <2>1. \A d \in Contexts : rest[d] = <<>>
    <3>1. trace_busy = 0
      BY <1>7 DEF MayLock
    <3> QED BY <1>1, <3>1 DEF LockInv, Contexts
  <2>2. HistoryTypes /\ Books(of, pos, at, put)
    BY <1>4 DEF AccountsInv, Accounts
  <2>3. /\ begun' \in Seq(Frames) /\ whole' \in [Contexts -> BOOLEAN]
        /\ Books(of, pos, at, put)' /\ OpenBooks(of, pos, at, put)'
    BY <1>1, <1>3, <1>7, <2>1, <2>2, LockAccounts
  <2>4. HistoryTypes'
    BY <1>1, <2>2, <2>3 DEF HistoryTypes
  <2> QED BY <1>5, <1>6, <2>3, <2>4 DEF AccountsInv, Accounts
<1>8. CASE ~MayLock
  <2>1. UNCHANGED <<record, rest, begun, whole>>
    BY <1>3, <1>8 DEF Emit, tracer
  <2>2. Stream' = Stream
    BY <1>1 DEF Stream
  <2>3. Books(of, pos, at, put)'
    BY <1>1, <1>4, <2>1, <2>2 DEF Accounts, Books
  <2>4. OpenBooks(of, pos, at, put)'
    BY <1>1, <1>4, <2>1, <2>2 DEF Accounts, OpenBooks, Live
  <2>5. HistoryTypes'
    BY <1>1, <2>1 DEF HistoryTypes, AccountsInv
  <2> QED BY <1>5, <1>6, <2>3, <2>4, <2>5 DEF AccountsInv, Accounts
<1> QED
  BY <1>7, <1>8

\* What does not touch the stream, the records begun or the host keeps the books.
LEMMA BooksStay ==
  ASSUME NEW of, NEW pos, NEW at, NEW put, Books(of, pos, at, put),
         UNCHANGED <<line, crcOf, buffer, begun, decoded, log>>
  PROVE  Stream' = Stream /\ Books(of, pos, at, put)'
BY DEF Stream, Books

LEMMA OthersAccount ==
  ASSUME LockInv, AccountsInv, Unlock \/ Fault \/ ReturnFromInterrupt \/ Reset \/ UNCHANGED traceVars
  PROVE  AccountsInv'
<1>1. UNCHANGED <<line, crcOf, buffer, begun, decoded, log>>
  BY DEF Unlock, Fault, ReturnFromInterrupt, Reset, traceVars, tracer, host, stream
<1>2. PICK of, pos, at, put : Accounts(of, pos, at, put)
  BY DEF AccountsInv
<1>3. Books(of, pos, at, put)' /\ Stream' = Stream
  BY <1>1, <1>2, BooksStay DEF Accounts
<1>4. WaitsForMore(buffer)'
  BY <1>1 DEF AccountsInv
<1>5. SUFFICES OpenBooks(of, pos, at, put)' /\ FaultBooks(of, pos, at)'
               /\ whole' \in [Contexts -> BOOLEAN] /\ reported' \in Reports \cup {<<>>}
  BY <1>1, <1>3, <1>4 DEF AccountsInv, Accounts, HistoryTypes
<1>6. OpenBooks(of, pos, at, put) /\ FaultBooks(of, pos, at)
      /\ whole \in [Contexts -> BOOLEAN] /\ reported \in Reports \cup {<<>>}
  BY <1>2 DEF AccountsInv, Accounts, HistoryTypes
<1>7. CASE Unlock
  <2>1. /\ rest[level] = <<>> /\ record' = [record EXCEPT ![level] = <<>>]
        /\ UNCHANGED <<level, rest, reports, reported, whole>>
    BY <1>7 DEF Unlock, report
  <2>2. \A c \in Contexts : rest[c] # <<>> => record'[c] = record[c]
    BY <2>1 DEF LockInv, TraceTypeOK
  <2>3. OpenBooks(of, pos, at, put)'
    BY <1>1, <1>3, <1>6, <2>1, <2>2 DEF OpenBooks, Live
  <2>4. FaultBooks(of, pos, at)'
    BY <1>1, <1>3, <1>6, <2>1 DEF FaultBooks
  <2> QED BY <1>6, <2>1, <2>3, <2>4
<1>8. CASE Fault
  <2>1. /\ level' = "fault" /\ rest' = [rest EXCEPT !["fault"] = <<>>] /\ UNCHANGED whole
        /\ \E r \in Reports : reports' = r /\ reported' = r
    BY <1>8 DEF Fault
  <2>2. rest'["fault"] = <<>>
    BY <2>1 DEF LockInv, TraceTypeOK, Contexts
  <2>3. OpenBooks(of, pos, at, put)'
    BY <2>1, <2>2 DEF OpenBooks, Live
  <2>4. PICK r \in Reports : reports' = r /\ reported' = r
    BY <2>1
  <2>5. r \in Seq(Frames) /\ Len(r) \in Nat /\ Len(r) - Len(r) = 0 /\ 0 + 1 = 1 /\ From(r, 1) = r
        /\ 1 .. 0 = {} /\ 0 \in 0 .. Len(r)
    BY ReportsAreFrames, FromOne, LenProperties
  <2>6. begun \in Seq(Frames) /\ 0 <= Len(begun)
    BY LenProperties DEF AccountsInv, HistoryTypes
  <2>7. \A open : Reporting(Stream, begun, decoded, of, pos, at, r, r, open)
    BY <2>5, <2>6 DEF Reporting
  <2>8. FaultBooks(of, pos, at)'
    BY <1>1, <1>3, <2>4, <2>7 DEF FaultBooks
  <2> QED BY <1>6, <2>1, <2>3, <2>4, <2>8
<1>9. CASE ReturnFromInterrupt
  <2>1. /\ level = "isr" /\ level' = "main"
        /\ UNCHANGED <<record, rest, reports, reported, whole>>
    BY <1>9 DEF ReturnFromInterrupt, tracer, report
  <2>2. OpenBooks(of, pos, at, put)'
    BY <1>1, <1>3, <1>6, <2>1 DEF OpenBooks, Live
  <2>3. FaultBooks(of, pos, at)'
    BY <2>1 DEF FaultBooks
  <2> QED BY <1>6, <2>1, <2>2, <2>3
<1>10. CASE Reset
  <2>1. /\ level' = "main" /\ rest' = Quiet /\ whole' = [c \in Contexts |-> FALSE]
        /\ reported' = <<>>
    BY <1>10 DEF Reset
  <2>2. OpenBooks(of, pos, at, put)'
    BY <2>1 DEF OpenBooks, Quiet
  <2>3. FaultBooks(of, pos, at)'
    BY <2>1 DEF FaultBooks
  <2> QED BY <2>1, <2>2, <2>3
<1>11. CASE UNCHANGED traceVars
  <2>1. UNCHANGED <<level, record, rest, reports, reported, whole>>
    BY <1>11 DEF traceVars
  <2> QED BY <1>1, <1>3, <1>6, <2>1 DEF OpenBooks, FaultBooks, Live
<1> QED
  BY <1>7, <1>8, <1>9, <1>10, <1>11

LEMMA ReportAccounts ==
  ASSUME LockInv, AccountsInv, ReportFault
  PROVE  AccountsInv'
<1> DEFINE f == Head(reports)
<1>1. /\ level = "fault" /\ level' = "fault" /\ record["fault"] = <<>> /\ reports # <<>>
      /\ reports' = Tail(reports) /\ Emit("fault", f)
      /\ UNCHANGED <<line, crcOf, buffer, decoded, log, reported>>
  BY DEF ReportFault, host, stream
<1>2. reports \in Seq(Frames) /\ f \in Frames /\ MayLock
  <2>1. reports \in Seq(Frames) /\ trace_busy = 0
    BY <1>1 DEF LockInv, TraceTypeOK, Emitting
  <2> QED BY <1>1, <2>1, HeadTailProperties DEF MayLock
<1> HIDE DEF f
<1>3. rest["fault"] = <<>> /\ "fault" \in Contexts
  BY <1>1 DEF LockInv, Contexts, Emitting
<1>4. PICK of, pos, at, put : Accounts(of, pos, at, put)
  BY DEF AccountsInv
<1>5. \A d \in Contexts : d # "fault" /\ Live(d)' => rest[d] = <<>>
  BY <1>1 DEF Live
<1>6. HistoryTypes /\ Books(of, pos, at, put) /\ FaultBooks(of, pos, at) /\ WaitsForMore(buffer)
  BY <1>4 DEF AccountsInv, Accounts
<1>7. /\ begun' = Append(begun, f) /\ begun' \in Seq(Frames)
      /\ whole' \in [Contexts -> BOOLEAN] /\ whole'["fault"] = TRUE
      /\ rest'["fault"] = f /\ f # <<>> /\ Stream' = Stream
      /\ Books(of, pos, at, put)' /\ OpenBooks(of, pos, at, put)'
      /\ \A m \in 1 .. Len(begun) :
           Arrived(Stream, begun, decoded, of, pos, at, m)
             => Arrived(Stream', begun', decoded', of, pos, at, m)
  BY <1>1, <1>2, <1>3, <1>5, <1>6, LockAccounts
<1>8. HistoryTypes' /\ WaitsForMore(buffer)'
  BY <1>1, <1>6, <1>7 DEF HistoryTypes
<1>9. ASSUME reported # <<>>
      PROVE  Reporting(Stream', begun', decoded', of, pos, at, reported, reports', TRUE)
  <2> DEFINE j == Len(reported) - Len(reports)
             M == Len(begun)
             R == Len(reported)
  <2>1. Reporting(Stream, begun, decoded, of, pos, at, reported, reports, FALSE)
    BY <1>1, <1>3, <1>6, <1>9 DEF FaultBooks
  <2>2. /\ j \in 0 .. R /\ j <= M /\ reports = From(reported, j + 1)
        /\ \A n \in 1 .. j : /\ begun[M - j + n] = reported[n]
                             /\ Arrived(Stream, begun, decoded, of, pos, at, M - j + n)
    BY <2>1 DEF Reporting
  <2>3. reported \in Seq(Frames) /\ R \in Nat /\ M \in Nat /\ Len(reports) \in Nat
    BY <1>2, <1>6, <1>9, ReportsAreFrames, LenProperties DEF HistoryTypes
  <2>4. Len(reports) \in 1 .. R
    <3>1. Len(reports) # 0
      BY <1>1, <1>2, EmptySeq
    <3> QED BY <2>2, <2>3, <3>1
  <2>5. /\ f = reported[j + 1] /\ Len(reports') = Len(reports) - 1
        /\ reports' = From(reported, R - Len(reports') + 1)
    <3>1. reports = From(reported, R - Len(reports) + 1)
      BY <2>2
    <3>2. /\ Head(reports) = reported[R - Len(reports) + 1]
          /\ Len(Tail(reports)) = Len(reports) - 1
          /\ Tail(reports) = From(reported, R - Len(Tail(reports)) + 1)
      BY <2>3, <2>4, <3>1, RestBehind
    <3> QED BY <1>1, <3>2 DEF f
  <2>6. R - Len(reports') = j + 1
    BY <2>3, <2>5
  <2> HIDE DEF j, M, R
  <2>7. /\ Len(begun') = M + 1 /\ begun'[M + 1] = f
        /\ \A m \in 1 .. M : begun'[m] = begun[m]
    BY <1>2, <1>6, <1>7, BeginMore DEF HistoryTypes, M
  <2>8. j \in Nat /\ j <= M /\ j < R
    BY <2>2, <2>3, <2>4 DEF j, R
  <2>9. j + 1 \in 0 .. R /\ j + 1 <= M + 1 /\ (M + 1) - (j + 1) = M - j
    BY ONLY <2>3, <2>8
  <2>10. ASSUME NEW n \in 1 .. j + 1
         PROVE  /\ begun'[M - j + n] = reported[n]
                /\ Arrived(Stream', begun', decoded', of, pos, at, M - j + n) \/ n = j + 1
    <3>1. CASE n = j + 1
      <4>1. M - j + n = M + 1
        BY ONLY <2>3, <2>8, <3>1
      <4> QED BY <2>5, <2>7, <3>1, <4>1
    <3>2. CASE n # j + 1
      <4>1. n \in 1 .. j /\ M - j + n \in 1 .. M
        BY ONLY <2>3, <2>8, <3>2
      <4>2. Arrived(Stream', begun', decoded', of, pos, at, M - j + n)
        BY <1>7, <2>2, <4>1 DEF M
      <4> QED BY <2>2, <2>7, <4>1, <4>2
    <3> QED BY <3>1, <3>2
  <2> QED BY <2>5, <2>6, <2>7, <2>9, <2>10 DEF Reporting, R
<1>10. FaultBooks(of, pos, at)'
  BY <1>1, <1>7, <1>9 DEF FaultBooks
<1> QED
  BY <1>7, <1>8, <1>10 DEF AccountsInv, Accounts

LEMMA PutAccounts ==
  ASSUME LockInv, AccountsInv, Put
  PROVE  AccountsInv'
<1>1. /\ rest[level] # <<>> /\ rest' = [rest EXCEPT ![level] = Tail(@)]
      /\ UNCHANGED <<level, record, reports, buffer, decoded, begun>>
  BY DEF Put, host
<1>2. /\ level \in Contexts /\ "fault" \in Contexts /\ rest[level] \in Seq(Nat) /\ record[level] \in Frames
      /\ rest'[level] = Tail(rest[level])
      /\ \A c \in Contexts : c # level /\ Live(c) => rest'[c] = <<>>
  <2>1. level \in Contexts /\ "fault" \in Contexts /\ rest \in [Contexts -> Seq(Nat)]
        /\ record \in [Contexts -> Frames \cup {<<>>}]
    BY DEF LockInv, TraceTypeOK, Contexts
  <2>2. Emitting(level)
    BY <1>1, <2>1 DEF LockInv
  <2>3. \A c \in Contexts : c # level => rest'[c] = rest[c]
    BY <1>1, <2>1
  <2>4. \A c \in Contexts : c # level /\ Live(c) => rest[c] = <<>>
    BY <2>1, <2>2 DEF LockInv, Live, Contexts
  <2> QED BY <1>1, <2>1, <2>2, <2>3, <2>4 DEF Emitting
<1> DEFINE c == level
           rst == rest[level]
           rec == record[level]
<1>3. PICK of, pos, at, put : Accounts(of, pos, at, put)
  BY DEF AccountsInv
<1>4. /\ HistoryTypes /\ WaitsForMore(buffer) /\ Ledger(Stream, begun, decoded, log, of, pos, at, put)
      /\ Crcs(crcOf, Stream, begun, of, pos)
      /\ OpenBooks(of, pos, at, put) /\ FaultBooks(of, pos, at)
  BY <1>3 DEF AccountsInv, Accounts, Books
<1>5. /\ Putting(Stream, begun, decoded, log, of, pos, at, put, rec, rst)
      /\ whole[level] => AtEnd(Stream, begun, of, pos, rec, rst)
  BY <1>1, <1>2, <1>4 DEF OpenBooks, Live
<1>6. WaitsForMore(buffer)'
  BY <1>1, <1>4
<1>7. Stream \in Seq(Nat) /\ begun \in Seq(Frames) /\ log \in Seq(Frames)
      /\ line \in Seq(Nat) /\ buffer \in Seq(Nat) /\ decoded \in Seq(Frames) /\ crcOf \in Marks
      /\ whole \in [Contexts -> BOOLEAN] /\ reported \in Reports \cup {<<>>}
  BY <1>2, <1>4, ConcatProperties DEF HistoryTypes, Stream
\* One context goes on: its books are all that is open.
<1>8. ASSUME NEW of2, NEW pos2, NEW put2,
             rest'[level] # <<>> =>
               /\ Putting(Stream', begun', decoded', log', of2, pos2, at, put2,
                          rec, rest'[level])
               /\ whole'[level] => AtEnd(Stream', begun', of2, pos2, rec, rest'[level])
      PROVE  OpenBooks(of2, pos2, at, put2)'
  <2> SUFFICES ASSUME NEW d \in Contexts, rest'[d] # <<>>, Live(d)'
               PROVE  /\ Putting(Stream', begun', decoded', log', of2, pos2, at, put2,
                                 record'[d], rest'[d])
                      /\ whole'[d] => AtEnd(Stream', begun', of2, pos2, record'[d], rest'[d])
    BY DEF OpenBooks
  <2>1. d = level
    BY <1>1, <1>2 DEF Live
  <2> QED BY <1>1, <1>8, <2>1
<1>9. CASE /\ Len(line) < FifoSize
           /\ line' = Append(line, Head(rest[level]))
           /\ crcOf' = Append(crcOf, IF Len(rest[level]) = 1 THEN record[level] ELSE <<>>)
           /\ log' = IF whole[level] /\ Len(rest[level]) = 1
                     THEN Append(log, record[level]) ELSE log
           /\ UNCHANGED <<whole, reported, lost>>
  <2>1. Head(rst) \in Nat /\ line' \in Seq(Nat) /\ log' \in Seq(Frames)
    <3>1. Head(rst) \in Nat
      BY <1>1, <1>2, HeadTailProperties
    <3> QED BY <1>2, <1>7, <1>9, <3>1, AppendProperties
  <2>2. Stream' = Append(Stream, Head(rst))
    <3> DEFINE x == Head(rst)
    <3>1. x \in Nat
      BY <2>1
    <3> HIDE DEF x
    <3>2. buffer \o Append(line, x) = Append(buffer \o line, x)
      <4>1. buffer \in Seq(Nat) /\ line \in Seq(Nat)
        BY <1>7
      <4> QED BY <3>1, <4>1
    <3> QED BY <1>1, <1>9, <3>2 DEF Stream, x
  <2>9. /\ crcOf' \in Marks /\ Len(crcOf') = Len(Stream) + 1
        /\ crcOf'[Len(Stream) + 1] = IF Len(rst) = 1 THEN rec ELSE <<>>
        /\ \A i \in 1 .. Len(Stream) : crcOf'[i] = crcOf[i]
    <3> DEFINE y == IF Len(rst) = 1 THEN rec ELSE <<>>
    <3>1. y \in Frames \cup {<<>>} /\ crcOf \in Seq(Frames \cup {<<>>}) /\ Len(crcOf) = Len(Stream)
      BY <1>2, <1>4, <1>7 DEF Marks, Crcs
    <3>2. crcOf' = Append(crcOf, y)
      BY <1>9
    <3> HIDE DEF y
    <3>3. /\ crcOf' \in Seq(Frames \cup {<<>>}) /\ Len(crcOf') = Len(crcOf) + 1
          /\ crcOf'[Len(crcOf) + 1] = y /\ \A i \in 1 .. Len(crcOf) : crcOf'[i] = crcOf[i]
      BY <3>1, <3>2, AppendProperties
    <3> QED BY <3>1, <3>3 DEF Marks, y
  <2>3. HistoryTypes'
    BY <1>1, <1>7, <1>9, <2>1, <2>9 DEF HistoryTypes
  <2>4. /\ log' \in {log, Append(log, rec)}
        /\ log' # log => AtEnd(Stream, begun, of, pos, rec, rst) /\ Len(rst) = 1
    BY <1>5, <1>9
  <2>5. PICK of2, pos2, put2 :
          /\ Ledger(Stream', begun, decoded, log', of2, pos2, at, put2)
          /\ Crcs(crcOf', Stream', begun, of2, pos2)
          /\ Tail(rst) # <<>> =>
               Putting(Stream', begun, decoded, log', of2, pos2, at, put2, rec, Tail(rst))
          /\ \A m : Arrived(Stream, begun, decoded, of, pos, at, m)
                      => Arrived(Stream', begun, decoded, of2, pos2, at, m)
          /\ AtEnd(Stream, begun, of, pos, rec, rst) =>
               IF Tail(rst) # <<>> THEN AtEnd(Stream', begun, of2, pos2, rec, Tail(rst))
               ELSE Arrived(Stream', begun, decoded, of2, pos2, at, Len(begun))
    <3> HIDE DEF rst, rec
    <3>1. rec \in Frames
      BY <1>2 DEF rec
    <3>2. Stream \in Seq(Nat) /\ begun \in Seq(Frames) /\ log \in Seq(Frames)
          /\ Ledger(Stream, begun, decoded, log, of, pos, at, put)
          /\ Crcs(crcOf, Stream, begun, of, pos)
      BY <1>4, <1>7
    <3>3. /\ Stream' \in Seq(Nat) /\ Len(Stream') = Len(Stream) + 1
          /\ Stream'[Len(Stream) + 1] = Head(rst)
          /\ \A i \in 1 .. Len(Stream) : Stream'[i] = Stream[i]
      BY <2>1, <2>2, <3>2, AppendProperties
    <3>4. /\ Putting(Stream, begun, decoded, log, of, pos, at, put, rec, rst)
          /\ log' \in {log, Append(log, rec)}
          /\ log' # log => AtEnd(Stream, begun, of, pos, rec, rst) /\ Len(rst) = 1
      BY <1>5, <2>4
    <3>6. Grows(Stream, Stream', crcOf, crcOf', rec, rst)
      BY <2>9, <3>3 DEF Grows
    <3>5. PutOn(Stream, Stream', crcOf', begun, decoded, log', of, pos, at, rec, rst)
      BY <3>1, <3>2, <3>3, <3>4, <3>6, LedgerPuts
    <3> QED BY <3>5 DEF PutOn
  <2>6. Books(of2, pos2, at, put2)'
    BY <1>1, <2>2, <2>5 DEF Books
  <2>7. OpenBooks(of2, pos2, at, put2)'
    BY <1>1, <1>2, <1>5, <1>8, <1>9, <2>5
  <2>8. FaultBooks(of2, pos2, at)'
    <3> SUFFICES ASSUME level = "fault", reported # <<>>
                 PROVE  Reporting(Stream', begun, decoded, of2, pos2, at, reported, reports,
                                  rest'["fault"] # <<>> /\ whole["fault"])
      BY <1>1, <1>9 DEF FaultBooks
    <3> DEFINE j == Len(reported) - Len(reports)
               M == Len(begun)
    <3>1. Reporting(Stream, begun, decoded, of, pos, at, reported, reports,
                    rest["fault"] # <<>> /\ whole["fault"])
      BY <1>4 DEF FaultBooks
    <3>2. /\ j \in 0 .. Len(reported) /\ j <= M /\ reports = From(reported, j + 1)
          /\ \A n \in 1 .. j :
               /\ begun[M - j + n] = reported[n]
               /\ \/ Arrived(Stream, begun, decoded, of, pos, at, M - j + n)
                  \/ n = j /\ rest["fault"] # <<>> /\ whole["fault"]
      BY <3>1 DEF Reporting
    <3>3. M \in Nat
      BY <1>7, LenProperties
    <3> HIDE DEF j, M
    <3>4. j \in Nat /\ j <= M
      BY <3>2
    <3>5. ASSUME NEW n \in 1 .. j
          PROVE  \/ Arrived(Stream', begun, decoded, of2, pos2, at, M - j + n)
                 \/ n = j /\ rest'["fault"] # <<>> /\ whole["fault"]
      <4>1. CASE Arrived(Stream, begun, decoded, of, pos, at, M - j + n)
        BY <2>2, <2>5, <4>1
      <4>2. CASE n = j /\ rest["fault"] # <<>> /\ whole["fault"]
        <5>1. CASE rest'["fault"] # <<>>
          BY <4>2, <5>1
        <5>2. CASE rest'["fault"] = <<>>
          <6>1. M - j + n = M
            BY ONLY <3>3, <3>4, <4>2
          <6>2. Arrived(Stream', begun, decoded, of2, pos2, at, M)
            BY <1>2, <1>5, <2>5, <4>2, <5>2 DEF M
          <6> QED BY <6>1, <6>2
        <5> QED BY <5>1, <5>2
      <4> QED BY <3>2, <4>1, <4>2
    <3> QED BY <3>2, <3>5 DEF Reporting, j, M
  <2> QED BY <1>6, <2>3, <2>6, <2>7, <2>8 DEF AccountsInv, Accounts
<1>10. CASE /\ GivesUp
            /\ whole' = [whole EXCEPT ![level] = FALSE]
            /\ reported' = <<>>
            /\ lost' = IF probe THEN lost + 1 ELSE lost
            /\ UNCHANGED <<line, crcOf, log>>
  <2>1. Stream' = Stream /\ Books(of, pos, at, put)'
    BY <1>1, <1>4, <1>10, BooksStay DEF Books
  <2>2. HistoryTypes'
    BY <1>1, <1>7, <1>10 DEF HistoryTypes
  <2>3. rest'[level] # <<>> =>
          Putting(Stream, begun, decoded, log, of, pos, at, put, rec, Tail(rst))
    <3> HIDE DEF rst, rec
    <3>1. rec \in Frames /\ rest'[level] = Tail(rst)
      BY <1>2 DEF rec, rst
    <3> QED BY <1>4, <1>5, <1>7, <3>1, PuttingDrops
  <2>4. whole'[level] = FALSE
    BY <1>2, <1>7, <1>10
  <2>5. OpenBooks(of, pos, at, put)'
    BY <1>1, <1>2, <1>8, <1>10, <2>1, <2>3, <2>4
  <2>6. FaultBooks(of, pos, at)'
    BY <1>10 DEF FaultBooks
  <2> QED BY <1>6, <2>1, <2>2, <2>5, <2>6 DEF AccountsInv, Accounts
<1> QED
  BY <1>9, <1>10 DEF Put, stream

LEMMA ReadAccounts ==
  ASSUME LockInv, AccountsInv, Read, ~fooled'
  PROVE  AccountsInv'
<1>1. PICK n \in 1 .. Len(line) :
        LET read == buffer \o SubSeq(line, 1, n)
            scan == Scan(read)
        IN /\ line' = From(line, n + 1)
           /\ buffer' = scan.rest
           /\ decoded' = decoded \o scan.records
           /\ crcOf' = From(crcOf, Len(read) - Len(scan.rest) + 1)
           /\ Earnest(scan)
  BY DEF Read
<1> DEFINE bytes == buffer \o SubSeq(line, 1, n)
           records == Scan(bytes).records
<1>2. UNCHANGED <<level, record, rest, begun, whole, reports, reported, log>>
  BY DEF Read, tracer, report
<1>3. PICK of, pos, at, put : Accounts(of, pos, at, put)
  BY DEF AccountsInv
<1>4. /\ HistoryTypes /\ Ledger(Stream, begun, decoded, log, of, pos, at, put)
      /\ Crcs(crcOf, Stream, begun, of, pos)
      /\ OpenBooks(of, pos, at, put) /\ FaultBooks(of, pos, at)
      /\ line \in Seq(Nat) /\ buffer \in Seq(Nat) /\ crcOf \in Marks /\ begun \in Seq(Frames)
      /\ decoded \in Seq(Frames) /\ log \in Seq(Frames)
      /\ whole \in [Contexts -> BOOLEAN] /\ reported \in Reports \cup {<<>>}
  BY <1>3 DEF AccountsInv, Accounts, Books, HistoryTypes
<1>5. bytes \in Seq(Nat)
  <2>1. SubSeq(line, 1, n) \in Seq(Nat)
    BY <1>4
  <2> QED BY <1>4, <2>1, ConcatProperties
<1>17. Len(bytes) <= Len(crcOf) /\ Len(crcOf) = Len(Stream)
  <2>1. Len(crcOf) = Len(Stream)
    BY <1>4 DEF Crcs
  <2>2. Len(SubSeq(line, 1, n)) <= Len(line) /\ SubSeq(line, 1, n) \in Seq(Nat)
    <3>1. Len(line) \in Nat /\ n <= Len(line) /\ n \in Nat /\ n >= 1
      BY <1>4, LenProperties
    <3> QED BY <1>4, <3>1
  <2> DEFINE part == SubSeq(line, 1, n)
  <2>3. Len(buffer \o part) = Len(buffer) + Len(part) /\ Len(buffer \o line) = Len(buffer) + Len(line)
    BY <1>4, <2>2, ConcatProperties
  <2>4. Len(buffer) \in Nat /\ Len(part) \in Nat /\ Len(line) \in Nat
    BY <1>4, <2>2, LenProperties
  <2>5. Len(part) <= Len(line)
    BY <2>2
  <2> HIDE DEF part
  <2>6. Len(buffer \o part) <= Len(buffer \o line)
    BY ONLY <2>3, <2>4, <2>5
  <2> QED BY <2>1, <2>6 DEF Stream, part
<1>18. EarnestIn(crcOf, records, Scan(bytes).starts)
  BY <1>1 DEF Earnest, EarnestIn
<1>6. PICK ends, r : Reads(bytes, crcOf, 1, records, ends, r) /\ Scan(bytes).rest = From(bytes, r)
  BY <1>4, <1>5, <1>17, <1>18, ScanReads
<1>7. r \in 1 .. Len(bytes) + 1 /\ Waits(bytes, r) /\ records \in Seq(Frames)
  BY <1>6 DEF Reads
<1> DEFINE S2 == From(bytes, r) \o From(line, n + 1)
<1>8. /\ Stream \in Seq(Nat) /\ S2 \in Seq(Nat)
      /\ From(bytes, r) \in Seq(Nat) /\ From(line, n + 1) \in Seq(Nat)
      /\ Len(bytes) <= Len(Stream)
      /\ \A k \in 1 .. Len(bytes) : bytes[k] = Stream[k]
      /\ Len(S2) = Len(Stream) - r + 1
      /\ \A k \in 1 .. Len(S2) : S2[k] = Stream[r + k - 1]
  <2>1. bytes = Both(buffer, Upto(line, n)) /\ Stream = Both(buffer, line)
    BY DEF Stream, Both, Upto
  <2>2. S2 = Both(From(bytes, r), From(line, n + 1))
    BY DEF Both
  <2>3. line \in Seq(Nat) /\ buffer \in Seq(Nat)
    BY <1>4
  <2> HIDE DEF bytes, S2
  <2>4. r \in 1 .. Len(Both(buffer, Upto(line, n))) + 1
    BY <1>7, <2>1
  <2>5. LET read == Both(buffer, Upto(line, n))
            before == Both(buffer, line)
            after == Both(From(read, r), From(line, n + 1))
        IN /\ read \in Seq(Nat) /\ before \in Seq(Nat) /\ after \in Seq(Nat)
           /\ From(read, r) \in Seq(Nat) /\ From(line, n + 1) \in Seq(Nat)
           /\ Len(read) <= Len(before)
           /\ \A k \in 1 .. Len(read) : read[k] = before[k]
           /\ Len(after) = Len(before) - r + 1
           /\ \A k \in 1 .. Len(after) : after[k] = before[r + k - 1]
    BY <2>3, <2>4, StreamRead
  <2>6. S2 = Both(From(Both(buffer, Upto(line, n)), r), From(line, n + 1))
    BY <2>1, <2>2
  <2> QED BY <2>1, <2>5, <2>6
<1>9. buffer' = From(bytes, r) /\ line' = From(line, n + 1) /\ decoded' = decoded \o records
      /\ Stream' = S2
  BY <1>1, <1>6 DEF Stream
<1>10. WaitsForMore(buffer)'
  BY <1>5, <1>7, <1>9, WaitsShort
<1>19. /\ crcOf' \in Marks /\ Len(crcOf') = Len(S2)
       /\ \A k \in 1 .. Len(S2) : crcOf'[k] = crcOf[r + k - 1]
  <2> DEFINE B == Len(bytes)
             C == Len(crcOf)
  <2>1. B \in Nat /\ C \in Nat /\ B <= C /\ r \in 1 .. B + 1 /\ Len(S2) = C - r + 1
    BY <1>4, <1>5, <1>7, <1>8, <1>17, LenProperties DEF Marks
  <2>2. Len(From(bytes, r)) = B - r + 1
    BY <1>5, <1>7, FromIs
  <2>3. crcOf' = From(crcOf, B - (B - r + 1) + 1)
    BY <1>1, <1>6, <2>2
  <2> HIDE DEF B, C, S2
  <2>4. B - (B - r + 1) + 1 = r /\ r \in 1 .. C + 1
    BY ONLY <2>1
  <2>5. crcOf' = From(crcOf, r)
    BY <2>3, <2>4
  <2>6. crcOf \in Seq(Frames \cup {<<>>}) /\ r \in 1 .. Len(crcOf) + 1
    BY <1>4, <2>4 DEF Marks, C
  <2>7. /\ From(crcOf, r) \in Seq(Frames \cup {<<>>}) /\ Len(From(crcOf, r)) = Len(crcOf) - r + 1
        /\ \A k \in 1 .. Len(crcOf) - r + 1 : From(crcOf, r)[k] = crcOf[r + k - 1]
    BY ONLY <2>6, FromIs
  <2> QED BY <2>1, <2>5, <2>7 DEF Marks, C
<1> HIDE DEF bytes, records, S2
<1>11. decoded' \in Seq(Frames)
  BY <1>4, <1>7, <1>9, ConcatProperties
<1>12. HistoryTypes'
  BY <1>2, <1>4, <1>8, <1>9, <1>11, <1>19 DEF HistoryTypes
<1>13. PICK of2, pos2, at2 :
         /\ Ledger(S2, begun, decoded \o records, log, of2, pos2, at2, put)
         /\ Crcs(crcOf', S2, begun, of2, pos2)
         /\ \A m \in 1 .. Len(begun) :
              Arrived(Stream, begun, decoded, of, pos, at, m)
                => Arrived(S2, begun, decoded \o records, of2, pos2, at2, m)
         /\ \A rec \in Frames : \A rst :
              Putting(Stream, begun, decoded, log, of, pos, at, put, rec, rst) =>
                /\ Putting(S2, begun, decoded \o records, log, of2, pos2, at2, put, rec, rst)
                /\ AtEnd(Stream, begun, of, pos, rec, rst)
                     => AtEnd(S2, begun, of2, pos2, rec, rst)
  <2>1. /\ Ledger(Stream, begun, decoded, log, of, pos, at, put)
        /\ Crcs(crcOf, Stream, begun, of, pos)
        /\ begun \in Seq(Frames) /\ decoded \in Seq(Frames)
    BY <1>4
  <2>2. Reads(bytes, crcOf, 1, records, ends, r)
    BY <1>6
  <2>4. Len(crcOf') = Len(S2) /\ \A k \in 1 .. Len(S2) : crcOf'[k] = crcOf[r + k - 1]
    BY <1>19
  <2>3. ReadOff(Stream, S2, crcOf', begun, decoded, log, of, pos, at, put, records)
    BY <1>5, <1>8, <2>1, <2>2, <2>4, LedgerReads
  <2> QED BY <2>3 DEF ReadOff
<1>14. Books(of2, pos2, at2, put)'
  BY <1>2, <1>9, <1>13 DEF Books
<1>15. OpenBooks(of2, pos2, at2, put)'
  <2> SUFFICES ASSUME NEW c \in Contexts, rest[c] # <<>>, Live(c)
               PROVE  /\ Putting(S2, begun, decoded \o records, log, of2, pos2, at2, put,
                                 record[c], rest[c])
                      /\ whole[c] => AtEnd(S2, begun, of2, pos2, record[c], rest[c])
    BY <1>2, <1>9 DEF OpenBooks, Live
  <2>1. record[c] \in Frames
    BY DEF LockInv, TraceTypeOK, Emitting
  <2>2. /\ Putting(Stream, begun, decoded, log, of, pos, at, put, record[c], rest[c])
        /\ whole[c] => AtEnd(Stream, begun, of, pos, record[c], rest[c])
    BY <1>4 DEF OpenBooks
  <2> QED BY <1>13, <2>1, <2>2
<1>16. FaultBooks(of2, pos2, at2)'
  <2> SUFFICES ASSUME level = "fault", reported # <<>>
               PROVE  Reporting(S2, begun, decoded \o records, of2, pos2, at2, reported, reports,
                                rest["fault"] # <<>> /\ whole["fault"])
    BY <1>2, <1>9 DEF FaultBooks
  <2> DEFINE j == Len(reported) - Len(reports)
             M == Len(begun)
  <2>1. Reporting(Stream, begun, decoded, of, pos, at, reported, reports,
                  rest["fault"] # <<>> /\ whole["fault"])
    BY <1>4 DEF FaultBooks
  <2>2. /\ j \in 0 .. Len(reported) /\ j <= M /\ reports = From(reported, j + 1)
        /\ \A k \in 1 .. j :
             /\ begun[M - j + k] = reported[k]
             /\ \/ Arrived(Stream, begun, decoded, of, pos, at, M - j + k)
                \/ k = j /\ rest["fault"] # <<>> /\ whole["fault"]
    BY <2>1 DEF Reporting
  <2>3. M \in Nat
    BY <1>4, LenProperties
  <2> HIDE DEF j, M
  <2>4. \A k \in 1 .. j : M - j + k \in 1 .. M
    <3>1. j \in Nat /\ j <= M
      BY <2>2
    <3> QED BY ONLY <2>3, <3>1
  <2>5. \A k \in 1 .. j : Arrived(Stream, begun, decoded, of, pos, at, M - j + k)
                            => Arrived(S2, begun, decoded \o records, of2, pos2, at2, M - j + k)
    BY <1>13, <2>4 DEF M
  <2> QED BY <2>2, <2>5 DEF Reporting, j, M
<1> QED
  BY <1>10, <1>12, <1>14, <1>15, <1>16 DEF AccountsInv, Accounts

THEOREM RecordsAccountFor == TraceSpec => [](~fooled => AccountsInv)
<1>1. LockInv /\ (~fooled => AccountsInv) /\ [TraceNext]_traceVars => (~fooled' => AccountsInv')
  <2> SUFFICES ASSUME LockInv, ~fooled => AccountsInv, [TraceNext]_traceVars, ~fooled'
               PROVE  AccountsInv'
    OBVIOUS
  <2>1. CASE Read
    <3>1. AccountsInv
      BY <2>1 DEF Read
    <3> QED BY <2>1, <3>1, ReadAccounts
  <2>2. CASE \/ (\E f \in Events : Trace(f) \/ Interrupt(f))
             \/ TracerStep \/ Fault \/ Reset \/ UNCHANGED traceVars
    <3>1. fooled' = fooled
      BY <2>2 DEF Trace, Interrupt, TracerStep, Put, Unlock, ReportFault, ReturnFromInterrupt,
                  Fault, Reset, host, traceVars
    <3>2. AccountsInv
      BY <3>1
    <3> QED BY <2>2, <3>2, TraceAccounts, OthersAccount, ReportAccounts, PutAccounts DEF TracerStep
  <2> QED BY <2>1, <2>2 DEF TraceNext
<1>2. TraceInit => (~fooled => AccountsInv)
  BY InitAccounts
<1> QED
  BY <1>1, <1>2, LockProtects, PTL DEF TraceSpec

-----------------------------------------------------------------------------
(* What the books say of the host. *)

\* Where the first d elements are chosen from.
First(at, d) == {at[e] : e \in 1 .. d}

\* An order-preserving choice chooses no element twice.
LEMMA FirstCounts ==
  ASSUME NEW N \in Nat, NEW at, NEW d \in 0 .. N,
         \A n \in 1 .. N : at[n] \in Nat, \A m, n \in 1 .. N : m < n => at[m] < at[n]
  PROVE  Cardinality(First(at, d)) = d
<1> DEFINE b == [e \in 1 .. d |-> at[e]]
<1>1. d \in Nat /\ \A e \in 1 .. d : e \in 1 .. N /\ b[e] = at[e] /\ at[e] \in Nat
  OBVIOUS
<1>2. b \in [1 .. d -> First(at, d)] /\ \A t \in First(at, d) : \E e \in 1 .. d : b[e] = t
  BY <1>1 DEF First
<1>3. ASSUME NEW m \in 1 .. d, NEW n \in 1 .. d, b[m] = b[n]
      PROVE  m = n
  <2> HIDE DEF b
  <2>1. m \in Nat /\ n \in Nat /\ at[m] = at[n] /\ at[m] \in Nat /\ ~(at[m] < at[n]) /\ ~(at[n] < at[m])
    BY <1>1, <1>3
  <2>2. ~(m < n) /\ ~(n < m)
    BY <1>1, <2>1
  <2> QED BY <2>1, <2>2
<1> HIDE DEF b
<1>4. b \in Bijection(1 .. d, First(at, d))
  BY <1>2, <1>3 DEF Bijection, Injection, Surjection, IsInjective
<1>5. ExistsBijection(1 .. d, First(at, d))
  BY <1>4 DEF ExistsBijection
<1> QED
  BY <1>1, <1>5, FS_CountingElements

\* What is chosen in order is within what it is chosen from.
LEMMA ChosenWithin ==
  ASSUME NEW X, NEW xs \in Seq(X), NEW ys \in Seq(X), NEW at, Chosen(xs, ys, at)
  PROVE  Within(xs, ys)
<1> DEFINE N == Len(xs)
           S == First(at, N)
<1>1. /\ N \in Nat /\ N \in 0 .. N /\ DOMAIN ys = 1 .. Len(ys) /\ Len(ys) \in Nat
  BY LenProperties
<1>2. /\ \A n \in 1 .. N : at[n] \in 1 .. Len(ys) /\ xs[n] = ys[at[n]]
      /\ \A m, n \in 1 .. N : m < n => at[m] < at[n]
  BY DEF Chosen
<1>3. \A n \in 1 .. N : at[n] \in Nat
  BY <1>1, <1>2
<1> HIDE DEF N
<1>4. S \in SUBSET DOMAIN ys
  BY <1>1, <1>2 DEF First
<1>5. Cardinality(S) = N
  BY <1>1, <1>2, <1>3, FirstCounts
<1>6. ASSUME NEW n \in S
      PROVE  ys[n] = xs[Cardinality({m \in S : m <= n})]
  <2>1. PICK d \in 1 .. N : n = at[d]
    BY DEF First
  <2>2. d \in 0 .. N /\ d \in Nat
    BY <1>1
  <2>3. {m \in S : m <= n} = First(at, d)
    <3>1. ASSUME NEW e \in 1 .. N
          PROVE  at[e] <= at[d] <=> e <= d
      <4>1. at[e] \in Nat /\ at[d] \in Nat /\ e \in Nat /\ d \in Nat
        BY <1>3
      <4>2. (e < d => at[e] < at[d]) /\ (d < e => at[d] < at[e])
        BY <1>2
      <4>3. e = d => at[e] = at[d]
        OBVIOUS
      <4> QED BY <4>1, <4>2, <4>3
    <3>2. \A e : e \in 1 .. d <=> e \in 1 .. N /\ e <= d
      BY <1>1
    <3> QED BY <2>1, <3>1, <3>2 DEF First
  <2>4. Cardinality(First(at, d)) = d
    BY <1>1, <1>2, <1>3, <2>2, FirstCounts
  <2> QED BY <1>2, <2>1, <2>3, <2>4
<1> QED
  BY <1>4, <1>5, <1>6 DEF Within, N

\* What is chosen from ys, and only where zs is chosen from, is chosen from zs.
LEMMA ChosenThrough ==
  ASSUME NEW xs, NEW ys, NEW zs, NEW put, NEW at, Chosen(xs, ys, put), Chosen(zs, ys, at),
         Len(xs) \in Nat, Len(zs) \in Nat, Len(ys) \in Nat,
         \A n \in 1 .. Len(xs) : \E d \in 1 .. Len(zs) : at[d] = put[n]
  PROVE  \E h : Chosen(xs, zs, h)
<1> DEFINE h == [n \in 1 .. Len(xs) |-> CHOOSE d \in 1 .. Len(zs) : at[d] = put[n]]
<1>1. \A n \in 1 .. Len(xs) : h[n] \in 1 .. Len(zs) /\ at[h[n]] = put[n]
  OBVIOUS
<1>2. h \in [1 .. Len(xs) -> 1 .. Len(zs)]
  BY <1>1
<1> HIDE DEF h
<1>3. ASSUME NEW n \in 1 .. Len(xs)
      PROVE  xs[n] = zs[h[n]]
  <2>1. h[n] \in 1 .. Len(zs) /\ at[h[n]] = put[n]
    BY <1>1
  <2>2. xs[n] = ys[put[n]]
    BY DEF Chosen
  <2>3. zs[h[n]] = ys[at[h[n]]]
    BY <2>1 DEF Chosen
  <2> QED BY <2>1, <2>2, <2>3
<1>4. ASSUME NEW m \in 1 .. Len(xs), NEW n \in 1 .. Len(xs), m < n
      PROVE  h[m] < h[n]
  <2>1. h[m] \in 1 .. Len(zs) /\ h[n] \in 1 .. Len(zs) /\ at[h[m]] = put[m] /\ at[h[n]] = put[n]
    BY <1>1
  <2>2. put[m] < put[n] /\ put[m] \in Nat /\ put[n] \in Nat
    BY <1>4 DEF Chosen
  <2>3. h[n] < h[m] => put[n] < put[m]
    BY <2>1 DEF Chosen
  <2>4. h[n] = h[m] => put[n] = put[m]
    BY <2>1
  <2>5. ~(h[n] < h[m]) /\ h[n] # h[m] /\ h[n] \in Nat /\ h[m] \in Nat
    BY <2>1, <2>2, <2>3, <2>4
  <2> QED BY <2>5
<1> QED
  BY <1>2, <1>3, <1>4 DEF Chosen

\* The host decodes what got the lock, in order and once, and in the end all of the log
\* (decode_trace.py, FrameDecoder.feed; trace.c:13-36), whatever was broken off, dropped
\* or refused, as long as no broken record has passed its check.
THEOREM HostDecodesTheLog == TraceSpec => []DecodesTheLog
<1>1. (~fooled => AccountsInv) => DecodesTheLog
  <2> SUFFICES ASSUME AccountsInv
               PROVE  /\ Within(decoded, begun)
                      /\ line = <<>> /\ buffer = <<>> => Within(log, decoded)
    BY DEF DecodesTheLog
  <2>1. PICK of, pos, at, put : Ledger(Stream, begun, decoded, log, of, pos, at, put)
    BY DEF AccountsInv, Accounts, Books
  <2>2. begun \in Seq(Frames) /\ decoded \in Seq(Frames) /\ log \in Seq(Frames)
    BY DEF AccountsInv, HistoryTypes
  <2>3. Chosen(decoded, begun, at) /\ Chosen(log, begun, put)
        /\ \A n \in 1 .. Len(log) : Arrived(Stream, begun, decoded, of, pos, at, put[n])
    BY <2>1 DEF Ledger
  <2>4. Within(decoded, begun)
    BY <2>2, <2>3, ChosenWithin
  <2>5. ASSUME line = <<>>, buffer = <<>>
        PROVE  Within(log, decoded)
    <3>1. Len(Stream) = 0 /\ 1 .. 0 = {}
      BY <2>5 DEF Stream
    <3>2. \A n \in 1 .. Len(log) : \E d \in 1 .. Len(decoded) : at[d] = put[n]
      BY <2>3, <3>1 DEF Arrived
    <3>3. Len(begun) \in Nat /\ Len(decoded) \in Nat /\ Len(log) \in Nat
      BY <2>2, LenProperties
    <3>4. \E h : Chosen(log, decoded, h)
      BY <2>3, <3>2, <3>3, ChosenThrough
    <3> QED BY <2>2, <3>4, ChosenWithin
  <2> QED BY <2>4, <2>5
<1> QED
  BY <1>1, RecordsAccountFor, PTL

\* The whole records of a stream whose beginning waits come after the unit of another.
LEMMA NotFirst ==
  ASSUME NEW S \in Seq(Nat), NEW bg \in Seq(Frames), NEW of, NEW pos, Origins(S, bg, of, pos),
         WaitsForMore(S), NEW m \in 1 .. Len(bg), NEW s \in 1 .. Len(S),
         Holds(S, of, pos, m, Len(bg[m]), s)
  PROVE  1 \in 1 .. Len(S) /\ of[1] \in 1 .. Len(bg) /\ of[1] < m
<1>1. /\ Len(S) \in Nat /\ Len(bg) \in Nat /\ 1 \in 1 .. Len(S) /\ s \in Nat
      /\ \A i \in 1 .. Len(S) : of[i] \in 1 .. Len(bg) /\ pos[i] \in 1 .. Len(bg[of[i]])
                                /\ S[i] = bg[of[i]][pos[i]]
      /\ \A i, j \in 1 .. Len(S) : i < j => of[i] < of[j] \/ (of[i] = of[j] /\ pos[i] < pos[j])
  <2>1. Len(S) \in Nat /\ Len(bg) \in Nat
    BY LenProperties
  <2>2. 1 \in 1 .. Len(S) /\ s \in Nat
    BY <2>1
  <2>3. \A i \in 1 .. Len(S) : of[i] \in 1 .. Len(bg)
    BY DEF Origins
  <2> QED BY <2>1, <2>2, <2>3, Zenon DEF Origins
<1>2. bg[m] \in Frames /\ Len(bg[m]) \in Nat /\ Len(bg[m]) >= 5
  BY FrameHas, ElementOfSeq
<1>3. \A k \in 1 .. Len(bg[m]) : s + k - 1 \in 1 .. Len(S) /\ of[s + k - 1] = m /\ pos[s + k - 1] = k
  BY DEF Holds
<1>4. s # 1
  <2> SUFFICES ASSUME s = 1 PROVE FALSE
    OBVIOUS
  <2> DEFINE l == Len(bg[m])
  <2>1. \A k \in 1 .. l : k \in 1 .. Len(S) /\ of[k] = m /\ pos[k] = k
    <3>1. \A k \in 1 .. l : s + k - 1 = k
      BY <1>2
    <3> QED BY <1>3, <3>1
  <2>2. \A k \in 1 .. l : S[k] = bg[m][k]
    BY <1>1, <2>1
  <2>3. l <= Len(S)
    <3>1. l \in 1 .. l
      BY <1>2
    <3> QED BY <1>1, <2>1, <3>1
  <2> QED BY <1>2, <2>2, <2>3 DEF WaitsForMore
<1>5. of[s] = m /\ pos[s] = 1
  <2>1. 1 \in 1 .. Len(bg[m]) /\ s + 1 - 1 = s
    BY <1>1, <1>2
  <2> QED BY <1>3, <2>1
<1>6. 1 < s
  BY <1>1, <1>4
<1>7. of[1] < of[s] \/ (of[1] = of[s] /\ pos[1] < pos[s])
  BY <1>1, <1>6
<1>8. pos[1] >= 1 /\ pos[1] \in Nat
  <2>1. pos[1] \in 1 .. Len(bg[of[1]])
    BY <1>1
  <2>2. bg[of[1]] \in Frames
    BY <1>1, ElementOfSeq
  <2>3. Len(bg[of[1]]) \in Nat
    BY <2>2, FrameHas
  <2> QED BY <2>1, <2>3
<1> QED
  BY <1>1, <1>5, <1>7, <1>8

\* Two records in the stream, one after the other, do not overlap.
LEMMA BothFit ==
  ASSUME NEW S \in Seq(Nat), NEW bg \in Seq(Frames), NEW of, NEW pos, Origins(S, bg, of, pos),
         NEW m \in 1 .. Len(bg), NEW n \in 1 .. Len(bg), m < n,
         NEW s \in 1 .. Len(S), Holds(S, of, pos, m, Len(bg[m]), s),
         NEW t \in 1 .. Len(S), Holds(S, of, pos, n, Len(bg[n]), t)
  PROVE  Len(bg[m]) + Len(bg[n]) <= Len(S)
<1>1. /\ Len(S) \in Nat /\ Len(bg) \in Nat /\ s \in Nat /\ t \in Nat /\ m \in Nat /\ n \in Nat
      /\ s >= 1 /\ t >= 1
      /\ \A i, j \in 1 .. Len(S) : i < j => of[i] < of[j] \/ (of[i] = of[j] /\ pos[i] < pos[j])
  BY LenProperties DEF Origins
<1> DEFINE a == Len(bg[m])
           b == Len(bg[n])
<1>2. a \in Nat /\ a >= 5 /\ b \in Nat /\ b >= 5
  <2>1. bg[m] \in Frames /\ bg[n] \in Frames
    BY ElementOfSeq
  <2> QED BY <2>1, FrameHas
<1>3. /\ \A k \in 1 .. a : s + k - 1 \in 1 .. Len(S) /\ of[s + k - 1] = m
      /\ \A k \in 1 .. b : t + k - 1 \in 1 .. Len(S) /\ of[t + k - 1] = n
  BY DEF Holds
<1> HIDE DEF a, b
<1>4. of[s] = m /\ of[t] = n /\ t + b - 1 <= Len(S)
  <2>1. 1 \in 1 .. a /\ 1 \in 1 .. b /\ b \in 1 .. b /\ s + 1 - 1 = s /\ t + 1 - 1 = t
    BY <1>1, <1>2
  <2>2. of[s + 1 - 1] = m /\ of[t + 1 - 1] = n /\ t + b - 1 \in 1 .. Len(S)
    BY <1>3, <2>1
  <2>3. t + b - 1 <= Len(S)
    BY <1>1, <1>2, <2>2
  <2> QED BY <2>1, <2>2, <2>3
<1>5. ~(t < s)
  <2>1. t < s => of[t] < of[s] \/ of[t] = of[s]
    BY <1>1
  <2> QED BY <1>1, <1>4, <2>1
<1>6. ~(t <= s + a - 1)
  <2> SUFFICES ASSUME t <= s + a - 1 PROVE FALSE
    OBVIOUS
  <2> DEFINE k == t - s + 1
  <2>1. k \in 1 .. a /\ s + k - 1 = t
    BY <1>1, <1>2, <1>5
  <2> HIDE DEF k
  <2>2. of[t] = m
    BY <1>3, <2>1
  <2> QED BY <1>1, <1>4, <2>2
<1>7. a + b <= Len(S)
  BY ONLY <1>1, <1>2, <1>4, <1>6
<1> QED
  BY <1>7 DEF a, b

\* The last R records begun have arrived, and two of them do not fit in what waits.
HasCome(S, bg, dec, of, pos, at, R) ==
  /\ R \in Nat /\ 2 <= R /\ R <= Len(bg)
  /\ \A n \in 1 .. R : Arrived(S, bg, dec, of, pos, at, Len(bg) - R + n)
  /\ FrameSize(MaxArgs) <= Len(bg[Len(bg) - R + 1]) + Len(bg[Len(bg) - R + 2])

\* The last R of M are among the N that are chosen.
LastIn(N, M, R, at) == \A n \in 1 .. R : \E d \in 1 .. N : at[d] = M - R + n

\* The last R records begun are decoded if all of them have arrived and what is in the
\* stream waits for more, and if there are two that do not fit.
LEMMA LastDecoded ==
  ASSUME NEW S \in Seq(Nat), NEW bg \in Seq(Frames), NEW dec, NEW lg, NEW of, NEW pos, NEW at, NEW put,
         Ledger(S, bg, dec, lg, of, pos, at, put), WaitsForMore(S),
         NEW R, HasCome(S, bg, dec, of, pos, at, R)
  PROVE  LastIn(Len(dec), Len(bg), R, at)
<1> DEFINE M == Len(bg)
           Decoded(m) == \E d \in 1 .. Len(dec) : at[d] = m
           Whole(m) == \E s \in 1 .. Len(S) : Holds(S, of, pos, m, Len(bg[m]), s)
<1>1. M \in Nat /\ Len(S) \in Nat /\ R \in Nat /\ R <= M /\ 2 <= R
  BY LenProperties DEF HasCome
<1>2. /\ Origins(S, bg, of, pos)
      /\ \A d \in 1 .. Len(dec), i \in 1 .. Len(S) : at[d] < of[i]
      /\ \A d \in 1 .. Len(dec) : at[d] \in 1 .. M
  BY DEF Ledger, Chosen
<1>3. \A k \in 1 .. R : Decoded(M - R + k) \/ Whole(M - R + k)
  BY DEF Arrived, HasCome
<1>4. \A m \in 1 .. M : Whole(m) => 1 \in 1 .. Len(S) /\ of[1] \in 1 .. M /\ of[1] < m
  BY <1>2, NotFirst
<1> SUFFICES ASSUME NEW n \in 1 .. R, ~Decoded(M - R + n) PROVE FALSE
  BY DEF LastIn
<1>5. \A k \in 1 .. R : M - R + k \in 1 .. M
  BY ONLY <1>1
<1>6. Whole(M - R + n)
  BY <1>3
<1>7. 1 \in 1 .. Len(S) /\ of[1] \in 1 .. M /\ of[1] < M - R + n
  BY <1>4, <1>5, <1>6
<1>8. ASSUME NEW k \in 1 .. R, M - R + k >= of[1]
      PROVE  Whole(M - R + k)
  <2>1. ~Decoded(M - R + k)
    <3> SUFFICES ASSUME NEW d \in 1 .. Len(dec), at[d] = M - R + k PROVE FALSE
      OBVIOUS
    <3>1. at[d] < of[1] /\ at[d] \in Nat /\ of[1] \in Nat
      BY <1>1, <1>2, <1>7
    <3> QED BY ONLY <1>8, <3>1, at[d] = M - R + k
  <2> QED BY <1>3, <2>1
<1> HIDE DEF M, Decoded, Whole
<1>9. of[1] <= M - R
  <2> SUFFICES ASSUME ~(of[1] <= M - R) PROVE FALSE
    OBVIOUS
  <2> DEFINE k == of[1] - (M - R)
  <2>1. k \in 1 .. R /\ M - R + k = of[1]
    BY <1>1, <1>7
  <2> HIDE DEF k
  <2>2. of[1] \in Nat /\ M - R + k >= of[1]
    BY <1>1, <1>7, <2>1
  <2>3. Whole(of[1])
    BY <1>8, <2>1, <2>2
  <2>4. of[1] < of[1]
    BY <1>4, <1>7, <2>3
  <2> QED BY <2>2, <2>4
<1>10. /\ M - R + 1 \in 1 .. M /\ M - R + 2 \in 1 .. M /\ M - R + 1 < M - R + 2
       /\ Whole(M - R + 1) /\ Whole(M - R + 2)
  <2>1. 1 \in 1 .. R /\ 2 \in 1 .. R /\ M - R + 1 >= of[1] /\ M - R + 2 >= of[1]
        /\ M - R + 1 < M - R + 2
    BY <1>1, <1>7, <1>9
  <2> QED BY <1>5, <1>8, <2>1
<1>11. Len(bg[M - R + 1]) + Len(bg[M - R + 2]) <= Len(S)
  BY <1>2, <1>10, BothFit DEF M, Whole
<1>12. Len(S) < FrameSize(MaxArgs) /\ FrameSize(MaxArgs) \in Nat
       /\ FrameSize(MaxArgs) <= Len(bg[M - R + 1]) + Len(bg[M - R + 2])
  BY TraceConstants DEF WaitsForMore, HasCome, M
<1>13. Len(bg[M - R + 1]) \in Nat /\ Len(bg[M - R + 2]) \in Nat
  <2>1. bg[M - R + 1] \in Frames /\ bg[M - R + 2] \in Frames
    BY <1>10, ElementOfSeq DEF M
  <2> QED BY <2>1, FrameHas
<1> DEFINE x == Len(bg[M - R + 1])
           y == Len(bg[M - R + 2])
           l == Len(S)
           F == FrameSize(MaxArgs)
<1>14. x + y <= l /\ l < F /\ F <= x + y /\ x \in Nat /\ y \in Nat /\ F \in Nat /\ l \in Nat
  BY <1>1, <1>11, <1>12, <1>13
<1> HIDE DEF x, y, l, F
<1> QED
  BY ONLY <1>14

\* The last R of M are the last of the N that are chosen.
AreLast(N, M, R, at) == R <= N /\ \A n \in 1 .. R : at[N - R + n] = M - R + n

\* If the last R of M are chosen, they are what is chosen last.
LEMMA LastChosen ==
  ASSUME NEW N \in Nat, NEW M \in Nat, NEW R \in Nat, 1 <= R, R <= M, NEW at,
         \A d \in 1 .. N : at[d] \in 1 .. M, \A c, d \in 1 .. N : c < d => at[c] < at[d],
         LastIn(N, M, R, at)
  PROVE  AreLast(N, M, R, at)
<1> DEFINE T == {i \in Nat : i < R => i < N /\ at[N - i] = M - i}
<1>1. \A i \in Nat : i < R => \E d \in 1 .. N : at[d] = M - i
  <2> SUFFICES ASSUME NEW i \in Nat, i < R PROVE \E d \in 1 .. N : at[d] = M - i
    OBVIOUS
  <2>1. R - i \in 1 .. R /\ M - R + (R - i) = M - i
    OBVIOUS
  <2> QED BY <2>1 DEF LastIn
<1>2. \A c, d \in 1 .. N : at[d] \in Nat /\ at[d] <= M /\ (c < d => at[c] < at[d])
  OBVIOUS
<1>3. 0 \in T
  <2> SUFFICES 0 < N /\ at[N - 0] = M - 0
    OBVIOUS
  <2>1. PICK d \in 1 .. N : at[d] = M - 0
    BY <1>1
  <2>2. N \in 1 .. N /\ N - 0 = N /\ M - 0 = M /\ 0 < N
    OBVIOUS
  <2>3. d < N => at[d] < at[N]
    BY <1>2, <2>2
  <2>4. at[N] <= M /\ at[N] \in Nat
    BY <1>2, <2>2
  <2>5. ~(d < N)
    BY <2>1, <2>2, <2>3, <2>4
  <2>6. d = N
    BY <2>5
  <2> QED BY <2>1, <2>2, <2>6
<1>4. ASSUME NEW i \in Nat, i \in T
      PROVE  i + 1 \in T
  <2> SUFFICES ASSUME i + 1 < R PROVE i + 1 < N /\ at[N - (i + 1)] = M - (i + 1)
    OBVIOUS
  <2>1. i < N /\ at[N - i] = M - i /\ N - i \in 1 .. N
    BY <1>4
  <2>2. PICK d \in 1 .. N : at[d] = M - (i + 1)
    <3>1. i + 1 \in Nat
      OBVIOUS
    <3> QED BY <1>1, <3>1
  <2> DEFINE e == N - i
             c == N - (i + 1)
  <2>3. e \in 1 .. N /\ at[e] = M - i /\ at[d] < at[e] /\ c = e - 1
    BY <2>1, <2>2
  <2> HIDE DEF e
  <2>4. ~(e < d) /\ ~(e = d)
    <3>1. e < d => at[e] < at[d]
      BY <1>2, <2>3
    <3>2. at[e] \in Nat /\ at[d] \in Nat
      BY <1>2, <2>3
    <3> QED BY <2>3, <3>1, <3>2
  <2>5. d < e
    BY <2>3, <2>4
  <2> HIDE DEF c
  <2>6. c \in 1 .. N /\ d <= c /\ c < e
    BY <2>3, <2>5
  <2>7. ~(d < c)
    <3>1. at[c] < at[e] /\ at[c] \in Nat /\ (d < c => at[d] < at[c])
      BY <1>2, <2>3, <2>6
    <3> QED BY <2>2, <2>3, <3>1
  <2>8. d = c
    BY <2>6, <2>7
  <2>9. i + 1 < N
    BY <2>6 DEF c
  <2> QED BY <2>2, <2>8, <2>9 DEF c
<1> HIDE DEF T
<1>5. Nat \subseteq T
  BY <1>3, <1>4, Induction
<1>6. \A i \in Nat : i < R => i < N /\ at[N - i] = M - i
  BY <1>5 DEF T
<1>7. R <= N
  <2>1. R - 1 \in Nat /\ R - 1 < R
    OBVIOUS
  <2>2. R - 1 < N
    BY <1>6, <2>1
  <2> QED BY <2>2
<1>8. ASSUME NEW n \in 1 .. R
      PROVE  at[N - R + n] = M - R + n
  <2>1. R - n \in Nat /\ R - n < R /\ N - (R - n) = N - R + n /\ M - (R - n) = M - R + n
    OBVIOUS
  <2> QED BY <1>6, <2>1
<1> QED
  BY <1>7, <1>8 DEF AreLast

\* A report that has begun and arrived, with nothing on the line, is decoded.
LEMMA ReportDecoded ==
  ASSUME LongReports, LockInv, AccountsInv, Halted, line = <<>>, reported # <<>>
  PROVE  EndsIn(decoded, reported)
<1> DEFINE M == Len(begun)
           N == Len(decoded)
           R == Len(reported)
<1>1. PICK of, pos, at, put : Accounts(of, pos, at, put)
  BY DEF AccountsInv
<1>2. /\ begun \in Seq(Frames) /\ decoded \in Seq(Frames) /\ buffer \in Seq(Nat)
      /\ reported \in Reports /\ reported \in Seq(Frames) /\ WaitsForMore(buffer)
  BY ReportsAreFrames DEF AccountsInv, HistoryTypes
<1>3. Stream = buffer
  BY <1>2 DEF Stream
<1>4. level = "fault" /\ reports = <<>> /\ rest["fault"] = <<>> /\ Len(reports) = 0
  BY DEF Halted, LockInv, Contexts, Emitting
<1>5. Reporting(Stream, begun, decoded, of, pos, at, reported, reports, FALSE)
  BY <1>1, <1>4 DEF Accounts, FaultBooks
<1>6. M \in Nat /\ N \in Nat /\ R \in Nat
  BY <1>2, LenProperties
<1>7. /\ R <= M
      /\ \A n \in 1 .. R : /\ begun[M - R + n] = reported[n]
                           /\ Arrived(buffer, begun, decoded, of, pos, at, M - R + n)
  <2>1. R - Len(reports) = R
    BY <1>4, <1>6
  <2> QED BY <1>3, <1>5, <2>1 DEF Reporting
<1>8. Ledger(buffer, begun, decoded, log, of, pos, at, put)
  BY <1>1, <1>3 DEF Accounts, Books
<1>9. /\ \A d \in 1 .. N : at[d] \in 1 .. M /\ decoded[d] = begun[at[d]]
      /\ \A c, d \in 1 .. N : c < d => at[c] < at[d]
  BY <1>8 DEF Ledger, Chosen
<1>10. 2 <= R /\ FrameSize(MaxArgs) <= Len(reported[1]) + Len(reported[2])
  BY <1>2, <1>6 DEF LongReports
<1>11. FrameSize(MaxArgs) <= Len(begun[M - R + 1]) + Len(begun[M - R + 2])
  <2>1. 1 \in 1 .. R /\ 2 \in 1 .. R
    BY <1>6, <1>10
  <2>2. begun[M - R + 1] = reported[1] /\ begun[M - R + 2] = reported[2]
    BY <1>7, <2>1
  <2> QED BY <1>10, <2>2
<1>12. LastIn(N, M, R, at)
  <2>1. HasCome(buffer, begun, decoded, of, pos, at, R)
    BY <1>6, <1>7, <1>10, <1>11 DEF HasCome
  <2> QED BY <1>2, <1>8, <2>1, LastDecoded
<1>13. \A n \in 1 .. R : decoded[N - R + n] = reported[n] /\ N - R + n \in 1 .. N
  <2> HIDE DEF M, N, R
  <2>1. 1 <= R
    BY <1>6, <1>10
  <2>2. AreLast(N, M, R, at)
    <3>1. /\ R <= M /\ \A d \in 1 .. N : at[d] \in 1 .. M
          /\ \A c, d \in 1 .. N : c < d => at[c] < at[d]
      BY <1>7, <1>9
    <3> QED BY <1>6, <1>12, <2>1, <3>1, LastChosen
  <2>3. \A n \in 1 .. R : N - R + n \in 1 .. N
    BY ONLY <1>6, <2>2 DEF AreLast
  <2> QED BY <1>7, <1>9, <2>2, <2>3 DEF AreLast
<1>14. 1 <= R /\ R <= N
  <2>1. 1 \in 1 .. R
    BY <1>6, <1>10
  <2>2. N - R + 1 \in 1 .. N
    BY <1>13, <2>1
  <2> QED BY <1>6, <1>10, <2>2
<1> DEFINE last == SubSeq(decoded, N - R + 1, N)
<1>15. last \in Seq(Frames) /\ Len(last) = R /\ \A n \in 1 .. R : last[n] = decoded[N - R + n]
  <2>1. N - R + 1 \in 1 .. N + 1 /\ N - (N - R + 1) + 1 = R
        /\ \A n \in 1 .. R : N - R + 1 + n - 1 = N - R + n
    BY <1>6, <1>14
  <2>2. last = From(decoded, N - R + 1)
    BY DEF From
  <2>3. /\ From(decoded, N - R + 1) \in Seq(Frames)
        /\ Len(From(decoded, N - R + 1)) = N - (N - R + 1) + 1
        /\ \A n \in 1 .. N - (N - R + 1) + 1 :
             From(decoded, N - R + 1)[n] = decoded[N - R + 1 + n - 1]
    BY <1>2, <2>1, FromIs
  <2> HIDE DEF last
  <2> QED BY <2>1, <2>2, <2>3
<1> HIDE DEF last
<1>16. reported = last
  BY <1>2, <1>13, <1>15, SeqEqual
<1> QED
  BY <1>14, <1>16 DEF EndsIn, last

\* Once the device stands still after a fault, the host has decoded the report
\* (fault_report.c:4-13), unless a byte of it was dropped or a broken record has passed the
\* check, if the first two records of a report are as long as any header claims.
THEOREM HostDecodesTheReport ==
  ASSUME LongReports PROVE TraceSpec => []FaultIsDecoded
<1>1. LockInv /\ (~fooled => AccountsInv) => FaultIsDecoded
  <2> SUFFICES ASSUME LockInv, AccountsInv, Halted, line = <<>> PROVE EndsIn(decoded, reported)
    BY DEF FaultIsDecoded
  <2>1. CASE reported # <<>>
    BY <2>1, ReportDecoded
  <2>2. CASE reported = <<>>
    <3>1. decoded \in Seq(Frames) /\ Len(decoded) \in Nat
      BY LenProperties DEF AccountsInv, HistoryTypes
    <3>2. Len(reported) = 0 /\ 0 <= Len(decoded)
      BY <2>2, <3>1
    <3>3. SubSeq(decoded, Len(decoded) - 0 + 1, Len(decoded)) = <<>>
      BY <3>1
    <3> QED BY <2>2, <3>2, <3>3 DEF EndsIn
  <2> QED BY <2>1, <2>2
<1> QED
  BY <1>1, LockProtects, RecordsAccountFor, PTL

=============================================================================
