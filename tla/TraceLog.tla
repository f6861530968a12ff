------------------------------- MODULE TraceLog -------------------------------
(***************************************************************************)
(* Trace records on their way from trace.c to the host: the main loop, an    *)
(* interrupt and a fault handler share one tracer, whose lock is the flag    *)
(* trace_busy; itm_putchar writes byte by byte into the FIFO of the trace    *)
(* port and drops what finds no room in time; FrameDecoder of               *)
(* decode_trace.py finds the records in the bytes that are left.            *)
(*                                                                         *)
(* A record is <<Sync0, Sync1, id, n, a1, ..., an, c>>: the marker, one unit  *)
(* for version and event, the number of arguments, a unit for each, and a    *)
(* CRC of 8 bits.  The check of the host accepts the records there are and,  *)
(* of what nobody has traced, Flukes: bytes of broken records whose CRC is   *)
(* right by chance.  What the host promises it promises as long as it has    *)
(* not been fooled so.                                                      *)
(***************************************************************************)
EXTENDS Naturals, Sequences, FiniteSets

CONSTANTS
  Sync0, Sync1,       \* TRACE_SYNC_0 and TRACE_SYNC_1
  Ids,                \* the units that are a version and an event id
  MaxArgs,            \* TRACE_MAX_ARGS
  Events,             \* the records of the main loop and of interrupts
  Reports,            \* what a fault can report: sequences of records
  Flukes,             \* what has the right CRC although no record is like it
  FifoSize,           \* room of the trace port
  MaxRecords,         \* bound: TRACEs of the main loop and of interrupts
  MaxUpsets,          \* bound: resets and faults
  MaxLost             \* bound: bytes an attached probe makes the port drop

FrameSize(arg_count) == 5 + arg_count

\* The encoded records there are.
Frames == Events \cup UNION {{r[n] : n \in DOMAIN r} : r \in Reports}

Encoded(f) ==
  /\ Len(f) >= FrameSize(0)
  /\ f[1] = Sync0 /\ f[2] = Sync1 /\ f[3] \in Ids
  /\ f[4] \in 0 .. MaxArgs /\ Len(f) = FrameSize(f[4])

\* What the check accepts.
Checked == Frames \cup Flukes

ASSUME TraceAssumption ==
  /\ {Sync0, Sync1, MaxArgs, MaxRecords, MaxUpsets, MaxLost} \cup Ids \subseteq Nat
  /\ Sync0 # Sync1 /\ {Sync0, Sync1} \cap Ids = {}
  /\ FifoSize \in Nat \ {0}
  /\ Reports \subseteq Seq(Seq(Nat)) \ {<<>>}
  /\ Frames \subseteq Seq(Nat)
  /\ \A f \in Frames : Encoded(f)

\* The first two records of a report, of which a fault makes three, are together as
\* long as any header claims.
LongReports ==
  \A r \in Reports : Len(r) >= 2 /\ FrameSize(MaxArgs) <= Len(r[1]) + Len(r[2])

\* Who can be in the tracer: each preempts those before it.
Contexts == {"main", "isr", "fault"}

VARIABLES
  level,              \* the context that the processor executes
  trace_busy,         \* the lock of trace.c
  record,             \* the record each context is emitting, or <<>>
  rest,               \* what it has still to put of it
  reports,            \* the records the fault handler has still to trace
  escalated,          \* is it the handler of HardFault
  reported,           \* history: those of this fault, as long as no byte was dropped
  line,               \* the FIFO of the trace port
  probe,              \* does a debug probe drain it
  buffer,             \* FrameDecoder.buffer
  decoded,            \* the records the host has decoded
  crcOf,              \* history: of each byte in buffer and line the record whose CRC
                      \* it is, or <<>>
  fooled,             \* history: has the host taken bytes for a record by chance
  begun,              \* history: the records that got the lock
  whole,              \* history: was every byte of the record put so far
  log,                \* history: the records put on the line whole
  traces, upsets, lost \* history: how many

traceVars == <<level, trace_busy, record, rest, reports, escalated, reported, line, probe,
               buffer, decoded, crcOf, fooled, begun, whole, log, traces, upsets, lost>>
tracer == <<trace_busy, record, rest, begun, whole>>
report == <<reports, escalated, reported>>
host == <<probe, buffer, decoded, fooled>>
stream == <<line, crcOf>>
bounded == <<traces, upsets, lost>>

-----------------------------------------------------------------------------
(* The device. *)

\* The flag is set without a look at it.
FaultyMayLock == TRUE

MayLock == trace_busy = 0

\* trace_emit_record up to its first byte; without the lock the record is
\* dropped.  The flag is tested and set with interrupts off, in one step.
Emit(c, f) ==
  \/ /\ MayLock
     /\ trace_busy' = 1
     /\ record' = [record EXCEPT ![c] = f]
     /\ rest' = [rest EXCEPT ![c] = f]
     /\ begun' = Append(begun, f)
     /\ whole' = [whole EXCEPT ![c] = TRUE]
  \/ ~MayLock /\ UNCHANGED tracer

\* TRACE in the main loop, of the bootloader or of the application.
Trace(f) ==
  /\ level = "main" /\ record["main"] = <<>>
  /\ traces < MaxRecords /\ traces' = traces + 1
  /\ Emit("main", f)
  /\ UNCHANGED <<level, report, stream, host, log, upsets, lost>>

\* An interrupt whose handler traces; it returns before main goes on.
Interrupt(f) ==
  /\ level = "main"
  /\ traces < MaxRecords /\ traces' = traces + 1
  /\ level' = "isr"
  /\ Emit("isr", f)
  /\ UNCHANGED <<report, stream, host, log, upsets, lost>>

ReturnFromInterrupt ==
  /\ level = "isr" /\ record["isr"] = <<>>
  /\ level' = "main"
  /\ UNCHANGED <<tracer, report, stream, host, log, bounded>>

\* A byte waits for the port as long as it takes.
FaultyGivesUp == FALSE

\* The loop of itm_putchar is bounded, and the port is full for longer.
GivesUp == Len(line) = FifoSize /\ (probe => lost < MaxLost)

\* itm_putchar: the port takes the byte, or the byte is dropped.
Put ==
  /\ rest[level] # <<>>
  /\ rest' = [rest EXCEPT ![level] = Tail(@)]
  /\ \/ /\ Len(line) < FifoSize
        /\ line' = Append(line, Head(rest[level]))
        /\ crcOf' = Append(crcOf, IF Len(rest[level]) = 1 THEN record[level] ELSE <<>>)
        /\ log' = IF whole[level] /\ Len(rest[level]) = 1
                  THEN Append(log, record[level]) ELSE log
        /\ UNCHANGED <<whole, reported, lost>>
     \/ /\ GivesUp
        /\ whole' = [whole EXCEPT ![level] = FALSE]
        /\ reported' = <<>>
        /\ lost' = IF probe THEN lost + 1 ELSE lost
        /\ UNCHANGED <<stream, log>>
  /\ UNCHANGED <<level, trace_busy, record, reports, escalated, host, begun, traces, upsets>>

\* The record ends, but the flag stays set.
FaultyUnlocked == trace_busy

Unlocked == 0

\* trace_unlock, after the last byte.
Unlock ==
  /\ record[level] # <<>> /\ rest[level] = <<>>
  /\ trace_busy' = Unlocked
  /\ record' = [record EXCEPT ![level] = <<>>]
  /\ UNCHANGED <<level, rest, report, stream, host, begun, whole, log, bounded>>

\* The handler takes the lock as any other does.
FaultyAborted == trace_busy

\* trace_abort_record.
Aborted == 0

\* fault_handle_exception, which no interrupt leaves, up to the first TRACE of
\* fault_report_emit.  A fault in it is a HardFault, whose handler starts over; the
\* handler of HardFault ends at the next one.
Fault ==
  /\ \/ level # "fault" /\ escalated' \in BOOLEAN
     \/ level = "fault" /\ ~escalated /\ escalated' = TRUE
  /\ upsets < MaxUpsets /\ upsets' = upsets + 1
  /\ level' = "fault"
  /\ trace_busy' = Aborted
  /\ record' = [record EXCEPT !["fault"] = <<>>] /\ rest' = [rest EXCEPT !["fault"] = <<>>]
  /\ \E r \in Reports : reports' = r /\ reported' = r
  /\ UNCHANGED <<stream, host, begun, whole, log, traces, lost>>

ReportFault ==
  /\ level = "fault" /\ record["fault"] = <<>> /\ reports # <<>>
  /\ Emit("fault", Head(reports))
  /\ reports' = Tail(reports)
  /\ UNCHANGED <<level, escalated, reported, stream, host, log, bounded>>

Quiet == [c \in Contexts |-> <<>>]

\* The watchdog, the reset line or NVIC_SystemReset, at any point: the startup
\* code clears trace_busy with the other variables.
Reset ==
  /\ upsets < MaxUpsets /\ upsets' = upsets + 1
  /\ level' = "main"
  /\ trace_busy' = 0
  /\ record' = Quiet /\ rest' = Quiet
  /\ whole' = [c \in Contexts |-> FALSE]
  /\ reports' = <<>> /\ escalated' = FALSE /\ reported' = <<>>
  /\ UNCHANGED <<stream, host, begun, log, traces, lost>>

-----------------------------------------------------------------------------
(* The host. *)

MarkerAt(bytes, i) == i < Len(bytes) /\ bytes[i] = Sync0 /\ bytes[i + 1] = Sync1

From(bytes, i) == SubSeq(bytes, i, Len(bytes))

\* A frame that fails its check is dropped with all its header claims.
FaultyAfterMismatch(i, size) == i + size

\* Only its first byte is dropped: the next marker may be within it.
AfterMismatch(i, size) == i + 1

\* FrameDecoder.feed on what the buffer then holds, byte i on: the records in
\* it, where each begins, and what has to wait for more bytes.
Scan(bytes) ==
  LET wait(i) == [records |-> <<>>, starts |-> <<>>, rest |-> From(bytes, i)]
      from[i \in 1 .. Len(bytes) + FrameSize(MaxArgs) + 1] ==
        LET size == FrameSize(bytes[i + 3])
            frame == SubSeq(bytes, i, i + size - 1)
        IN IF i > Len(bytes) THEN wait(i)
           ELSE IF i = Len(bytes) /\ bytes[i] = Sync0 THEN wait(i)
           ELSE IF ~MarkerAt(bytes, i) THEN from[i + 1]
           ELSE IF i + FrameSize(0) - 1 > Len(bytes) THEN wait(i)
           ELSE IF bytes[i + 2] \notin Ids \/ bytes[i + 3] > MaxArgs THEN from[i + 1]
           ELSE IF i + size - 1 > Len(bytes) THEN wait(i)
           ELSE IF frame \notin Checked THEN from[AfterMismatch(i, size)]
           ELSE [from[i + size] EXCEPT !.records = <<frame>> \o @, !.starts = <<i>> \o @]
  IN from[1]

\* Of the bytes of record f on their way, the last is its CRC.
CrcIn(f) == [k \in 1 .. Len(f) |-> IF k = Len(f) THEN f ELSE <<>>]

\* No record has another CRC in it than its own, at its end.
Earnest(scan) ==
  \A n \in DOMAIN scan.records :
    LET f == scan.records[n]
    IN SubSeq(crcOf, scan.starts[n], scan.starts[n] + Len(f) - 1) = CrcIn(f)

\* decode_stream reads what the probe has captured, in chunks of any size.
Read ==
  /\ probe
  /\ \E n \in 1 .. Len(line) :
       LET bytes == buffer \o SubSeq(line, 1, n)
           scan == Scan(bytes)
       IN /\ line' = From(line, n + 1)
          /\ buffer' = scan.rest
          /\ decoded' = decoded \o scan.records
          /\ crcOf' = From(crcOf, Len(bytes) - Len(scan.rest) + 1)
          /\ fooled' = (fooled \/ ~Earnest(scan))
  /\ UNCHANGED <<level, tracer, report, probe, log, bounded>>

\* Without a probe the port stays full.
TraceInit ==
  /\ level = "main" /\ trace_busy = 0
  /\ record = Quiet /\ rest = Quiet /\ whole = [c \in Contexts |-> FALSE]
  /\ reports = <<>> /\ escalated = FALSE /\ reported = <<>>
  /\ crcOf = <<>> /\ fooled = FALSE
  /\ line = <<>> /\ probe \in BOOLEAN /\ buffer = <<>> /\ decoded = <<>>
  /\ begun = <<>> /\ log = <<>> /\ traces = 0 /\ upsets = 0 /\ lost = 0

\* What the processor does next when nothing happens to it.
TracerStep == Put \/ Unlock \/ ReportFault \/ ReturnFromInterrupt

TraceNext ==
  \/ \E f \in Events : Trace(f) \/ Interrupt(f)
  \/ TracerStep \/ Fault \/ Reset \/ Read

TraceSpec == TraceInit /\ [][TraceNext]_traceVars

\* The processor never stops of itself, and a probe that is there reads on.
FairTraceSpec == TraceSpec /\ WF_traceVars(TracerStep) /\ WF_traceVars(Read)

-----------------------------------------------------------------------------
(* Properties. *)

Emitting(c) == record[c] # <<>>

TraceTypeOK ==
  /\ level \in Contexts /\ trace_busy \in {0, 1}
  /\ record \in [Contexts -> Frames \cup {<<>>}]
  /\ rest \in [Contexts -> Seq(Nat)]
  /\ reports \in Seq(Frames) /\ escalated \in BOOLEAN

\* Outside the fault handler the flag is set exactly while one context is in
\* the tracer, so main never finds it set and an interrupt only over a record
\* of main; the fault handler finds it free, and the record it broke off never
\* goes on (trace.c:13-36).
LockInv ==
  /\ TraceTypeOK
  /\ level # "fault" => (trace_busy = 1 <=> Emitting("main") \/ Emitting("isr"))
  /\ level = "fault" => (trace_busy = 1 <=> Emitting("fault"))
  /\ ~(level # "fault" /\ Emitting("main") /\ Emitting("isr"))
  /\ level = "main" => ~Emitting("isr")
  /\ level # "fault" => ~Emitting("fault") /\ reports = <<>>
  /\ \A c \in Contexts : ~Emitting(c) => rest[c] = <<>>

\* xs is ys with some of its elements left out.
Within(xs, ys) ==
  \E S \in SUBSET DOMAIN ys :
    /\ Cardinality(S) = Len(xs)
    /\ \A n \in S : ys[n] = xs[Cardinality({m \in S : m <= n})]

\* The host decodes no record that did not get the lock, and none twice; once
\* it waits for nothing it has every record that was put whole, whatever was
\* broken off, dropped or refused between them, as long as no broken record has
\* passed the check.  (The head of one record and the tail of the same one,
\* traced again after a reset, count as either.)
DecodesTheLog ==
  ~fooled =>
    /\ Within(decoded, begun)
    /\ line = <<>> /\ buffer = <<>> => Within(log, decoded)

Halted == level = "fault" /\ record["fault"] = <<>> /\ reports = <<>>

EndsIn(records, last) ==
  /\ Len(last) <= Len(records)
  /\ last = SubSeq(records, Len(records) - Len(last) + 1, Len(records))

\* The report of a fault is made, and decoded, although it comes in the middle
\* of another record: once the device stands still the host has it, unless a byte
\* of it was dropped or a broken record has passed the check, whatever was lost
\* before, and although a second fault starts the report over.  It never waits for
\* the bytes of a next record, as it is longer than what any broken header claims
\* (fault_report.c:4-13).
FaultIsDecoded == ~fooled /\ Halted /\ line = <<>> => EndsIn(decoded, reported)

\* Tracing never holds up the processor, with no probe attached and the port
\* full for ever: the main loop comes out of the tracer, and the fault handler
\* comes to its end (hal_impl/stm32l1/itm.c:7).
NeverStalls ==
  /\ []<>(~Emitting("main") \/ level = "fault")
  /\ level = "fault" ~> (Halted \/ level # "fault")

=============================================================================
