----------------------------- MODULE HostUpdater -----------------------------
(***************************************************************************)
(* The command sequence of tools/uart_update.py (can_update.py runs the same  *)
(* functions over its own port) against what answers it: the update agent of  *)
(* the application or the session of the bootloader, across the reset between *)
(* them.  The tool is run again after it failed or was stopped.               *)
(*                                                                         *)
(* Whole packets travel in order, as UpdateStream and CanTransport show; one   *)
(* may be lost on either way, come late, or not be heard by a device that is   *)
(* starting.  Every run uses the default session id, so a packet of a former   *)
(* run is as good to the device as one of this run.  An image is the sequence  *)
(* of its blocks; a status is "ok" or "refused".                             *)
(***************************************************************************)
EXTENDS Naturals, Sequences

CONSTANTS
  Images,             \* the images the tool is run with, as sequences of blocks
  EnterTries,         \* the retries main gives request_update_mode
  DiscoverTries,      \* how many times DISCOVER fits before its deadline
  MaxRuns,            \* bound: runs of the tool
  MaxFaults           \* bound: what goes wrong in all of them

ASSUME UpdaterAssumption ==
  /\ \A i \in Images : i \in Seq(Nat) /\ i # <<>>
  /\ EnterTries \in Nat \ {0} /\ DiscoverTries \in Nat \ {0}
  /\ MaxRuns \in Nat /\ MaxFaults \in Nat

VARIABLES
  phase,              \* where the tool is: one of its functions, or its exit code
  image,              \* what it was started with
  next,               \* the attempt it is at, or the command of run_update
  waiting,            \* is it in expect_ack
  line,               \* packets on their way to the device
  answers,            \* acknowledgements on their way to the tool
  mode,               \* what the device executes
  update_request,     \* the handoff word
  session,            \* boot_update_session_t
  slot,               \* the blocks written to the target slot since its erase
  activated,          \* what the slot last marked pending held then
  runs,               \* history: how often the tool was started
  faults,             \* history: how much went wrong
  fresh,              \* history: nothing was on its way when this run began
  undisturbed         \* history: and nothing has gone wrong since

tool == <<phase, image, next, waiting>>
channel == <<line, answers>>
device == <<mode, update_request, session, slot, activated>>
history == <<runs, faults, fresh, undisturbed>>
vars == <<tool, channel, device, history>>

Running == phase \in {"request", "discover", "update"}

-----------------------------------------------------------------------------
(* The tool. *)

Packet(command, sequence, data) ==
  [command |-> command, sequence |-> sequence, data |-> data]

\* run_update: the offset of a block is its sequence number.
Script(i) ==
  <<Packet("BEGIN", 0, i)>>
    \o [b \in 1 .. Len(i) |-> Packet("BLOCK", b - 1, <<i[b]>>)]
    \o <<Packet("END", 0, <<>>), Packet("VALIDATE", 0, <<>>),
         Packet("ACTIVATE", 0, <<>>)>>

Request ==
  CASE phase = "request"  -> Packet("ENTER_UPDATE", next, <<>>)
    [] phase = "discover" -> Packet("DISCOVER", next, <<>>)
    [] phase = "update"   -> Script(image)[next]

Answer(command, sequence, status) ==
  [command |-> command, sequence |-> sequence, status |-> status]

\* The answer to what was not recognized as a packet.
Refusal == Answer("none", 0, "refused")

Enter(p, n) == phase' = p /\ next' = n

\* Any success will do.
FaultyMatches(a) == a.status = "ok"

\* expect_ack.
Matches(a) == a = Answer(Request.command, Request.sequence, "ok")

Succeed ==
  CASE phase = "request"  -> Enter("discover", 0)
    [] phase = "discover" -> Enter("update", 1)
    [] phase = "update"   -> IF next < Len(Script(image))
                             THEN Enter("update", next + 1) ELSE Enter("done", 0)

FaultyLastTry(tries) == next = tries

LastTry(tries) == next + 1 = tries

\* A timeout or a wrong answer: request_update_mode gives up without an error,
\* wait_for_bootloader with one, and run_update has no second attempt.
Fail ==
  CASE phase = "request"  -> IF LastTry(EnterTries)
                             THEN Enter("discover", 0) ELSE Enter("request", next + 1)
    [] phase = "discover" -> IF LastTry(DiscoverTries)
                             THEN Enter("failed", 0) ELSE Enter("discover", next + 1)
    [] phase = "update"   -> Enter("failed", 0)

\* main: what has arrived is thrown away, what is still on its way is not.
Start ==
  /\ ~Running /\ runs < MaxRuns
  /\ \E i \in Images, arrived \in 0 .. Len(answers) :
       /\ image' = i
       /\ answers' = SubSeq(answers, arrived + 1, Len(answers))
  /\ Enter("request", 0)
  /\ waiting' = FALSE
  /\ runs' = runs + 1
  /\ fresh' = (line = <<>> /\ answers' = <<>>)
  /\ undisturbed' = fresh'
  /\ UNCHANGED <<line, device, faults>>

Send ==
  /\ Running /\ ~waiting
  /\ line' = Append(line, Request)
  /\ waiting' = TRUE
  /\ UNCHANGED <<phase, image, next, answers, device, history>>

Receive ==
  /\ Running /\ waiting /\ answers # <<>>
  /\ IF Matches(Head(answers)) THEN Succeed ELSE Fail
  /\ answers' = Tail(answers)
  /\ waiting' = FALSE
  /\ UNCHANGED <<image, line, device, history>>

Expire ==
  /\ Running /\ waiting
  /\ Fail
  /\ waiting' = FALSE
  /\ UNCHANGED <<image, channel, device>>

\* Nothing is on its way, and the device listens: a start takes less than the
\* two seconds of the timeout.
Due == line = <<>> /\ answers = <<>> /\ mode \in {"app", "update"}

TimeOut == Due /\ Expire /\ UNCHANGED history

-----------------------------------------------------------------------------
(* The device. *)

NoSession ==
  [active |-> FALSE, expected |-> <<>>, received |-> 0, complete |-> FALSE,
   valid |-> FALSE]

\* A reset, with or without the handoff word.
Reset(request) ==
  /\ mode' = "boot"
  /\ update_request' = request
  /\ session' = NoSession

\* update_handoff_take, enter_update_mode; or else the probe.
Boot ==
  /\ mode = "boot"
  /\ mode' = IF update_request THEN "update" ELSE "probe"
  /\ update_request' = FALSE
  /\ UNCHANGED <<tool, channel, session, slot, activated, history>>

\* The probe is over, or the application has come to update_agent_init.
Proceed ==
  /\ \/ mode = "probe" /\ mode' = "start"
     \/ mode = "start" /\ mode' = "app"
  /\ UNCHANGED <<tool, channel, update_request, session, slot, activated, history>>

\* Bytes sent to a device that is starting are lost.
Deaf ==
  /\ mode \in {"boot", "start"} /\ line # <<>>
  /\ line' = Tail(line)
  /\ UNCHANGED <<tool, answers, device, history>>

\* The probe hears the rest of a packet: that is enough to stay.
HearTheRest ==
  /\ mode = "probe" /\ line # <<>>
  /\ mode' = "update"
  /\ line' = Tail(line)
  /\ UNCHANGED <<tool, answers, update_request, session, slot, activated, history>>

Respond(p, accepted) ==
  /\ line' = Tail(line)
  /\ answers' = Append(answers, Answer(p.command, p.sequence,
                                       IF accepted THEN "ok" ELSE "refused"))

\* update_agent_poll.
AppAnswers ==
  /\ mode = "app" /\ line # <<>>
  /\ LET p == Head(line) IN
       /\ Respond(p, p.command \in {"DISCOVER", "ENTER_UPDATE"})
       /\ IF p.command = "ENTER_UPDATE"
          THEN Reset(TRUE) ELSE UNCHANGED <<mode, update_request, session>>
  /\ UNCHANGED <<tool, slot, activated, history>>

\* The count of the former transfer is kept.
FaultyBegun(i) ==
  [active |-> TRUE, expected |-> i, received |-> session.received,
   complete |-> FALSE, valid |-> FALSE]

Begun(i) ==
  [active |-> TRUE, expected |-> i, received |-> 0, complete |-> FALSE, valid |-> FALSE]

IsNext(p) == p.sequence = session.received /\ p.sequence < Len(session.expected)

\* A block sent again, as it was written.
IsRepeated(p) ==
  /\ p.sequence < session.received
  /\ p.sequence < Len(slot) /\ slot[p.sequence + 1] = p.data[1]

\* boot_update_session_process.
Accepts(p) ==
  \/ p.command \in {"DISCOVER", "ENTER_UPDATE", "BEGIN"}
  \/ /\ session.active
     /\ \/ p.command = "BLOCK" /\ (IsNext(p) \/ IsRepeated(p))
        \/ p.command = "END" /\ session.received = Len(session.expected)
        \/ p.command = "VALIDATE" /\ session.complete /\ slot = session.expected
        \/ p.command = "ACTIVATE" /\ session.valid

\* What an accepted command does to the session and the slot.
Process(p) ==
  /\ session' =
       CASE p.command = "BEGIN" -> Begun(p.data)
         [] p.command = "BLOCK" /\ IsNext(p) -> [session EXCEPT !.received = @ + 1]
         [] p.command = "END" -> [session EXCEPT !.complete = TRUE]
         [] p.command = "VALIDATE" -> [session EXCEPT !.valid = TRUE]
         [] OTHER -> session
  /\ slot' =
       CASE p.command = "BEGIN" -> <<>>
         [] p.command = "BLOCK" /\ IsNext(p) -> slot \o p.data
         [] OTHER -> slot

\* boot_update_loop_poll, from the probe on.
BootloaderAnswers ==
  /\ mode \in {"probe", "update"} /\ line # <<>>
  /\ LET p == Head(line) IN
       /\ Respond(p, Accepts(p))
       /\ \/ /\ Accepts(p) /\ p.command = "ACTIVATE"
             /\ activated' = slot
             /\ Reset(FALSE)
             /\ UNCHANGED slot
          \/ /\ Accepts(p) /\ p.command # "ACTIVATE"
             /\ Process(p)
             /\ mode' = "update"
             /\ UNCHANGED <<update_request, activated>>
          \/ /\ ~Accepts(p)
             /\ mode' = "update"
             /\ UNCHANGED <<update_request, session, slot, activated>>
  /\ UNCHANGED <<tool, history>>

-----------------------------------------------------------------------------
(* What goes wrong. *)

Disturb ==
  /\ faults < MaxFaults /\ faults' = faults + 1
  /\ undisturbed' = FALSE
  /\ UNCHANGED <<runs, fresh>>

\* A request is lost, or refused for what is left of it.
LoseRequest ==
  /\ Disturb /\ line # <<>>
  /\ line' = Tail(line)
  /\ answers' \in {answers} \cup IF mode = "boot" \/ mode = "start" THEN {}
                                 ELSE {Append(answers, Refusal)}
  /\ mode' = IF mode = "probe" THEN "update" ELSE mode
  /\ UNCHANGED <<tool, update_request, session, slot, activated>>

LoseAnswer ==
  /\ Disturb /\ answers # <<>>
  /\ answers' = Tail(answers)
  /\ UNCHANGED <<tool, line, device>>

\* The answer takes longer than the timeout.
LateAnswer == Disturb /\ ~Due /\ Expire

\* The tool is interrupted.
Stop ==
  /\ Disturb /\ Running
  /\ Enter("failed", 0) /\ waiting' = FALSE
  /\ UNCHANGED <<image, channel, device>>

\* An erase or a write is not carried out; a BEGIN may have erased the slot.
FlashFails ==
  /\ Disturb
  /\ mode \in {"probe", "update"} /\ line # <<>>
  /\ mode' = "update"
  /\ LET p == Head(line) IN
       /\ Accepts(p) /\ p.command \in {"BEGIN", "BLOCK", "ACTIVATE"}
       /\ p.command = "BLOCK" => IsNext(p)
       /\ Respond(p, FALSE)
       /\ slot' \in IF p.command = "BEGIN" THEN {slot, <<>>} ELSE {slot}
  /\ UNCHANGED <<tool, update_request, session, activated>>

PowerLoss ==
  /\ Disturb
  /\ \E request \in {FALSE, update_request} : Reset(request)
  /\ UNCHANGED <<tool, channel, slot, activated>>

-----------------------------------------------------------------------------
\* No run yet is as good as one that failed.
Init ==
  /\ phase = "failed" /\ next = 0 /\ waiting = FALSE
  /\ image \in Images
  /\ line = <<>> /\ answers = <<>>
  /\ mode = "boot" /\ update_request = FALSE
  /\ session = NoSession /\ slot = <<>> /\ activated = <<>>
  /\ runs = 0 /\ faults = 0 /\ fresh = FALSE /\ undisturbed = FALSE

Tool == Send \/ Receive \/ TimeOut
Device == Boot \/ Proceed \/ AppAnswers \/ BootloaderAnswers
Fault == LoseRequest \/ LoseAnswer \/ LateAnswer \/ Stop \/ FlashFails \/ PowerLoss

Next == Start \/ Tool \/ Device \/ Deaf \/ HearTheRest \/ Fault

Spec == Init /\ [][Next]_vars

\* The tool and the device go on with what they do; a run is begun by somebody.
FairSpec == Spec /\ WF_vars(Tool) /\ WF_vars(Device)

-----------------------------------------------------------------------------
(* Properties. *)

Commands ==
  {"ENTER_UPDATE", "DISCOVER", "BEGIN", "BLOCK", "END", "VALIDATE", "ACTIVATE"}

TypeOK ==
  /\ phase \in {"request", "discover", "update", "done", "failed"}
  /\ image \in Images /\ waiting \in BOOLEAN
  /\ next \in CASE phase = "request"  -> 0 .. EnterTries - 1
                [] phase = "discover" -> 0 .. DiscoverTries - 1
                [] phase = "update"   -> 1 .. Len(Script(image))
                [] OTHER              -> {0}
  /\ line \in Seq([command : Commands, sequence : Nat, data : Seq(Nat)])
  /\ answers \in Seq([command : Commands \cup {"none"}, sequence : Nat,
                      status : {"ok", "refused"}])
  /\ mode \in {"boot", "probe", "start", "app", "update"}
  /\ update_request \in BOOLEAN
  /\ session \in [active : BOOLEAN, expected : Seq(Nat), received : Nat,
                  complete : BOOLEAN, valid : BOOLEAN]
  /\ session.received <= Len(session.expected)
  /\ session.valid => session.complete
  /\ slot \in Seq(Nat) /\ activated \in Seq(Nat)
  /\ runs \in 0 .. MaxRuns /\ faults \in 0 .. MaxFaults
  /\ fresh \in BOOLEAN /\ undisturbed \in BOOLEAN

\* When the tool prints that the update is activated, the image it was given is
\* the one the device has marked pending, whatever was lost or late before.
SuccessIsReal == phase = "done" => activated = image

\* Once it has found the bootloader, a run that began with nothing on its way is
\* never an answer behind, whatever was lost or late in it: the next answer is
\* to the command it sent last, or to nothing it sent.
InStep ==
  phase = "update" /\ fresh =>
    \A k \in DOMAIN answers :
      \/ answers[k] = Refusal
      \/ /\ answers[k].command = Request.command
         /\ answers[k].sequence = Request.sequence

\* Sent by this run, before what it waits for now; and what it waits for.
Earlier(x) ==
  \/ phase = "request" /\ x.command = "ENTER_UPDATE" /\ x.sequence < next
  \/ phase = "discover" /\ x.command = "ENTER_UPDATE"
  \/ phase = "discover" /\ x.command = "DISCOVER" /\ x.sequence < next

Current(x) == waiting /\ x.command = Request.command /\ x.sequence = Request.sequence

Accepted == answers # <<>> /\ answers[1].status = "ok"

\* While it looks for the bootloader, the answer the tool waits for comes last.
MatchComesLast ==
  fresh /\ phase \in {"request", "discover"} =>
    /\ \A k \in DOMAIN line : Earlier(line[k]) \/ (Current(line[k]) /\ k = Len(line))
    /\ \A k \in DOMAIN answers :
         \/ answers[k] = Refusal \/ Earlier(answers[k])
         \/ Current(answers[k]) /\ k = Len(answers) /\ line = <<>>

\* Hence an update begins with nothing on its way, and goes on one by one.
OneAtATime ==
  fresh /\ phase = "update" =>
    /\ Len(line) + Len(answers) <= IF waiting THEN 1 ELSE 0
    /\ line # <<>> => line[1] = Request

\* Once BEGIN has been accepted the session is the one of this run, if the device
\* still has one, and a verdict is about the image of this run.
SessionIsOfThisRun ==
  /\ fresh /\ phase = "update" /\ (next > 1 \/ Accepted) /\ session.active =>
       /\ session.expected = image
       /\ session.complete => session.received = Len(image)
       /\ session.valid => slot = image
  /\ fresh /\ phase = "update" /\ next = Len(Script(image)) /\ Accepted => activated = image
  /\ fresh /\ phase = "done" => activated = image /\ line = <<>>

\* What a run that began with nothing on its way can rely on between any two
\* steps: whose packets and answers are on their way, and whose session it is
\* (uart_update.py:248-385, update_agent.c, update_session.c).
HostInv ==
  TypeOK /\ InStep /\ MatchComesLast /\ OneAtATime /\ SessionIsOfThisRun

\* A run that nothing disturbs succeeds, whatever the runs before it have left:
\* half a transfer, a session, an answer thrown away, a device that is starting.
RetrySucceeds == (Running /\ undisturbed) ~> (phase = "done" \/ ~undisturbed)

=============================================================================
