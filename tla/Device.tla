------------------------------- MODULE Device --------------------------------
(***************************************************************************)
(* One device through resets, boots and updates: bootloader/src/main.c with *)
(* its update mode (the session of update_session.c at the grain of whole  *)
(* commands that succeed), the application's platform runtime as far as it *)
(* confirms a boot, asks for an update and lets the watchdog fire, and the *)
(* boot-state store of BootStateStore below both.                          *)
(*                                                                         *)
(* The processor runs one thing at a time.  pc says what; while a save is  *)
(* in progress (Busy) only the store or a reset makes a step.  A slot holds *)
(* a complete image, whose CRC app_image_validate accepts, or NoImage: an  *)
(* erased, interrupted or mixed content.                                   *)
(***************************************************************************)
EXTENDS BootStateStore

CONSTANTS
  BadVectors,         \* images whose stack pointer or reset vector is refused
  BadRelocation,      \* images whose tables boot_runtime_relocate refuses
  Unhealthy,          \* images that never report healthy once they run
  SlotErrors,         \* may erasing a slot fail, with FlashErrors for the record
  BeginWhilePending,  \* may the host send BEGIN while an image awaits confirmation
  LastActivation      \* bound: no ACTIVATE once the generation is past it

ASSUME DeviceAssumption ==
  /\ BadVectors \subseteq Images
  /\ BadRelocation \subseteq Images
  /\ Unhealthy \subseteq Images
  /\ SlotErrors \in BOOLEAN
  /\ BeginWhilePending \in BOOLEAN
  /\ LastActivation \in Nat
  /\ LastActivation + 5 < GenerationModulus  \* flash wears out long before the wrap

VARIABLES
  pc,                 \* what the processor executes
  slots,              \* the content of the two application slots
  boot_state,         \* the boot_state_record_t on the stack of the bootloader's main
  candidate,          \* boot_candidate_t: the slot being booted or running
  update_request,     \* the handoff word in RAM a reset preserves
  session,            \* boot_update_session_t
  confirmed,          \* boot_confirmation_t.completed of the running application
  starts,             \* history: starts of the image last activated, unconfirmed
  attended            \* history: has the host spoken to the bootloader since the reset

vars == <<copies, job, pc, slots, boot_state, candidate, update_request, session,
          confirmed, starts, attended>>
stored == <<copies, job>>
bootvars == <<boot_state, candidate>>
history == <<starts, attended>>

NoCandidate == [slot |-> NoSlot, boot_pending |-> FALSE]

\* boot_update_session_init.
NoSession ==
  [active |-> FALSE, target |-> "B", expected |-> NoImage, complete |-> FALSE,
   valid |-> FALSE, reset_requested |-> FALSE]

Ready(phase) == pc = phase /\ ~Busy

\* The caller of a save looks at its result, or main ignores it.
TakeResult == job' = IdleJob /\ UNCHANGED copies

ThenSave(rec) ==
  /\ job' = [step |-> "erase", rec |-> rec]
  /\ UNCHANGED copies

\* main's record and candidate are never looked at again: it does not return.
EnterUpdateMode ==
  /\ pc' = "update"
  /\ session' = NoSession
  /\ boot_state' = NoRecord /\ candidate' = NoCandidate

\* Whatever the reason of a reset, every RAM variable but the handoff is lost.
LoseMemory ==
  /\ session' = NoSession
  /\ boot_state' = NoRecord /\ candidate' = NoCandidate
  /\ confirmed' = FALSE
  /\ attended' = FALSE

Restart == pc' = "reset" /\ LoseMemory

-----------------------------------------------------------------------------
(* The bootloader's boot path. *)

\* update_handoff_take: the word is consumed.
TakeHandoff ==
  /\ pc = "reset" /\ update_request
  /\ update_request' = FALSE
  /\ EnterUpdateMode
  /\ attended' = TRUE
  /\ UNCHANGED <<stored, slots, confirmed, starts>>

\* Any byte, packet, parse error or frame seen while probing is a hit.
ProbeHit ==
  /\ pc = "reset" /\ ~update_request
  /\ EnterUpdateMode
  /\ attended' = TRUE
  /\ UNCHANGED <<stored, slots, update_request, confirmed, starts>>

PolicyChanged(before, after) == after.generation # before.generation

\* Nobody spoke: load, select and, if the policy changed the record, save.
SelectBootSlot ==
  /\ pc = "reset" /\ ~update_request
  /\ LET choice == SelectCandidate(Load) IN
       /\ boot_state' = choice.state
       /\ candidate' = [slot |-> choice.slot, boot_pending |-> choice.boot_pending]
       /\ IF PolicyChanged(Load, choice.state)
          THEN ThenSave(choice.state) ELSE UNCHANGED stored
  /\ pc' = "validate"
  /\ UNCHANGED <<slots, update_request, session, confirmed, history>>

SlotIsValid(slot) == slots[slot] # NoImage

ValidateCandidate ==
  /\ Ready("validate")
  /\ \/ /\ SlotIsValid(candidate.slot)
        /\ pc' = "vectors"
        /\ TakeResult
        /\ UNCHANGED <<bootvars, session>>
     \/ /\ ~SlotIsValid(candidate.slot) /\ candidate.boot_pending
        /\ boot_state' = MarkPendingBad(boot_state)
        /\ ThenSave(boot_state')
        /\ pc' = "fallback"
        /\ UNCHANGED <<candidate, session>>
     \/ /\ ~SlotIsValid(candidate.slot) /\ ~candidate.boot_pending
        /\ TakeResult
        /\ EnterUpdateMode
  /\ UNCHANGED <<slots, update_request, confirmed, history>>

\* The second selection works on the record in RAM, whatever was saved, and
\* what it would change is not saved.
FallBack ==
  /\ Ready("fallback")
  /\ TakeResult
  /\ LET choice == SelectCandidate(boot_state) IN
       \/ /\ SlotIsValid(choice.slot)
          /\ boot_state' = choice.state
          /\ candidate' = [slot |-> choice.slot, boot_pending |-> choice.boot_pending]
          /\ pc' = "vectors"
          /\ UNCHANGED session
       \/ ~SlotIsValid(choice.slot) /\ EnterUpdateMode
  /\ UNCHANGED <<slots, update_request, confirmed, history>>

CandidateImage == slots[candidate.slot]

RejectVectors ==
  /\ Ready("vectors") /\ CandidateImage \in BadVectors
  /\ IF candidate.boot_pending
     THEN /\ boot_state' = MarkPendingBad(boot_state)
          /\ ThenSave(boot_state')
     ELSE UNCHANGED <<stored, boot_state>>
  /\ pc' = "giveup"
  /\ UNCHANGED <<slots, candidate, update_request, session, confirmed, history>>

GiveUp ==
  /\ Ready("giveup")
  /\ TakeResult
  /\ EnterUpdateMode
  /\ UNCHANGED <<slots, update_request, confirmed, history>>

\* The handoff is prepared, but the relocation fails and the record is left as
\* it is, the pending image included.
RejectRelocation ==
  /\ Ready("vectors") /\ CandidateImage \in BadRelocation \ BadVectors
  /\ EnterUpdateMode
  /\ UNCHANGED <<stored, slots, update_request, confirmed, history>>

JumpToApp ==
  /\ Ready("vectors") /\ CandidateImage \notin BadVectors \cup BadRelocation
  /\ pc' = "app"
  /\ boot_state' = NoRecord
  /\ starts' = IF candidate.boot_pending /\ starts <= MaxPendingAttempts
               THEN starts + 1 ELSE starts
  /\ UNCHANGED <<stored, slots, candidate, update_request, session, confirmed,
                 attended>>

-----------------------------------------------------------------------------
(* The application's platform runtime. *)

Healthy == CandidateImage \notin Unhealthy

\* platform_confirm_pending_boot, once the health period is over.  It confirms
\* the slot the record calls pending, and does not ask which slot is running.
Confirm ==
  /\ pc = "app" /\ job = IdleJob /\ Healthy /\ ~confirmed
  /\ IF HasPending(Load)
     THEN ThenSave(ConfirmPending(Load)) /\ UNCHANGED confirmed
     ELSE confirmed' = TRUE /\ UNCHANGED stored
  /\ UNCHANGED <<pc, slots, bootvars, update_request, session, history>>

\* A save that failed is tried again at the next poll.
ConfirmReturns ==
  /\ pc = "app" /\ Returned
  /\ TakeResult
  /\ confirmed' = (job.step = "ok")
  /\ UNCHANGED <<pc, slots, bootvars, update_request, session, history>>

\* update_agent_poll: ENTER_UPDATE is acknowledged, then the device resets.
RequestUpdate ==
  /\ pc = "app" /\ job = IdleJob
  /\ update_request' = TRUE
  /\ Restart
  /\ UNCHANGED <<stored, slots, starts>>

\* An application that never becomes healthy is not fed.
WatchdogReset ==
  /\ pc = "app" /\ job = IdleJob /\ ~Healthy
  /\ Restart
  /\ UNCHANGED <<stored, slots, update_request, starts>>

-----------------------------------------------------------------------------
(* Update mode. *)

InUpdateMode == pc = "update" /\ job = IdleJob

BeginTarget == InactiveSlot(Load)
MayBegin == InUpdateMode /\ (BeginWhilePending \/ ~HasPending(Load))

\* handle_begin, the erase completed.
Begin ==
  /\ MayBegin
  /\ slots' = [slots EXCEPT ![BeginTarget] = NoImage]
  /\ \E i \in Images :
       session' = [session EXCEPT !.active = TRUE, !.target = BeginTarget,
                                  !.expected = i, !.complete = FALSE,
                                  !.valid = FALSE]
  /\ attended' = TRUE
  /\ UNCHANGED <<stored, pc, bootvars, update_request, confirmed, starts>>

\* handle_begin, the erase failed on some page: the old session lives on.
BeginFails ==
  /\ SlotErrors /\ MayBegin
  /\ \E left \in {NoImage, slots[BeginTarget]} :
       slots' = [slots EXCEPT ![BeginTarget] = left]
  /\ attended' = TRUE
  /\ UNCHANGED <<stored, pc, bootvars, update_request, session, confirmed, starts>>

\* BLOCK ... BLOCK, END: what was sent need not be what BEGIN announced.
Transfer ==
  /\ InUpdateMode /\ session.active /\ ~session.complete
  /\ \E i \in Images \cup {NoImage} :
       slots' = [slots EXCEPT ![session.target] = i]
  /\ session' = [session EXCEPT !.complete = TRUE]
  /\ UNCHANGED <<stored, pc, bootvars, update_request, confirmed, history>>

\* Any valid image passes for the one that was announced.
FaultyTargetIsAcceptable == SlotIsValid(session.target)

\* app_image_validate, the announced size and CRC, and the vectors.
TargetIsAcceptable ==
  /\ slots[session.target] = session.expected
  /\ session.expected \notin BadVectors

Validate ==
  /\ InUpdateMode /\ session.active /\ session.complete
  /\ TargetIsAcceptable
  /\ session' = [session EXCEPT !.valid = TRUE]
  /\ UNCHANGED <<stored, pc, slots, bootvars, update_request, confirmed, history>>

\* handle_activate: whatever became of the slot since VALIDATE.
Activate ==
  /\ InUpdateMode /\ session.active /\ session.valid
  /\ Load.generation <= LastActivation
  /\ ThenSave(MarkSlotPending(Load, session.target, session.expected))
  /\ starts' = 0
  /\ UNCHANGED <<pc, slots, bootvars, update_request, session, confirmed, attended>>

ActivateReturns ==
  /\ pc = "update" /\ Returned
  /\ TakeResult
  /\ session' = [session EXCEPT !.reset_requested = @ \/ job.step = "ok"]
  /\ UNCHANGED <<pc, slots, bootvars, update_request, confirmed, history>>

\* ABORT clears the request to reset too, when it is read in the same poll.
Abort ==
  /\ InUpdateMode /\ session.active
  /\ session' = NoSession
  /\ UNCHANGED <<stored, pc, slots, bootvars, update_request, confirmed, history>>

UpdateReset ==
  /\ InUpdateMode /\ session.reset_requested
  /\ Restart
  /\ UNCHANGED <<stored, slots, update_request, starts>>

-----------------------------------------------------------------------------
\* Power fails, or the reset line is pulled, at any point: flash stays as it
\* is, and the handoff word survives when the RAM keeps its content.
PowerLoss ==
  /\ pc # "off" /\ pc' = "off"
  /\ StoreReset
  /\ LoseMemory
  /\ update_request' \in {FALSE, update_request}
  /\ UNCHANGED <<slots, starts>>

PowerOn ==
  /\ pc = "off" /\ pc' = "reset"
  /\ UNCHANGED <<stored, slots, bootvars, update_request, session, confirmed, history>>

StoreStep ==
  /\ WriteRecord
  /\ UNCHANGED <<pc, slots, bootvars, update_request, session, confirmed, history>>

\* The application runs as it should in either slot.
Sound(image) == image \in Images \ (BadVectors \cup BadRelocation \cup Unhealthy)

\* The application the board was provisioned with, or the last one confirmed.
Provisioned == Load.slot_status[Load.active_slot] = "CONFIRMED"

\* A blank board, one with an application flashed beside an empty record, or
\* one provisioned with a confirmed slot.
Init ==
  /\ StoreInit
  /\ slots \in [Slots -> Images \cup {NoImage}]
  /\ Provisioned => Sound(slots[Load.active_slot])
  /\ pc = "reset"
  /\ boot_state = NoRecord
  /\ candidate = NoCandidate
  /\ update_request = FALSE
  /\ session = NoSession
  /\ confirmed = FALSE
  /\ starts = 0
  /\ attended = FALSE

BootStep ==
  \/ TakeHandoff \/ SelectBootSlot \/ ValidateCandidate \/ FallBack
  \/ RejectVectors \/ GiveUp \/ RejectRelocation \/ JumpToApp

AppStep == Confirm \/ ConfirmReturns \/ WatchdogReset

UpdateStep == ActivateReturns \/ UpdateReset

Host ==
  \/ ProbeHit \/ RequestUpdate \/ Begin \/ BeginFails \/ Transfer \/ Validate
  \/ Activate \/ Abort

Power == PowerLoss \/ PowerOn

Next == BootStep \/ AppStep \/ UpdateStep \/ StoreStep \/ Host \/ Power

Spec == Init /\ [][Next]_vars

\* The processor never stops of itself; the host and the power supply owe nothing.
FairSpec ==
  /\ Spec
  /\ WF_vars(BootStep) /\ WF_vars(AppStep) /\ WF_vars(UpdateStep)
  /\ WF_vars(StoreStep)

-----------------------------------------------------------------------------
(* Properties. *)

TypeOK ==
  /\ StoreTypeOK
  /\ pc \in {"off", "reset", "validate", "fallback", "vectors", "giveup", "app", "update"}
  /\ slots \in [Slots -> Images \cup {NoImage}]
  /\ boot_state \in BootRecord \cup {NoRecord}
  /\ candidate \in [slot : Slots \cup {NoSlot}, boot_pending : BOOLEAN]
  /\ session \in [active : BOOLEAN, target : Slots, expected : Images \cup {NoImage},
                  complete : BOOLEAN, valid : BOOLEAN, reset_requested : BOOLEAN]
  /\ update_request \in BOOLEAN /\ confirmed \in BOOLEAN /\ attended \in BOOLEAN
  /\ starts \in 0 .. MaxPendingAttempts + 1

\* The slot the record calls active and confirmed holds the very image that
\* was confirmed, and that image runs: no update, however it is interrupted,
\* touches what the device falls back to.
ConfirmedImageIntact ==
  Provisioned =>
    LET image == slots[Load.active_slot] IN
    /\ Sound(image)
    /\ Load.confirmed_image \in {NoImage, image}

\* Every start of an unconfirmed image is on record in flash before it
\* happens, so no sequence of resets gives it more than its three attempts,
\* which is also the most a record ever counts.
StartsAreOnRecord ==
  starts <= IF HasPending(Load) THEN Load.pending_attempts ELSE MaxPendingAttempts

\* While an image awaits confirmation its slot holds what was validated, or
\* nothing valid when a BEGIN that failed has erased it: never another image.
PendingIsValidated ==
  HasPending(Load) => slots[Load.pending_slot] \in {Load.pending_image, NoImage}

\* The slot main boots, given the record it selected from.
Selected(rec) == IF HasPending(rec) THEN rec.pending_slot ELSE rec.active_slot

\* The record load returns is the last one written, one save moves it by one
\* generation, and an update ends, one way or the other, after five saves.
StoreIsSound ==
  /\ \A c \in {0, 1} : copies[c] # NoRecord => CopyFor(copies[c]) = c
  /\ job.step # "failed"
  /\ job.step = "program" => copies[CopyFor(job.rec)] = NoRecord
  /\ job.step = "ok" => Load = job.rec
  /\ Busy => job.rec.generation = Load.generation + 1
  /\ HasPending(Load) => Load.slot_status[Load.pending_slot] = "PENDING"
  /\ Load.generation <= LastActivation + 1 + (IF HasPending(Load) THEN Load.pending_attempts ELSE 4)

\* What each part of the program saves: a change of the record that is loaded.
SavesItsChange ==
  /\ job.step # "idle" => pc \in {"validate", "fallback", "giveup", "app", "update"}
  /\ Busy =>
       \/ pc = "validate" /\ job.rec = SelectCandidate(Load).state
       \/ pc \in {"fallback", "giveup"} /\ HasPending(Load) /\ job.rec = MarkPendingBad(Load)
       \/ pc = "app" /\ Healthy /\ HasPending(Load) /\ job.rec = ConfirmPending(Load)
       \/ /\ pc = "update" /\ session.active /\ session.valid /\ starts = 0
          /\ Load.generation <= LastActivation
          /\ job.rec = MarkSlotPending(Load, session.target, session.expected)

\* main's record is the one in flash, or the one on its way there, and the slot
\* it has in hand is the one that record selects.
BootIsOnRecord ==
  /\ pc \in {"validate", "fallback", "vectors"} =>
       boot_state = IF Busy THEN job.rec ELSE Load
  /\ pc = "fallback" => ~HasPending(boot_state)
  /\ pc \in {"validate", "vectors"} =>
       /\ candidate.slot = Selected(boot_state)
       /\ candidate.boot_pending <=> HasPending(boot_state)
       /\ candidate.boot_pending => starts < boot_state.pending_attempts
  /\ pc = "app" => candidate.slot = Selected(Load)
  /\ pc \in {"vectors", "app"} => CandidateImage \in Images
  /\ pc = "app" => CandidateImage \notin BadVectors \cup BadRelocation

\* A session writes neither the confirmed slot nor, once the record calls it
\* pending, the slot it activated.
SessionIsAside ==
  /\ session.active => pc = "update" /\ session.expected \in Images
  /\ session.active /\ Provisioned => session.target # Load.active_slot
  /\ session.active /\ ~session.complete => ~HasPending(Load)
  /\ session.valid =>
       /\ session.complete
       /\ session.expected \in Images \ BadVectors
       /\ slots[session.target] \in {session.expected, NoImage}

\* What the device relies on between any two steps, and the strengthening the
\* proofs need: the record, the save in progress, main's copy of the record, the
\* session and the content of the slots agree through every reset
\* (main.c:196-317, update_session.c:70-160).
DeviceInv ==
  /\ TypeOK
  /\ StoreIsSound /\ SavesItsChange /\ BootIsOnRecord /\ SessionIsAside
  /\ ConfirmedImageIntact /\ StartsAreOnRecord /\ PendingIsValidated

\* A slot becomes confirmed only while the image in it is the one running, and
\* healthy: no application vouches for the other slot.
ConfirmsOnlyItself ==
  [][\A s \in Slots :
       Load.slot_status[s] # "CONFIRMED" /\ Load'.slot_status[s] = "CONFIRMED"
         => pc = "app" /\ candidate.slot = s /\ Healthy]_vars

\* A device with a confirmed application always has one: no update, rollback,
\* reset or activation leaves it without.
StaysProvisioned == [][Provisioned => Provisioned']_vars

\* A pending image whose relocation fails keeps the bootloader in update mode.
Stranded ==
  pc = "update" /\ HasPending(Load) /\ slots[Load.pending_slot] \in BadRelocation

Settled ==
  \/ pc = "update" /\ (attended \/ ~HasPending(Load))
  \/ pc = "app" /\ Healthy /\ confirmed /\ ~HasPending(Load)

LeftAlone == <>[](pc # "off") /\ <>[][~(Host \/ PowerLoss)]_vars

\* Once the host and the power supply leave a provisioned device alone, it
\* ends up running a confirmed, healthy application, the new one or the old
\* one, or in the update mode the host asked for, or there with nothing left
\* pending: an image that does not confirm itself is rolled back, unless its
\* relocation failed.
Settles == Provisioned /\ LeftAlone => <>[](Settled \/ Stranded)

\* fw-update-can-plan.md: a pending application that does not confirm within
\* the attempt limit is rolled back to the last confirmed image.
RollsBack == Provisioned /\ LeftAlone => <>[]Settled

=============================================================================
