-------------------------- MODULE HostUpdater_proofs --------------------------
(***************************************************************************)
(* What the answers tell the host tool, for all images, numbers of attempts, *)
(* runs and faults: a run that begins with nothing on its way takes no       *)
(* answer for that of another command, and a success it reports is one.      *)
(***************************************************************************)
EXTENDS HostUpdater, SequenceTheorems, TLAPS

Requests == [command : Commands, sequence : Nat, data : Seq(Nat)]
Acks == [command : Commands \cup {"none"}, sequence : Nat, status : {"ok", "refused"}]

-----------------------------------------------------------------------------
(* The script and the request that is next. *)

\* An image is a sequence of at least one block.
LEMMA ImageType ==
  ASSUME NEW i \in Images
  PROVE  i \in Seq(Nat) /\ Len(i) \in Nat \ {0}
  <1>1. i \in Seq(Nat) /\ i # <<>>
    BY UpdaterAssumption
  <1> QED BY <1>1, EmptySeq

\* The script begins with BEGIN of the image, ends with ACTIVATE, and has no
\* other command of these, nor one that looks for the bootloader.
LEMMA ScriptFacts ==
  ASSUME NEW i \in Images
  PROVE  /\ Len(Script(i)) = Len(i) + 4
         /\ \A n \in 1 .. Len(i) + 4 :
              /\ Script(i)[n] \in Requests
              /\ Script(i)[n].command \notin {"ENTER_UPDATE", "DISCOVER"}
              /\ Script(i)[n].command = "BEGIN" <=> n = 1
              /\ Script(i)[n].command = "ACTIVATE" <=> n = Len(i) + 4
         /\ Script(i)[1].data = i
  <1> DEFINE blocks == [b \in 1 .. Len(i) |-> Packet("BLOCK", b - 1, <<i[b]>>)]
             first == <<Packet("BEGIN", 0, i)>>
             last == <<Packet("END", 0, <<>>), Packet("VALIDATE", 0, <<>>),
                       Packet("ACTIVATE", 0, <<>>)>>
  <1>1. i \in Seq(Nat) /\ Len(i) \in Nat \ {0}
    BY ImageType
  <1>2. \A b \in 1 .. Len(i) : Packet("BLOCK", b - 1, <<i[b]>>) \in Requests
    BY <1>1 DEF Packet, Requests, Commands
  <1>3. blocks \in Seq(Requests) /\ Len(blocks) = Len(i)
    BY <1>1, <1>2
  <1>4. first \in Seq(Requests) /\ Len(first) = 1
    BY <1>1 DEF Packet, Requests, Commands
  <1>5. last \in Seq(Requests) /\ Len(last) = 3
    <2>1. <<>> \in Seq(Nat)
      OBVIOUS
    <2> QED BY <2>1 DEF Packet, Requests, Commands
  <1>6. /\ first[1] = Packet("BEGIN", 0, i)
        /\ \A b \in 1 .. Len(i) : blocks[b] = Packet("BLOCK", b - 1, <<i[b]>>)
        /\ last[1] = Packet("END", 0, <<>>) /\ last[2] = Packet("VALIDATE", 0, <<>>)
        /\ last[3] = Packet("ACTIVATE", 0, <<>>)
    OBVIOUS
  <1> DEFINE opening == first \o blocks
  <1>7. Script(i) = opening \o last
    BY DEF Script
  <1> HIDE DEF first, blocks, last
  <1>8. /\ opening \in Seq(Requests) /\ Len(opening) = Len(first) + Len(blocks)
        /\ \A n \in 1 .. Len(first) + Len(blocks) :
             opening[n] = IF n <= Len(first) THEN first[n] ELSE blocks[n - Len(first)]
    BY <1>3, <1>4, ConcatProperties
  <1> HIDE DEF opening
  <1>9. /\ Script(i) \in Seq(Requests) /\ Len(Script(i)) = Len(opening) + Len(last)
        /\ \A n \in 1 .. Len(opening) + Len(last) :
             Script(i)[n] = IF n <= Len(opening) THEN opening[n] ELSE last[n - Len(opening)]
    <2>1. /\ opening \o last \in Seq(Requests)
          /\ Len(opening \o last) = Len(opening) + Len(last)
          /\ \A n \in 1 .. Len(opening) + Len(last) :
               (opening \o last)[n] = IF n <= Len(opening) THEN opening[n]
                                      ELSE last[n - Len(opening)]
      <3>1. last \in Seq(Requests) /\ opening \in Seq(Requests)
        BY <1>5, <1>8
      <3> QED BY <3>1, ConcatProperties
    <2> QED BY <1>7, <2>1
  <1>10. /\ Script(i)[1] = Packet("BEGIN", 0, i)
         /\ \A n \in 2 .. 1 + Len(i) : Script(i)[n] = Packet("BLOCK", n - 2, <<i[n - 1]>>)
    <2>1. Script(i)[1] = opening[1] /\ opening[1] = first[1]
      BY <1>1, <1>3, <1>4, <1>5, <1>8, <1>9
    <2>2. ASSUME NEW n \in 2 .. 1 + Len(i)
          PROVE  Script(i)[n] = Packet("BLOCK", n - 2, <<i[n - 1]>>)
      <3>1. n - 1 \in 1 .. Len(i) /\ (n - 1) - 1 = n - 2
        BY <1>1
      <3>2. Script(i)[n] = opening[n] /\ opening[n] = blocks[n - 1]
        BY <1>1, <1>3, <1>4, <1>5, <1>8, <1>9
      <3>3. blocks[n - 1] = Packet("BLOCK", (n - 1) - 1, <<i[n - 1]>>)
        BY <1>6, <3>1
      <3> QED BY <3>1, <3>2, <3>3
    <2> QED BY <1>6, <2>1, <2>2
  <1>11. /\ Script(i)[Len(i) + 2] = last[1] /\ Script(i)[Len(i) + 3] = last[2]
         /\ Script(i)[Len(i) + 4] = last[3]
    <2>1. Len(opening) = 1 + Len(i) /\ Len(last) = 3
      BY <1>3, <1>4, <1>5, <1>8
    <2>2. ASSUME NEW n \in 1 .. 3
          PROVE  Script(i)[Len(i) + 1 + n] = last[n]
      <3>1. /\ Len(i) + 1 + n \in 1 .. Len(opening) + Len(last)
            /\ ~(Len(i) + 1 + n <= Len(opening))
            /\ (Len(i) + 1 + n) - Len(opening) = n
        BY <1>1, <2>1
      <3> QED BY <1>9, <3>1
    <2> QED BY <1>1, <2>2
  <1>12. ASSUME NEW n \in 1 .. Len(i) + 4
         PROVE  /\ Script(i)[n].command \notin {"ENTER_UPDATE", "DISCOVER"}
                /\ Script(i)[n].command = "BEGIN" <=> n = 1
                /\ Script(i)[n].command = "ACTIVATE" <=> n = Len(i) + 4
    <2>1. CASE n = 1
      BY <1>1, <1>10, <2>1 DEF Packet
    <2>2. CASE n \in 2 .. 1 + Len(i)
      <3>1. n # 1 /\ n # Len(i) + 4
        BY <1>1, <2>2
      <3>2. Script(i)[n] = Packet("BLOCK", n - 2, <<i[n - 1]>>)
        BY <1>10, <2>2
      <3>3. Script(i)[n].command = "BLOCK"
        BY <3>2 DEF Packet
      <3> QED BY <3>1, <3>3
    <2>3. CASE n = Len(i) + 2 \/ n = Len(i) + 3 \/ n = Len(i) + 4
      BY <1>1, <1>6, <1>11, <2>3 DEF Packet
    <2> QED BY <1>1, <2>1, <2>2, <2>3
  <1>13. \A n \in 1 .. Len(i) + 4 : Script(i)[n] \in Requests
    BY <1>9, <1>3, <1>4, <1>5, <1>8
  <1> QED BY <1>3, <1>4, <1>5, <1>8, <1>9, <1>10, <1>12, <1>13, <1>1 DEF Packet

\* What the tool sends in each of its phases.
LEMMA RequestFacts ==
  ASSUME TypeOK, Running
  PROVE  /\ Request \in Requests
         /\ phase = "request" => Request = Packet("ENTER_UPDATE", next, <<>>)
         /\ phase = "discover" => Request = Packet("DISCOVER", next, <<>>)
         /\ phase = "update" => /\ Request = Script(image)[next]
                                /\ next \in 1 .. Len(image) + 4
  <1>0. image \in Images /\ Len(image) \in Nat
    BY ImageType DEF TypeOK
  <1>1. CASE phase = "request"
    BY <1>1, UpdaterAssumption DEF TypeOK, Request, Packet, Requests, Commands
  <1>2. CASE phase = "discover"
    BY <1>2, UpdaterAssumption DEF TypeOK, Request, Packet, Requests, Commands
  <1>3. CASE phase = "update"
    <2>1. next \in 1 .. Len(image) + 4
      BY <1>0, <1>3, ScriptFacts DEF TypeOK
    <2>2. Request = Script(image)[next]
      BY <1>3 DEF Request
    <2> QED BY <1>0, <1>3, <2>1, <2>2, ScriptFacts
  <1> QED BY <1>1, <1>2, <1>3 DEF Running

-----------------------------------------------------------------------------
(* The two queues. *)

\* What is left of the packets when the first is taken.
LEMMA LineFacts ==
  ASSUME TypeOK
  PROVE  /\ Len(line) \in Nat /\ DOMAIN line = 1 .. Len(line)
         /\ \A k \in 1 .. Len(line) : line[k] \in Requests
         /\ line = <<>> <=> Len(line) = 0
         /\ line # <<>> =>
              /\ Head(line) = line[1] /\ line[1] \in Requests
              /\ Tail(line) \in Seq(Requests) /\ Len(Tail(line)) = Len(line) - 1
              /\ \A k \in 1 .. Len(line) - 1 : Tail(line)[k] = line[k + 1]
  <1>1. line \in Seq(Requests)
    BY DEF TypeOK, Requests
  <1> QED BY <1>1, EmptySeq, HeadTailProperties

\* What is left of the answers when the first is taken.
LEMMA AnswersFacts ==
  ASSUME TypeOK
  PROVE  /\ Len(answers) \in Nat /\ DOMAIN answers = 1 .. Len(answers)
         /\ \A k \in 1 .. Len(answers) : answers[k] \in Acks
         /\ answers = <<>> <=> Len(answers) = 0
         /\ answers # <<>> =>
              /\ Head(answers) = answers[1] /\ answers[1] \in Acks
              /\ Tail(answers) \in Seq(Acks) /\ Len(Tail(answers)) = Len(answers) - 1
              /\ \A k \in 1 .. Len(answers) - 1 : Tail(answers)[k] = answers[k + 1]
  <1>1. answers \in Seq(Acks)
    BY DEF TypeOK, Acks
  <1> QED BY <1>1, EmptySeq, HeadTailProperties

\* What the answers are when one is added.
LEMMA AddedAnswer ==
  ASSUME TypeOK, NEW a \in Acks
  PROVE  /\ Append(answers, a) \in Seq(Acks)
         /\ Len(Append(answers, a)) = Len(answers) + 1
         /\ \A k \in 1 .. Len(answers) : Append(answers, a)[k] = answers[k]
         /\ Append(answers, a)[Len(answers) + 1] = a
  <1>1. answers \in Seq(Acks)
    BY DEF TypeOK, Acks
  <1> QED BY <1>1, AppendProperties

\* The answers a device may give to the packet it takes from the line.
AnswersTo(p) ==
  {a \in Acks : a = Refusal \/ (a.command = p.command /\ a.sequence = p.sequence)}

Order == InStep /\ MatchComesLast /\ OneAtATime

\* Taking a packet from the line, with at most one answer to it, keeps the order.
LEMMA TakingKeepsOrder ==
  ASSUME TypeOK, Order, line # <<>>, line' = Tail(line),
         UNCHANGED <<tool, fresh>>,
         \/ answers' = answers
         \/ \E a \in AnswersTo(line[1]) : answers' = Append(answers, a)
  PROVE  Order'
  <1>1. /\ Len(line) \in Nat \ {0} /\ DOMAIN line = 1 .. Len(line)
        /\ line' \in Seq(Requests) /\ Len(line') = Len(line) - 1 /\ Len(line') \in Nat
        /\ DOMAIN line' = 1 .. Len(line')
        /\ \A k \in 1 .. Len(line') : line'[k] = line[k + 1]
    BY LineFacts
  <1>2. /\ Len(answers) \in Nat /\ DOMAIN answers = 1 .. Len(answers)
        /\ answers = <<>> <=> Len(answers) = 0
    BY AnswersFacts
  <1>3. /\ phase' = phase /\ next' = next /\ waiting' = waiting /\ image' = image
        /\ fresh' = fresh /\ Request' = Request
    BY DEF tool, Request
  <1>4. CASE answers' = answers
    <2>1. InStep'
      BY <1>3, <1>4 DEF Order, InStep
    <2>2. MatchComesLast'
      BY <1>1, <1>2, <1>3, <1>4 DEF Order, MatchComesLast, Earlier, Current
    <2>3. OneAtATime'
      BY <1>1, <1>2, <1>3, <1>4 DEF Order, OneAtATime
    <2> QED BY <2>1, <2>2, <2>3 DEF Order
  <1>5. CASE \E a \in AnswersTo(line[1]) : answers' = Append(answers, a)
    <2>1. PICK a \in AnswersTo(line[1]) : answers' = Append(answers, a)
      BY <1>5
    <2>2. /\ a \in Acks
          /\ a = Refusal \/ (a.command = line[1].command /\ a.sequence = line[1].sequence)
      BY DEF AnswersTo
    <2>3. /\ Len(answers') = Len(answers) + 1 /\ DOMAIN answers' = 1 .. Len(answers')
          /\ \A k \in 1 .. Len(answers) : answers'[k] = answers[k]
          /\ answers'[Len(answers) + 1] = a
      BY <2>1, <2>2, AddedAnswer
    <2>4. InStep' /\ OneAtATime'
      <3>1. SUFFICES ASSUME fresh, phase = "update"
                     PROVE  InStep' /\ OneAtATime'
        BY <1>3 DEF InStep, OneAtATime
      <3>2. Len(line) = 1 /\ Len(answers) = 0 /\ waiting /\ line[1] = Request
        BY <1>1, <1>2, <3>1 DEF Order, OneAtATime
      <3> QED BY <1>1, <1>3, <2>2, <2>3, <3>2 DEF InStep, OneAtATime
    <2>5. MatchComesLast'
      <3>1. SUFFICES ASSUME fresh, phase \in {"request", "discover"}
                     PROVE  MatchComesLast'
        BY <1>3 DEF MatchComesLast
      <3>2. /\ \A k \in 1 .. Len(line) :
                 Earlier(line[k]) \/ (Current(line[k]) /\ k = Len(line))
            /\ \A k \in 1 .. Len(answers) : answers[k] = Refusal \/ Earlier(answers[k])
        BY <1>1, <1>2, <3>1 DEF Order, MatchComesLast
      <3>3. \/ a = Refusal \/ Earlier(a)
            \/ Current(a) /\ Len(line) = 1
        <4>1. 1 \in 1 .. Len(line)
          BY <1>1
        <4>2. Earlier(line[1]) \/ (Current(line[1]) /\ 1 = Len(line))
          BY <3>2, <4>1
        <4>3. a = Refusal \/ ((Earlier(line[1]) => Earlier(a)) /\ (Current(line[1]) => Current(a)))
          BY <2>2 DEF Earlier, Current
        <4> QED BY <4>2, <4>3
      <3>4. \A k \in 1 .. Len(line') :
              Earlier(line'[k]) \/ (Current(line'[k]) /\ k = Len(line'))
        <4> TAKE k \in 1 .. Len(line')
        <4>1. line'[k] = line[k + 1]
          BY <1>1
        <4>2. k + 1 \in 1 .. Len(line)
          BY <1>1
        <4>3. k + 1 = Len(line) => k = Len(line')
          <5>1. k \in Nat /\ Len(line) \in Nat /\ Len(line') = Len(line) - 1
            BY <1>1
          <5> QED BY ONLY <5>1
        <4>4. Earlier(line[k + 1]) \/ (Current(line[k + 1]) /\ k + 1 = Len(line))
          BY <3>2, <4>2
        <4> QED BY <4>1, <4>3, <4>4
      <3>5. \A k \in 1 .. Len(answers') :
              \/ answers'[k] = Refusal \/ Earlier(answers'[k])
              \/ Current(answers'[k]) /\ k = Len(answers') /\ line' = <<>>
        <4>1. Len(line) = 1 => line' = <<>>
          BY <1>1, EmptySeq
        <4> QED BY <1>2, <2>3, <3>2, <3>3, <4>1
      <3> QED BY <1>1, <1>3, <2>3, <3>4, <3>5 DEF MatchComesLast, Earlier, Current, Refusal, Answer
    <2> QED BY <2>4, <2>5 DEF Order
  <1> QED BY <1>4, <1>5

\* Taking a packet without accepting anything of an update leaves what is known
\* of the session, also when a reset ends it.
LEMMA TakingKeepsSession ==
  ASSUME TypeOK, Order, SessionIsOfThisRun, line # <<>>, line' = Tail(line),
         UNCHANGED <<tool, fresh, activated>>,
         session'.active => session' = session /\ slot' = slot,
         \/ answers' = answers
         \/ \E a \in Acks : /\ a.status = "ok" => phase # "update"
                           /\ answers' = Append(answers, a)
  PROVE  SessionIsOfThisRun'
  <1>1. /\ phase' = phase /\ next' = next /\ image' = image /\ fresh' = fresh
        /\ activated' = activated
    BY DEF tool
  <1>2. phase = "update" /\ Accepted' => Accepted
    <2>1. CASE answers' = answers
      BY <2>1 DEF Accepted
    <2>2. CASE \E a \in Acks : /\ a.status = "ok" => phase # "update"
                              /\ answers' = Append(answers, a)
      <3>1. PICK a \in Acks : /\ a.status = "ok" => phase # "update"
                             /\ answers' = Append(answers, a)
        BY <2>2
      <3>2. CASE answers = <<>>
        <4>1. answers'[1] = a
          BY <3>1, <3>2, AddedAnswer, AnswersFacts
        <4> QED BY <3>1, <4>1 DEF Accepted
      <3>3. CASE answers # <<>>
        <4>1. 1 \in 1 .. Len(answers)
          BY <3>3, AnswersFacts
        <4>2. answers'[1] = answers[1]
          BY <3>1, <4>1, AddedAnswer
        <4> QED BY <3>3, <4>2 DEF Accepted
      <3> QED BY <3>2, <3>3
    <2> QED BY <2>1, <2>2
  <1>3. ~(fresh /\ phase = "done")
    BY DEF SessionIsOfThisRun
  <1>4. Len(Script(image))' = Len(Script(image))
    BY <1>1 DEF Script, Packet
  <1> QED BY <1>1, <1>2, <1>3, <1>4 DEF SessionIsOfThisRun

-----------------------------------------------------------------------------
(* The device. *)

\* The types of a reset device.
LEMMA NoSessionType ==
  /\ NoSession \in [active : BOOLEAN, expected : Seq(Nat), received : Nat,
                    complete : BOOLEAN, valid : BOOLEAN]
  /\ NoSession.received <= Len(NoSession.expected)
  /\ ~NoSession.active /\ ~NoSession.valid
  <1>1. <<>> \in Seq(Nat) /\ Len(<<>>) = 0
    OBVIOUS
  <1> QED BY <1>1 DEF NoSession

\* What is on its way is in order as long as neither it nor the tool changes.
LEMMA OrderStays ==
  ASSUME Order, UNCHANGED <<phase, image, next, waiting, line, answers, fresh>>
  PROVE  InStep' /\ MatchComesLast' /\ OneAtATime'
  <1>1. Request' = Request
    BY DEF Request, Script, Packet
  <1>2. Refusal' = Refusal
    BY DEF Refusal, Answer
  <1>3. InStep'
    BY <1>1, <1>2 DEF Order, InStep
  <1>4. MatchComesLast'
    BY <1>1, <1>2 DEF Order, MatchComesLast, Earlier, Current
  <1>5. OneAtATime'
    BY <1>1 DEF Order, OneAtATime
  <1> QED BY <1>3, <1>4, <1>5

\* A boot changes neither the session nor what is on its way.
LEMMA BootKeepsInv ==
  ASSUME HostInv, Boot \/ Proceed
  PROVE  HostInv'
  <1>1. /\ UNCHANGED <<phase, image, next, waiting, line, answers, session, slot, activated,
                      runs, faults, fresh, undisturbed>>
        /\ mode' \in {"boot", "probe", "start", "app", "update"}
        /\ update_request' \in BOOLEAN
    BY DEF HostInv, TypeOK, Boot, Proceed, tool, channel, history
  <1>2. TypeOK'
    BY <1>1 DEF HostInv, TypeOK, Script, Packet
  <1>3. InStep' /\ MatchComesLast' /\ OneAtATime'
    BY <1>1, OrderStays DEF HostInv, Order
  <1>4. SessionIsOfThisRun'
    BY <1>1 DEF HostInv, SessionIsOfThisRun, Accepted, Script, Packet
  <1> QED BY <1>2, <1>3, <1>4 DEF HostInv

\* A packet that nobody hears, or that is only noise to the probe.
LEMMA DeafKeepsInv ==
  ASSUME HostInv, Deaf \/ HearTheRest
  PROVE  HostInv'
  <1>1. /\ UNCHANGED <<phase, image, next, waiting, answers, session, slot, activated,
                      update_request, runs, faults, fresh, undisturbed>>
        /\ line # <<>> /\ line' = Tail(line)
        /\ mode' \in {"boot", "probe", "start", "app", "update"}
    BY DEF HostInv, TypeOK, Deaf, HearTheRest, tool, channel, device, history
  <1>2. TypeOK /\ Order /\ SessionIsOfThisRun
    BY DEF HostInv, Order
  <1>3. line' \in Seq(Requests)
    BY <1>1, <1>2, LineFacts
  <1>4. TypeOK'
    BY <1>1, <1>2, <1>3 DEF TypeOK, Script, Packet, Requests
  <1>5. Order'
    BY <1>1, <1>2, TakingKeepsOrder DEF tool
  <1>6. SessionIsOfThisRun'
    BY <1>1, <1>2, TakingKeepsSession DEF tool
  <1> QED BY <1>4, <1>5, <1>6 DEF HostInv, Order

\* The answer to a packet, which is one of those allowed.
LEMMA AnswerType ==
  ASSUME NEW p \in Requests, NEW accepted \in BOOLEAN
  PROVE  LET a == Answer(p.command, p.sequence, IF accepted THEN "ok" ELSE "refused") IN
         a \in AnswersTo(p) /\ a \in Acks /\ (a.status = "ok" <=> accepted)
  BY DEF Answer, AnswersTo, Acks, Requests

\* Neither does an answer of the application, whose only success ends it.
LEMMA AppKeepsInv ==
  ASSUME HostInv, AppAnswers
  PROVE  HostInv'
  <1> DEFINE p == line[1]
             accepted == p.command \in {"DISCOVER", "ENTER_UPDATE"}
             a == Answer(p.command, p.sequence, IF accepted THEN "ok" ELSE "refused")
  <1>1. TypeOK /\ Order /\ SessionIsOfThisRun
    BY DEF HostInv, Order
  <1>2. line # <<>> /\ Head(line) = p /\ p \in Requests /\ Tail(line) \in Seq(Requests)
    BY <1>1, LineFacts DEF AppAnswers
  <1>3. a \in AnswersTo(p) /\ a \in Acks /\ (a.status = "ok" <=> accepted)
    BY <1>2, AnswerType
  <1>4. /\ line' = Tail(line) /\ answers' = Append(answers, a)
        /\ UNCHANGED <<phase, image, next, waiting, slot, activated, runs, faults, fresh,
                      undisturbed>>
        /\ \/ mode' = "boot" /\ update_request' = TRUE /\ session' = NoSession
           \/ UNCHANGED <<mode, update_request, session>>
    BY <1>2 DEF AppAnswers, Respond, Reset, tool, history
  <1>5. answers' \in Seq(Acks)
    BY <1>1, <1>3, <1>4, AddedAnswer
  <1>6. TypeOK'
    BY <1>1, <1>2, <1>4, <1>5, NoSessionType DEF TypeOK, Script, Packet, Requests, Acks
  <1>7. Order'
    BY <1>1, <1>2, <1>3, <1>4, TakingKeepsOrder DEF tool
  <1>8. accepted /\ fresh => phase # "update"
    <2>1. SUFFICES ASSUME accepted, fresh, phase = "update" PROVE FALSE
      OBVIOUS
    <2>2. p = Request
      BY <1>1, <1>2, <2>1 DEF Order, OneAtATime
    <2>3. image \in Images /\ Len(image) \in Nat /\ p = Script(image)[next]
          /\ next \in 1 .. Len(image) + 4
      BY <1>1, <2>1, <2>2, RequestFacts, ImageType DEF Running, TypeOK
    <2> QED BY <2>1, <2>3, ScriptFacts
  <1>9. SessionIsOfThisRun'
    <2>1. session'.active => session' = session
      BY <1>4, NoSessionType
    <2>2. CASE fresh
      BY <1>1, <1>2, <1>3, <1>4, <1>8, <2>1, <2>2, TakingKeepsSession DEF tool
    <2>3. CASE ~fresh
      BY <1>4, <2>3 DEF SessionIsOfThisRun
    <2> QED BY <2>2, <2>3, <1>1 DEF TypeOK
  <1> QED BY <1>6, <1>7, <1>9 DEF HostInv, Order

-----------------------------------------------------------------------------
(* What goes wrong. *)

\* Whatever goes wrong is counted, and the run is disturbed.
LEMMA DisturbFacts ==
  ASSUME TypeOK, Disturb
  PROVE  faults' \in 0 .. MaxFaults /\ undisturbed' = FALSE /\ runs' = runs /\ fresh' = fresh
  <1>1. MaxFaults \in Nat /\ faults \in 0 .. MaxFaults
    BY UpdaterAssumption DEF TypeOK
  <1>2. /\ faults < MaxFaults /\ faults' = faults + 1 /\ undisturbed' = FALSE
        /\ runs' = runs /\ fresh' = fresh
    BY DEF Disturb
  <1> QED BY ONLY <1>1, <1>2

\* A request or an answer is lost.
LEMMA LossKeepsInv ==
  ASSUME HostInv, LoseRequest \/ LoseAnswer
  PROVE  HostInv'
  <1>1. TypeOK /\ Order /\ SessionIsOfThisRun
    BY DEF HostInv, Order
  <1>2. /\ UNCHANGED <<phase, image, next, waiting, session, slot, activated,
                      update_request, runs, fresh>>
        /\ faults' \in 0 .. MaxFaults /\ undisturbed' \in BOOLEAN
        /\ mode' \in {"boot", "probe", "start", "app", "update"}
    <2>1. faults' \in 0 .. MaxFaults /\ undisturbed' = FALSE /\ runs' = runs /\ fresh' = fresh
      <3>1. Disturb
        BY DEF LoseRequest, LoseAnswer
      <3> QED BY <1>1, <3>1, DisturbFacts
    <2>2. CASE LoseRequest
      <3>1. /\ UNCHANGED <<tool, update_request, session, slot, activated>>
            /\ mode' = IF mode = "probe" THEN "update" ELSE mode
        BY <2>2 DEF LoseRequest
      <3> QED BY <1>1, <2>1, <3>1 DEF TypeOK, tool
    <2>3. CASE LoseAnswer
      BY <1>1, <2>1, <2>3 DEF TypeOK, LoseAnswer, tool, device
    <2> QED BY <2>2, <2>3
  <1>3. CASE LoseRequest
    <2>1. Refusal \in AnswersTo(line[1]) /\ Refusal \in Acks /\ Refusal.status # "ok"
      BY DEF Refusal, Answer, AnswersTo, Acks
    <2>2. /\ line # <<>> /\ line' = Tail(line)
          /\ answers' = answers \/ answers' = Append(answers, Refusal)
      BY <1>3 DEF LoseRequest
    <2>3. line' \in Seq(Requests) /\ answers' \in Seq(Acks)
      <3>1. answers \in Seq(Acks)
        BY <1>1 DEF TypeOK, Acks
      <3>2. Append(answers, Refusal) \in Seq(Acks)
        BY <1>1, <2>1, AddedAnswer
      <3>3. Tail(line) \in Seq(Requests)
        BY <1>1, <2>2, LineFacts
      <3> QED BY <2>2, <3>1, <3>2, <3>3
    <2>4. TypeOK'
      BY <1>1, <1>2, <2>3 DEF TypeOK, Script, Packet, Requests, Acks
    <2>5. Order'
      BY <1>1, <1>2, <2>1, <2>2, TakingKeepsOrder DEF tool
    <2>6. SessionIsOfThisRun'
      BY <1>1, <1>2, <2>1, <2>2, TakingKeepsSession DEF tool
    <2> QED BY <2>4, <2>5, <2>6 DEF HostInv, Order
  <1>4. CASE LoseAnswer
    <2>1. answers # <<>> /\ answers' = Tail(answers) /\ line' = line
      BY <1>4 DEF LoseAnswer
    <2>2. /\ Len(answers) \in Nat /\ DOMAIN answers = 1 .. Len(answers)
          /\ answers' \in Seq(Acks) /\ Len(answers') = Len(answers) - 1
          /\ DOMAIN answers' = 1 .. Len(answers') /\ Len(answers') \in Nat
          /\ \A k \in 1 .. Len(answers') : answers'[k] = answers[k + 1]
      BY <1>1, <2>1, AnswersFacts
    <2>3. TypeOK'
      BY <1>1, <1>2, <2>1, <2>2 DEF TypeOK, Script, Packet, Requests, Acks
    <2>4. Request' = Request
      BY <1>2 DEF Request, Script, Packet
    <2>5. ASSUME fresh, phase = "update"
          PROVE  /\ InStep' /\ OneAtATime' /\ answers' = <<>>
      <3>1. Len(answers') = 0
        BY <1>1, <2>1, <2>2, <2>5, LineFacts, AnswersFacts DEF Order, OneAtATime
      <3>2. answers' = <<>>
        BY <2>2, <3>1, EmptySeq
      <3> QED BY <1>1, <1>2, <2>1, <2>2, <2>4, <3>1, <3>2, LineFacts
              DEF Order, InStep, OneAtATime
    <2>6. ASSUME fresh, phase \in {"request", "discover"}
          PROVE  MatchComesLast'
      <3>1. ASSUME NEW k \in 1 .. Len(answers')
            PROVE  \/ answers'[k] = Refusal \/ Earlier(answers'[k])
                   \/ Current(answers'[k]) /\ k = Len(answers') /\ line' = <<>>
        <4>1. k + 1 \in 1 .. Len(answers) /\ (k + 1 = Len(answers) => k = Len(answers'))
          <5>1. k \in 1 .. Len(answers') /\ Len(answers) \in Nat
                /\ Len(answers') = Len(answers) - 1
            BY <2>2
          <5> QED BY ONLY <5>1
        <4>2. \/ answers[k + 1] = Refusal \/ Earlier(answers[k + 1])
              \/ Current(answers[k + 1]) /\ k + 1 = Len(answers) /\ line = <<>>
          BY <1>1, <2>2, <2>6, <4>1 DEF Order, MatchComesLast
        <4>3. answers'[k] = answers[k + 1]
          BY <2>2
        <4> QED BY <2>1, <4>1, <4>2, <4>3
      <3> QED BY <1>1, <1>2, <2>1, <2>2, <2>4, <2>6, <3>1
              DEF Order, MatchComesLast, Earlier, Current, Refusal, Answer
    <2>7. InStep' /\ OneAtATime' /\ MatchComesLast'
      BY <1>2, <2>5, <2>6 DEF InStep, OneAtATime, MatchComesLast
    <2>8. SessionIsOfThisRun'
      BY <1>1, <1>2, <2>1, <2>5 DEF SessionIsOfThisRun, Accepted, Script, Packet
    <2> QED BY <2>3, <2>7, <2>8 DEF HostInv
  <1> QED BY <1>3, <1>4

\* Somebody stops the tool, or the power fails.
LEMMA StopAndPowerLossKeepInv ==
  ASSUME HostInv, Stop \/ PowerLoss
  PROVE  HostInv'
  <1>1. TypeOK /\ Order /\ SessionIsOfThisRun
    BY DEF HostInv, Order
  <1>2. faults' \in 0 .. MaxFaults /\ undisturbed' = FALSE /\ runs' = runs /\ fresh' = fresh
    <2>1. Disturb
      BY DEF Stop, PowerLoss
    <2> QED BY <1>1, <2>1, DisturbFacts
  <1>3. CASE Stop
    <2>1. /\ phase' = "failed" /\ next' = 0 /\ waiting' = FALSE
          /\ UNCHANGED <<image, line, answers, mode, update_request, session, slot, activated>>
      BY <1>3 DEF Stop, Enter, channel, device
    <2>2. TypeOK'
      BY <1>1, <1>2, <2>1 DEF TypeOK
    <2> QED BY <1>2, <2>1, <2>2
            DEF HostInv, InStep, MatchComesLast, OneAtATime, SessionIsOfThisRun
  <1>4. CASE PowerLoss
    <2>1. /\ mode' = "boot" /\ update_request' \in BOOLEAN /\ session' = NoSession
          /\ UNCHANGED <<phase, image, next, waiting, line, answers, slot, activated>>
      BY <1>1, <1>4 DEF TypeOK, PowerLoss, Reset, tool, channel
    <2>2. TypeOK'
      BY <1>1, <1>2, <2>1, NoSessionType DEF TypeOK, Script, Packet
    <2>3. InStep' /\ MatchComesLast' /\ OneAtATime'
      BY <1>1, <1>2, <2>1, OrderStays
    <2>4. SessionIsOfThisRun'
      BY <1>1, <1>2, <2>1, NoSessionType DEF SessionIsOfThisRun, Accepted, Script, Packet
    <2> QED BY <2>2, <2>3, <2>4 DEF HostInv
  <1> QED BY <1>3, <1>4

\* The packet a run in its update waits for an answer to is its request.
LEMMA PacketIsRequest ==
  ASSUME TypeOK, Order, fresh, phase = "update", line # <<>>
  PROVE  /\ line[1] = Script(image)[next] /\ next \in 1 .. Len(image) + 4
         /\ image \in Images /\ Len(image) \in Nat /\ Len(Script(image)) = Len(image) + 4
         /\ line[1].command \notin {"ENTER_UPDATE", "DISCOVER"}
         /\ line[1].command = "BEGIN" <=> next = 1
         /\ line[1].command = "BEGIN" => line[1].data = image
         /\ line[1].command = "ACTIVATE" <=> next = Len(image) + 4
         /\ answers = <<>>
  <1>1. image \in Images /\ Len(image) \in Nat
    BY ImageType DEF TypeOK
  <1>2. line[1] = Script(image)[next] /\ next \in 1 .. Len(image) + 4
    BY RequestFacts DEF Order, OneAtATime, Running
  <1>3. answers = <<>>
    BY LineFacts, AnswersFacts DEF Order, OneAtATime
  <1> QED BY <1>1, <1>2, <1>3, ScriptFacts

\* A flash operation is not carried out: the answer says so.
LEMMA FlashFailsKeepsInv ==
  ASSUME HostInv, FlashFails
  PROVE  HostInv'
  <1> DEFINE p == line[1]
             a == Answer(p.command, p.sequence, "refused")
  <1>1. TypeOK /\ Order /\ SessionIsOfThisRun
    BY DEF HostInv, Order
  <1>2. faults' \in 0 .. MaxFaults /\ undisturbed' = FALSE /\ runs' = runs /\ fresh' = fresh
    <2>1. Disturb
      BY DEF FlashFails
    <2> QED BY <1>1, <2>1, DisturbFacts
  <1>3. line # <<>> /\ Head(line) = p /\ p \in Requests /\ Tail(line) \in Seq(Requests)
    BY <1>1, LineFacts DEF FlashFails
  <1>4. a \in AnswersTo(p) /\ a \in Acks /\ a.status # "ok"
    BY <1>3 DEF Answer, AnswersTo, Acks, Requests
  <1>5. /\ line' = Tail(line) /\ answers' = Append(answers, a) /\ mode' = "update"
        /\ UNCHANGED <<phase, image, next, waiting, update_request, session, activated>>
        /\ slot' = slot \/ (p.command = "BEGIN" /\ slot' = <<>>)
    BY <1>3 DEF FlashFails, Respond, tool
  <1>6. answers' \in Seq(Acks)
    BY <1>1, <1>4, <1>5, AddedAnswer
  <1>7. slot' \in Seq(Nat)
    <2>1. <<>> \in Seq(Nat)
      OBVIOUS
    <2>2. slot \in Seq(Nat)
      BY <1>1 DEF TypeOK
    <2> QED BY <1>5, <2>1, <2>2
  <1>8. TypeOK'
    BY <1>1, <1>2, <1>3, <1>5, <1>6, <1>7 DEF TypeOK, Script, Packet, Requests, Acks
  <1>9. Order'
    BY <1>1, <1>2, <1>3, <1>4, <1>5, TakingKeepsOrder DEF tool
  <1>10. SessionIsOfThisRun'
    <2>1. CASE slot' = slot
      BY <1>1, <1>2, <1>3, <1>4, <1>5, <2>1, TakingKeepsSession DEF tool
    <2>2. CASE p.command = "BEGIN"
      <3>1. SUFFICES ASSUME fresh, phase \in {"update", "done"}
                     PROVE  SessionIsOfThisRun'
        BY <1>2, <1>5 DEF SessionIsOfThisRun
      <3>2. phase = "update"
        BY <1>1, <1>3, <3>1 DEF SessionIsOfThisRun
      <3>3. /\ next = 1 /\ Len(Script(image)) = Len(image) + 4 /\ Len(image) \in Nat
            /\ answers = <<>>
        BY <1>1, <1>3, <2>2, <3>1, <3>2, PacketIsRequest
      <3>4. answers'[1] = a
        BY <1>1, <1>4, <1>5, <3>3, AddedAnswer, AnswersFacts
      <3>5. ~Accepted'
        BY <1>4, <3>4 DEF Accepted
      <3>6. Len(Script(image))' = Len(Script(image))
        BY <1>5 DEF Script, Packet
      <3>7. next' # Len(Script(image))'
        BY <1>5, <3>3, <3>6
      <3> QED BY <1>5, <3>2, <3>3, <3>5, <3>7 DEF SessionIsOfThisRun
    <2> QED BY <1>5, <2>1, <2>2
  <1> QED BY <1>8, <1>9, <1>10 DEF HostInv, Order

\* The bootloader takes what is next of the transfer, or refuses it; what it
\* accepts of an update of this run it accepts for the image of this run.
LEMMA BootloaderKeepsInv ==
  ASSUME HostInv, BootloaderAnswers
  PROVE  HostInv'
  <1> DEFINE p == line[1]
             a == Answer(p.command, p.sequence, IF Accepts(p) THEN "ok" ELSE "refused")
             activates == Accepts(p) /\ p.command = "ACTIVATE"
             processes == Accepts(p) /\ p.command # "ACTIVATE"
  <1>1. TypeOK /\ Order /\ SessionIsOfThisRun
    BY DEF HostInv, Order
  <1>2. line # <<>> /\ Head(line) = p /\ p \in Requests /\ Tail(line) \in Seq(Requests)
    BY <1>1, LineFacts DEF BootloaderAnswers
  <1>3. a \in AnswersTo(p) /\ a \in Acks /\ (a.status = "ok" <=> Accepts(p))
    BY <1>2 DEF Answer, AnswersTo, Acks, Requests
  <1>4. /\ line' = Tail(line) /\ answers' = Append(answers, a)
        /\ UNCHANGED <<phase, image, next, waiting, runs, faults, fresh, undisturbed>>
        /\ \/ /\ activates /\ activated' = slot /\ slot' = slot
              /\ mode' = "boot" /\ update_request' = FALSE /\ session' = NoSession
           \/ /\ processes /\ Process(p) /\ mode' = "update"
              /\ UNCHANGED <<update_request, activated>>
           \/ /\ ~Accepts(p) /\ mode' = "update"
              /\ UNCHANGED <<update_request, session, slot, activated>>
    BY <1>2 DEF BootloaderAnswers, Respond, Reset, tool, history
  <1>5. answers' \in Seq(Acks)
    BY <1>1, <1>3, <1>4, AddedAnswer
  <1> HIDE DEF a
  <1>6. /\ session' \in [active : BOOLEAN, expected : Seq(Nat), received : Nat,
                         complete : BOOLEAN, valid : BOOLEAN]
        /\ session'.received <= Len(session'.expected)
        /\ session'.valid => session'.complete
        /\ slot' \in Seq(Nat) /\ activated' \in Seq(Nat)
    <2>1. /\ session \in [active : BOOLEAN, expected : Seq(Nat), received : Nat,
                          complete : BOOLEAN, valid : BOOLEAN]
          /\ session.received <= Len(session.expected) /\ Len(session.expected) \in Nat
          /\ session.valid => session.complete
          /\ slot \in Seq(Nat) /\ activated \in Seq(Nat) /\ p.data \in Seq(Nat)
      BY <1>1, <1>2 DEF TypeOK, Requests
    <2>2. CASE ~processes
      BY <1>4, <2>1, <2>2, NoSessionType
    <2>3. CASE processes
      <3>0. Process(p) /\ activated' = activated
        BY <1>4, <2>3
      <3>1. CASE p.command = "BEGIN"
        <4>1. session' = Begun(p.data) /\ slot' = <<>>
          BY <3>0, <3>1 DEF Process
        <4>2. <<>> \in Seq(Nat) /\ Len(p.data) \in Nat
          BY <2>1
        <4> QED BY <2>1, <3>0, <4>1, <4>2 DEF Begun
      <3>2. CASE p.command = "BLOCK" /\ IsNext(p)
        <4>1. /\ session' = [session EXCEPT !.received = session.received + 1]
              /\ slot' = slot \o p.data
          BY <3>0, <3>2 DEF Process
        <4>2. session.received < Len(session.expected)
          BY <3>2 DEF IsNext
        <4>3. slot \o p.data \in Seq(Nat)
          BY <2>1, ConcatProperties
        <4>4. session.received + 1 \in Nat /\ session.received + 1 <= Len(session.expected)
          BY <2>1, <4>2
        <4>5. /\ session'.received = session.received + 1
              /\ session'.expected = session.expected
              /\ session'.complete = session.complete /\ session'.valid = session.valid
              /\ session' \in [active : BOOLEAN, expected : Seq(Nat), received : Nat,
                               complete : BOOLEAN, valid : BOOLEAN]
          BY <2>1, <4>1, <4>4
        <4>6. slot' \in Seq(Nat) /\ activated' \in Seq(Nat)
          BY <2>1, <3>0, <4>1, <4>3
        <4> QED BY <2>1, <4>4, <4>5, <4>6
      <3>3. CASE p.command \in {"END", "VALIDATE"}
        <4>1. /\ \/ session' = [session EXCEPT !.complete = TRUE]
                 \/ session' = [session EXCEPT !.valid = TRUE] /\ session.complete
              /\ slot' = slot
          BY <2>3, <3>0, <3>3 DEF Process, Accepts
        <4> QED BY <2>1, <3>0, <4>1
      <3>4. CASE /\ p.command \notin {"BEGIN", "END", "VALIDATE"}
                 /\ ~(p.command = "BLOCK" /\ IsNext(p))
        BY <2>1, <3>0, <3>4 DEF Process
      <3> QED BY <3>1, <3>2, <3>3, <3>4
    <2> QED BY <2>2, <2>3
  <1>7. TypeOK'
    <2>1. mode' \in {"boot", "probe", "start", "app", "update"} /\ update_request' \in BOOLEAN
      BY <1>1, <1>4 DEF TypeOK
    <2> QED BY <1>1, <1>2, <1>4, <1>5, <1>6, <2>1 DEF TypeOK, Script, Packet, Requests, Acks
  <1>8. Order'
    BY <1>1, <1>2, <1>3, <1>4, TakingKeepsOrder DEF tool
  <1>9. CASE ~Accepts(p)
    <2>1. SessionIsOfThisRun'
      BY <1>1, <1>2, <1>3, <1>4, <1>9, TakingKeepsSession DEF tool
    <2> QED BY <1>7, <1>8, <2>1 DEF HostInv, Order
  <1>10. ASSUME Accepts(p), fresh, phase = "update"
         PROVE  SessionIsOfThisRun'
    <2>1. /\ next \in 1 .. Len(image) + 4 /\ Len(image) \in Nat
          /\ Len(Script(image)) = Len(image) + 4
          /\ p.command \notin {"ENTER_UPDATE", "DISCOVER"}
          /\ p.command = "BEGIN" <=> next = 1
          /\ p.command = "BEGIN" => p.data = image
          /\ p.command = "ACTIVATE" <=> next = Len(image) + 4
      BY <1>1, <1>2, <1>10, PacketIsRequest
    <2>2. Len(Script(image))' = Len(image) + 4
      BY <1>4, <2>1 DEF Script, Packet
    <2>3. ASSUME next > 1, session.active
          PROVE  /\ session.expected = image
                 /\ session.complete => session.received = Len(image)
                 /\ session.valid => slot = image
      BY <1>1, <1>10, <2>3 DEF SessionIsOfThisRun
    <2>4. /\ session \in [active : BOOLEAN, expected : Seq(Nat), received : Nat,
                          complete : BOOLEAN, valid : BOOLEAN]
          /\ session.valid => session.complete
      BY <1>1 DEF TypeOK
    <2>5. CASE p.command = "ACTIVATE"
      <3>1. activated' = slot /\ ~session'.active
        BY <1>4, <1>10, <2>5, NoSessionType
      <3>2. slot = image
        BY <1>10, <2>1, <2>3, <2>5 DEF Accepts
      <3> QED BY <1>4, <1>10, <3>1, <3>2 DEF SessionIsOfThisRun
    <2>6. CASE p.command # "ACTIVATE"
      <3>0. Process(p) /\ next' = next /\ next # Len(image) + 4 /\ phase' = "update"
            /\ image' = image
        BY <1>4, <1>10, <2>1, <2>6
      <3>1. SUFFICES ASSUME session'.active
                     PROVE  /\ session'.expected = image
                            /\ session'.complete => session'.received = Len(image)
                            /\ session'.valid => slot' = image
        BY <2>2, <3>0 DEF SessionIsOfThisRun
      <3>2. CASE p.command = "BEGIN"
        <4>1. session' = Begun(image)
          BY <2>1, <3>0, <3>2 DEF Process
        <4> QED BY <4>1 DEF Begun
      <3>3. CASE p.command # "BEGIN"
        <4>0. session.active /\ next > 1
          <5>1. session.active
            BY <1>10, <2>1, <3>3 DEF Accepts
          <5>2. next > 1
            BY <2>1, <3>3
          <5> QED BY <5>1, <5>2
        <4>1. CASE p.command = "BLOCK" /\ IsNext(p)
          <5>1. /\ session' = [session EXCEPT !.received = session.received + 1]
                /\ session.received < Len(session.expected)
            BY <3>0, <4>1 DEF Process, IsNext
          <5>2. ~session.complete
            BY <2>1, <2>3, <2>4, <4>0, <5>1
          <5> QED BY <2>3, <2>4, <4>0, <5>1, <5>2
        <4>2. CASE p.command = "END"
          <5>1. /\ session' = [session EXCEPT !.complete = TRUE] /\ slot' = slot
                /\ session.received = Len(session.expected)
            BY <1>10, <3>0, <4>2 DEF Process, Accepts
          <5> QED BY <2>3, <2>4, <4>0, <5>1
        <4>3. CASE p.command = "VALIDATE"
          <5>1. /\ session' = [session EXCEPT !.valid = TRUE] /\ slot' = slot
                /\ slot = session.expected
            BY <1>10, <3>0, <4>3 DEF Process, Accepts
          <5> QED BY <2>3, <2>4, <4>0, <5>1
        <4>4. CASE /\ p.command \notin {"END", "VALIDATE"}
                   /\ ~(p.command = "BLOCK" /\ IsNext(p))
          BY <2>3, <3>0, <3>3, <4>0, <4>4 DEF Process
        <4> QED BY <4>1, <4>2, <4>3, <4>4
      <3> QED BY <3>2, <3>3
    <2> QED BY <2>5, <2>6
  <1>11. ASSUME ~(fresh /\ phase = "update")
         PROVE  SessionIsOfThisRun'
    <2>1. ~(fresh /\ phase = "done")
      BY <1>1, <1>2 DEF SessionIsOfThisRun
    <2> QED BY <1>4, <1>11, <2>1 DEF SessionIsOfThisRun
  <1> QED BY <1>7, <1>8, <1>9, <1>10, <1>11 DEF HostInv, Order

-----------------------------------------------------------------------------
(* The tool. *)

\* A run that begins waits for nothing yet.
LEMMA StartKeepsInv ==
  ASSUME HostInv, Start
  PROVE  HostInv'
  <1>1. TypeOK
    BY DEF HostInv
  <1>2. /\ phase' = "request" /\ next' = 0 /\ waiting' = FALSE /\ image' \in Images
        /\ fresh' = (line = <<>> /\ answers' = <<>>) /\ undisturbed' = fresh'
        /\ runs < MaxRuns /\ runs' = runs + 1
        /\ UNCHANGED <<line, mode, update_request, session, slot, activated, faults>>
    BY DEF Start, Enter, device
  <1>3. answers' \in Seq(Acks)
    <2>1. PICK arrived \in 0 .. Len(answers) :
            answers' = SubSeq(answers, arrived + 1, Len(answers))
      BY DEF Start
    <2>2. answers \in Seq(Acks) /\ Len(answers) \in Nat
      BY <1>1 DEF TypeOK, Acks
    <2>3. \A k \in arrived + 1 .. Len(answers) : answers[k] \in Acks
      BY <2>2
    <2> QED BY <2>1, <2>2, <2>3, SubSeqProperties
  <1>4. TypeOK'
    <2>1. next' \in 0 .. EnterTries - 1 /\ runs' \in 0 .. MaxRuns
      <3>1. EnterTries \in Nat \ {0} /\ MaxRuns \in Nat
        BY UpdaterAssumption
      <3>2. runs \in 0 .. MaxRuns
        BY <1>1 DEF TypeOK
      <3> QED BY <1>2, <3>1, <3>2
    <2>2. undisturbed' \in BOOLEAN /\ fresh' \in BOOLEAN
      BY <1>2
    <2>3. /\ line' \in Seq(Requests) /\ mode' \in {"boot", "probe", "start", "app", "update"}
          /\ update_request' \in BOOLEAN
          /\ session' \in [active : BOOLEAN, expected : Seq(Nat), received : Nat,
                           complete : BOOLEAN, valid : BOOLEAN]
          /\ session'.received <= Len(session'.expected)
          /\ session'.valid => session'.complete
          /\ slot' \in Seq(Nat) /\ activated' \in Seq(Nat) /\ faults' \in 0 .. MaxFaults
      BY <1>1, <1>2 DEF TypeOK, Requests
    <2> QED BY <1>2, <1>3, <2>1, <2>2, <2>3 DEF TypeOK, Requests, Acks
  <1>5. MatchComesLast'
    <2>1. fresh' => line' = <<>> /\ answers' = <<>>
      BY <1>2
    <2>2. DOMAIN <<>> = {}
      OBVIOUS
    <2> QED BY <2>1, <2>2 DEF MatchComesLast
  <1> QED BY <1>2, <1>4, <1>5 DEF HostInv, InStep, OneAtATime, SessionIsOfThisRun

\* What is sent is what is waited for, and the last on its way.
LEMMA SendKeepsInv ==
  ASSUME HostInv, Send
  PROVE  HostInv'
  <1>1. TypeOK /\ Order /\ SessionIsOfThisRun
    BY DEF HostInv, Order
  <1>2. /\ Running /\ ~waiting /\ waiting' = TRUE /\ line' = Append(line, Request)
        /\ UNCHANGED <<phase, image, next, answers, mode, update_request, session, slot,
                      activated, runs, faults, fresh, undisturbed>>
    BY DEF Send, device, history
  <1>3. Request \in Requests /\ Request' = Request
    BY <1>1, <1>2, RequestFacts DEF Request, Script, Packet
  <1>4. /\ line' \in Seq(Requests) /\ Len(line') = Len(line) + 1
        /\ DOMAIN line' = 1 .. Len(line') /\ Len(line) \in Nat
        /\ \A k \in 1 .. Len(line) : line'[k] = line[k]
        /\ line'[Len(line')] = Request
    <2>1. line \in Seq(Requests)
      BY <1>1 DEF TypeOK, Requests
    <2> QED BY <1>2, <1>3, <2>1, AppendProperties
  <1>5. TypeOK'
    BY <1>1, <1>2, <1>4 DEF TypeOK, Script, Packet, Requests
  <1>6. MatchComesLast'
    <2>1. SUFFICES ASSUME fresh, phase \in {"request", "discover"}
                   PROVE  MatchComesLast'
      BY <1>2 DEF MatchComesLast
    <2>2. /\ \A k \in 1 .. Len(line) : Earlier(line[k])
          /\ \A k \in DOMAIN answers : answers[k] = Refusal \/ Earlier(answers[k])
      BY <1>1, <1>2, <2>1, LineFacts DEF Order, MatchComesLast, Current
    <2>3. \A k \in 1 .. Len(line') : k \in 1 .. Len(line) \/ k = Len(line')
      BY <1>4
    <2> QED BY <1>2, <1>3, <1>4, <2>2, <2>3
            DEF MatchComesLast, Earlier, Current, Refusal, Answer
  <1>7. InStep' /\ OneAtATime'
    <2>1. SUFFICES ASSUME fresh, phase = "update"
                   PROVE  InStep' /\ OneAtATime'
      BY <1>2 DEF InStep, OneAtATime
    <2>2. Len(line) = 0 /\ Len(answers) = 0 /\ answers = <<>>
      BY <1>1, <1>2, <2>1, LineFacts, AnswersFacts DEF Order, OneAtATime
    <2> QED BY <1>2, <1>3, <1>4, <2>2 DEF InStep, OneAtATime
  <1>8. SessionIsOfThisRun'
    BY <1>1, <1>2 DEF SessionIsOfThisRun, Accepted, Script, Packet, Running
  <1> QED BY <1>5, <1>6, <1>7, <1>8 DEF HostInv, Order

\* After the step, what this run has sent before what it waits for then.
GivenUp(x) ==
  \/ phase' = "request" /\ x.command = "ENTER_UPDATE" /\ x.sequence < next'
  \/ phase' = "discover" /\ x.command = "ENTER_UPDATE"
  \/ phase' = "discover" /\ x.command = "DISCOVER" /\ x.sequence < next'

\* What the tool goes on with, and that it gives up what it waited for.
LEMMA FailFacts ==
  ASSUME TypeOK, Running, Fail
  PROVE  /\ \/ phase' = "request" /\ next' \in 0 .. EnterTries - 1
            \/ phase' = "discover" /\ next' \in 0 .. DiscoverTries - 1
            \/ phase' = "failed" /\ next' = 0
         /\ phase = "update" => phase' = "failed"
         /\ phase' \in {"request", "discover"} =>
              \A x \in Requests \cup Acks : Earlier(x) \/ Current(x) => GivenUp(x)
  <1>0. EnterTries \in Nat \ {0} /\ DiscoverTries \in Nat \ {0}
    BY UpdaterAssumption
  <1>1. CASE phase = "request"
    <2>1. next \in 0 .. EnterTries - 1 /\ Request = Packet("ENTER_UPDATE", next, <<>>)
      BY <1>1, RequestFacts DEF TypeOK
    <2>2. \/ next + 1 = EnterTries /\ phase' = "discover" /\ next' = 0
          \/ next + 1 # EnterTries /\ phase' = "request" /\ next' = next + 1
      BY <1>1 DEF Fail, LastTry, Enter
    <2>3. ASSUME NEW x \in Requests \cup Acks, Earlier(x) \/ Current(x)
          PROVE  x.command = "ENTER_UPDATE" /\ x.sequence < next + 1
      <3>1. x.sequence \in Nat /\ next \in Nat
        BY <2>1 DEF Requests, Acks
      <3>2. x.command = "ENTER_UPDATE" /\ (x.sequence < next \/ x.sequence = next)
        BY <1>1, <2>1, <2>3 DEF Earlier, Current, Packet
      <3> QED BY <3>1, <3>2
    <2>4. /\ phase' = "discover" => next' \in 0 .. DiscoverTries - 1
          /\ phase' = "request" => next' \in 0 .. EnterTries - 1
      BY <1>0, <2>1, <2>2
    <2>5. \A x \in Requests \cup Acks : Earlier(x) \/ Current(x) => GivenUp(x)
      BY <2>2, <2>3 DEF GivenUp
    <2> QED BY <1>1, <2>2, <2>4, <2>5
  <1>2. CASE phase = "discover"
    <2>1. next \in 0 .. DiscoverTries - 1 /\ Request = Packet("DISCOVER", next, <<>>)
      BY <1>2, RequestFacts DEF TypeOK
    <2>2. \/ phase' = "failed" /\ next' = 0
          \/ next + 1 # DiscoverTries /\ phase' = "discover" /\ next' = next + 1
      BY <1>2 DEF Fail, LastTry, Enter
    <2>3. ASSUME NEW x \in Requests \cup Acks, Earlier(x) \/ Current(x)
          PROVE  \/ x.command = "ENTER_UPDATE"
                 \/ x.command = "DISCOVER" /\ x.sequence < next + 1
      <3>1. x.sequence \in Nat /\ next \in Nat
        BY <2>1 DEF Requests, Acks
      <3>2. \/ x.command = "ENTER_UPDATE"
            \/ x.command = "DISCOVER" /\ (x.sequence < next \/ x.sequence = next)
        BY <1>2, <2>1, <2>3 DEF Earlier, Current, Packet
      <3> QED BY <3>1, <3>2
    <2>4. phase' = "discover" => next' \in 0 .. DiscoverTries - 1
      BY <1>0, <2>1, <2>2
    <2>5. phase' = "discover" =>
            \A x \in Requests \cup Acks : Earlier(x) \/ Current(x) => GivenUp(x)
      BY <2>2, <2>3 DEF GivenUp
    <2> QED BY <1>2, <2>2, <2>4, <2>5
  <1>3. CASE phase = "update"
    BY <1>3 DEF Fail, Enter
  <1> QED BY <1>1, <1>2, <1>3 DEF Running

\* A timeout or a wrong answer: what is still on its way will never match again.
LEMMA FailKeepsInv ==
  ASSUME HostInv, Running, waiting, Fail, waiting' = FALSE,
         UNCHANGED <<image, line, device, runs, fresh>>,
         answers' = answers \/ (answers # <<>> /\ answers' = Tail(answers)),
         faults' \in 0 .. MaxFaults, undisturbed' \in BOOLEAN
  PROVE  HostInv'
  <1>1. TypeOK /\ Order /\ SessionIsOfThisRun
    BY DEF HostInv, Order
  <1>2. UNCHANGED <<mode, update_request, session, slot, activated>>
    BY DEF device
  <1>3. /\ \/ phase' = "request" /\ next' \in 0 .. EnterTries - 1
           \/ phase' = "discover" /\ next' \in 0 .. DiscoverTries - 1
           \/ phase' = "failed" /\ next' = 0
        /\ phase = "update" => phase' = "failed"
        /\ phase' \in {"request", "discover"} =>
             \A x \in Requests \cup Acks : Earlier(x) \/ Current(x) => GivenUp(x)
    BY <1>1, FailFacts
  <1>4. /\ answers' \in Seq(Acks) /\ DOMAIN answers' = 1 .. Len(answers')
        /\ \A k \in 1 .. Len(answers') : \E j \in 1 .. Len(answers) : answers'[k] = answers[j]
    <2>1. CASE answers' = answers
      <3>1. answers \in Seq(Acks)
        BY <1>1 DEF TypeOK, Acks
      <3> QED BY <2>1, <3>1
    <2>2. CASE answers # <<>> /\ answers' = Tail(answers)
      <3>1. /\ Tail(answers) \in Seq(Acks) /\ Len(Tail(answers)) = Len(answers) - 1
            /\ \A k \in 1 .. Len(answers) - 1 : Tail(answers)[k] = answers[k + 1]
            /\ Len(answers) \in Nat
        BY <1>1, <2>2, AnswersFacts
      <3>2. ASSUME NEW k \in 1 .. Len(answers')
            PROVE  \E j \in 1 .. Len(answers) : answers'[k] = answers[j]
        <4>1. Len(answers') = Len(answers) - 1 /\ Len(answers) \in Nat
          BY <2>2, <3>1
        <4>2. k \in 1 .. Len(answers) - 1
          BY <4>1
        <4>3. k + 1 \in 1 .. Len(answers)
          BY <4>1, <4>2
        <4>4. answers'[k] = answers[k + 1]
          BY <2>2, <3>1, <4>2
        <4> QED BY <4>3, <4>4
      <3>3. answers' \in Seq(Acks)
        BY <2>2, <3>1
      <3>4. DOMAIN answers' = 1 .. Len(answers')
        BY <3>3
      <3> QED BY <3>2, <3>3, <3>4
    <2> QED BY <2>1, <2>2
  <1>5. TypeOK'
    BY <1>1, <1>2, <1>3, <1>4 DEF TypeOK, Acks
  <1>6. MatchComesLast'
    <2>1. SUFFICES ASSUME fresh, phase' \in {"request", "discover"}
                   PROVE  MatchComesLast'
      BY DEF MatchComesLast
    <2>2. phase \in {"request", "discover"}
      BY <1>3, <2>1 DEF Running
    <2>3. /\ \A k \in 1 .. Len(line) :
               line[k] \in Requests /\ (Earlier(line[k]) \/ Current(line[k]))
          /\ \A k \in 1 .. Len(answers) :
               /\ answers[k] \in Acks
               /\ answers[k] = Refusal \/ Earlier(answers[k]) \/ Current(answers[k])
      BY <1>1, <2>1, <2>2, LineFacts, AnswersFacts DEF Order, MatchComesLast
    <2>4. \A k \in DOMAIN line' : GivenUp(line'[k])
      BY <1>1, <1>3, <2>1, <2>3, LineFacts
    <2>5. \A k \in 1 .. Len(answers') : answers'[k] = Refusal \/ GivenUp(answers'[k])
      <3> TAKE k \in 1 .. Len(answers')
      <3>1. PICK j \in 1 .. Len(answers) : answers'[k] = answers[j]
        BY <1>4
      <3>2. \/ answers[j] = Refusal
            \/ answers[j] \in Requests \cup Acks /\ (Earlier(answers[j]) \/ Current(answers[j]))
        BY <2>3
      <3>3. answers[j] = Refusal \/ GivenUp(answers[j])
        BY <1>3, <2>1, <3>2
      <3> QED BY <3>1, <3>3
    <2>6. /\ \A k \in DOMAIN line' : Earlier(line[k])'
          /\ \A k \in DOMAIN answers' : answers'[k] = Refusal' \/ Earlier(answers[k])'
      BY <1>4, <2>4, <2>5 DEF GivenUp, Earlier, Refusal, Answer
    <2> QED BY <2>6 DEF MatchComesLast
  <1> QED BY <1>3, <1>5, <1>6 DEF HostInv, InStep, OneAtATime, SessionIsOfThisRun

\* The answer that matches is the only thing on its way, and it is to this run.
LEMMA SuccessKeepsInv ==
  ASSUME HostInv, Receive, Matches(Head(answers))
  PROVE  HostInv'
  <1>1. TypeOK /\ Order /\ SessionIsOfThisRun
    BY DEF HostInv, Order
  <1>2. /\ Running /\ waiting /\ answers # <<>> /\ Succeed /\ waiting' = FALSE
        /\ answers' = Tail(answers)
        /\ UNCHANGED <<image, line, mode, update_request, session, slot, activated, runs,
                      faults, fresh, undisturbed>>
    BY DEF Receive, device, history
  <1>3. /\ Len(answers) \in Nat \ {0} /\ DOMAIN answers = 1 .. Len(answers)
        /\ answers' \in Seq(Acks) /\ Len(answers') = Len(answers) - 1
        /\ answers[1] = Answer(Request.command, Request.sequence, "ok")
    BY <1>1, <1>2, AnswersFacts DEF Matches
  <1>4. image \in Images /\ Len(image) \in Nat \ {0} /\ Len(Script(image)) = Len(image) + 4
    BY <1>1, ImageType, ScriptFacts DEF TypeOK
  <1>5. /\ phase = "request" => phase' = "discover" /\ next' = 0
        /\ phase = "discover" => phase' = "update" /\ next' = 1
        /\ phase = "update" =>
             \/ next < Len(image) + 4 /\ phase' = "update" /\ next' = next + 1
             \/ next = Len(image) + 4 /\ phase' = "done" /\ next' = 0
        /\ phase = "update" => next \in 1 .. Len(image) + 4
    <2>1. phase = "update" => next \in 1 .. Len(image) + 4
      BY <1>1, <1>4 DEF TypeOK
    <2>2. CASE phase = "request"
      BY <1>2, <2>2 DEF Succeed, Enter
    <2>3. CASE phase = "discover"
      BY <1>2, <2>3 DEF Succeed, Enter
    <2>4. CASE phase = "update"
      <3>1. \/ next < Len(image) + 4 /\ Enter("update", next + 1)
            \/ ~(next < Len(image) + 4) /\ Enter("done", 0)
        BY <1>2, <1>4, <2>4 DEF Succeed
      <3> QED BY <1>4, <2>1, <2>4, <3>1 DEF Enter
    <2> QED BY <1>2, <2>2, <2>3, <2>4 DEF Running
  <1>6. Len(Script(image))' = Len(image) + 4 /\ image' = image
    BY <1>2, <1>4 DEF Script, Packet
  <1>7. TypeOK'
    <2>1. \/ phase' = "discover" /\ next' \in 0 .. DiscoverTries - 1
          \/ phase' = "update" /\ next' \in 1 .. Len(Script(image))'
          \/ phase' = "done" /\ next' = 0
      <3>1. DiscoverTries \in Nat \ {0}
        BY UpdaterAssumption
      <3> QED BY <1>2, <1>4, <1>5, <1>6, <3>1 DEF Running
    <2> QED BY <1>1, <1>2, <1>3, <2>1 DEF TypeOK, Acks
  <1>8. ASSUME fresh
        PROVE  line = <<>> /\ answers' = <<>>
    <2>1. Len(answers) = 1 /\ line = <<>>
      <3>1. CASE phase = "update"
        <4>1. Len(line) + Len(answers) <= 1
          BY <1>1, <1>2, <1>8, <3>1 DEF Order, OneAtATime
        <4>2. Len(line) \in Nat /\ (Len(line) = 0 => line = <<>>)
          BY <1>1, LineFacts
        <4>3. Len(line) = 0 /\ Len(answers) = 1
          BY ONLY <4>1, <4>2, <1>3
        <4> QED BY <4>2, <4>3
      <3>2. CASE phase \in {"request", "discover"}
        <4>1. 1 \in DOMAIN answers
          BY <1>3
        <4>2. \/ answers[1] = Refusal \/ Earlier(answers[1])
              \/ Current(answers[1]) /\ 1 = Len(answers) /\ line = <<>>
          BY <1>1, <1>8, <3>2, <4>1 DEF Order, MatchComesLast
        <4>3. answers[1].status = "ok" /\ answers[1].command = Request.command
              /\ answers[1].sequence = Request.sequence
          BY <1>3 DEF Answer
        <4>4. answers[1] # Refusal
          BY <4>3 DEF Refusal, Answer
        <4>5. ~Earlier(answers[1])
          <5>1. next \in Nat
            BY <1>1, <3>2, UpdaterAssumption DEF TypeOK
          <5> QED BY <1>1, <1>2, <3>2, <4>3, <5>1, RequestFacts DEF Earlier, Packet
        <4> QED BY <4>2, <4>4, <4>5
      <3> QED BY <1>2, <3>1, <3>2 DEF Running
    <2>2. Len(answers') = 0
      BY <1>3, <2>1
    <2> QED BY <1>3, <2>1, <2>2, EmptySeq
  <1>9. InStep' /\ MatchComesLast' /\ OneAtATime'
    <2>1. DOMAIN <<>> = {} /\ Len(<<>>) = 0
      OBVIOUS
    <2>2. fresh' => DOMAIN line' = {} /\ DOMAIN answers' = {} /\ line' = <<>> /\ answers' = <<>>
      BY <1>2, <1>8, <2>1
    <2>3. fresh' => Len(line') + Len(answers') = 0
      BY <2>1, <2>2
    <2> QED BY <2>2, <2>3 DEF InStep, MatchComesLast, OneAtATime
  <1>10. SessionIsOfThisRun'
    <2>1. SUFFICES ASSUME fresh
                   PROVE  SessionIsOfThisRun'
      BY <1>2 DEF SessionIsOfThisRun
    <2>2. ~Accepted' /\ line' = <<>>
      BY <1>2, <1>8, <2>1 DEF Accepted
    <2>3. CASE phase # "update"
      BY <1>2, <1>5, <2>2, <2>3 DEF SessionIsOfThisRun, Running
    <2>4. CASE phase = "update"
      <3>1. Accepted
        BY <1>2, <1>3 DEF Accepted, Answer
      <3>2. /\ session.active =>
                 /\ session.expected = image
                 /\ session.complete => session.received = Len(image)
                 /\ session.valid => slot = image
            /\ next = Len(image) + 4 => activated = image
        BY <1>1, <1>4, <2>1, <2>4, <3>1 DEF SessionIsOfThisRun
      <3>3. image' = image /\ session' = session /\ slot' = slot /\ activated' = activated
        BY <1>2
      <3>4. CASE phase' = "update"
        <4>1. phase' # "done"
          BY <3>4
        <4>2. session'.active =>
                /\ session'.expected = image'
                /\ session'.complete => session'.received = Len(image')
                /\ session'.valid => slot' = image'
          BY <3>2, <3>3
        <4>3. answers' = <<>>
          BY <1>8, <2>1
        <4>4. ~Accepted'
          BY <4>3 DEF Accepted
        <4> QED BY <4>1, <4>2, <4>4 DEF SessionIsOfThisRun
      <3>5. CASE phase' = "done" /\ next = Len(image) + 4
        BY <2>2, <3>2, <3>3, <3>5 DEF SessionIsOfThisRun
      <3> QED BY <1>5, <2>4, <3>4, <3>5
    <2> QED BY <2>3, <2>4
  <1> QED BY <1>7, <1>9, <1>10 DEF HostInv

-----------------------------------------------------------------------------
(* The theorems. *)

\* A tool that has not been run, and a device that has not been started.
LEMMA InitEstablishesInv == Init => HostInv
  <1> SUFFICES ASSUME Init PROVE HostInv
    OBVIOUS
  <1>1. TypeOK
    <2>1. <<>> \in Seq(Nat) /\ <<>> \in Seq(Requests) /\ <<>> \in Seq(Acks)
      OBVIOUS
    <2>2. 0 \in 0 .. MaxRuns /\ 0 \in 0 .. MaxFaults
      BY UpdaterAssumption
    <2> QED BY <2>1, <2>2, NoSessionType DEF Init, TypeOK, Requests, Acks
  <1> QED BY <1>1 DEF Init, HostInv, InStep, MatchComesLast, OneAtATime, SessionIsOfThisRun

\* Every step keeps the invariant.
LEMMA StepKeepsInv == HostInv /\ [Next]_vars => HostInv'
  <1> SUFFICES ASSUME HostInv, [Next]_vars PROVE HostInv'
    OBVIOUS
  <1>0. TypeOK
    BY DEF HostInv
  <1>1. CASE Start
    BY <1>1, StartKeepsInv
  <1>2. CASE Send
    BY <1>2, SendKeepsInv
  <1>3. CASE Receive
    <2>1. CASE Matches(Head(answers))
      BY <1>3, <2>1, SuccessKeepsInv
    <2>2. CASE ~Matches(Head(answers))
      <3>1. faults \in 0 .. MaxFaults /\ undisturbed \in BOOLEAN
        BY <1>0 DEF TypeOK
      <3>2. /\ Running /\ waiting /\ Fail /\ waiting' = FALSE
            /\ answers # <<>> /\ answers' = Tail(answers)
            /\ UNCHANGED <<image, line, device, runs, fresh, faults, undisturbed>>
        BY <1>3, <2>2 DEF Receive, history
      <3> QED BY <3>1, <3>2, FailKeepsInv
    <2> QED BY <2>1, <2>2
  <1>4. CASE TimeOut \/ LateAnswer
    <2>1. faults' \in 0 .. MaxFaults /\ undisturbed' \in BOOLEAN /\ UNCHANGED <<runs, fresh>>
      <3>1. faults \in 0 .. MaxFaults /\ undisturbed \in BOOLEAN
        BY <1>0 DEF TypeOK
      <3>2. CASE TimeOut
        BY <3>1, <3>2 DEF TimeOut, history
      <3>3. CASE LateAnswer
        <4>1. Disturb
          BY <3>3 DEF LateAnswer
        <4>2. MaxFaults \in Nat
          BY UpdaterAssumption
        <4>3. faults < MaxFaults /\ faults' = faults + 1
          BY <4>1 DEF Disturb
        <4>4. faults' \in 0 .. MaxFaults
          BY <3>1, <4>2, <4>3
        <4> QED BY <4>1, <4>4 DEF Disturb
      <3> QED BY <1>4, <3>2, <3>3
    <2>2. /\ Running /\ waiting /\ Fail /\ waiting' = FALSE
          /\ UNCHANGED <<image, line, answers, device>>
      BY <1>4 DEF TimeOut, LateAnswer, Expire, channel
    <2> QED BY <2>1, <2>2, FailKeepsInv
  <1>5. CASE Boot \/ Proceed
    BY <1>5, BootKeepsInv
  <1>6. CASE AppAnswers
    BY <1>6, AppKeepsInv
  <1>7. CASE BootloaderAnswers
    BY <1>7, BootloaderKeepsInv
  <1>8. CASE Deaf \/ HearTheRest
    BY <1>8, DeafKeepsInv
  <1>9. CASE LoseRequest \/ LoseAnswer
    BY <1>9, LossKeepsInv
  <1>10. CASE Stop \/ PowerLoss
    BY <1>10, StopAndPowerLossKeepInv
  <1>11. CASE FlashFails
    BY <1>11, FlashFailsKeepsInv
  <1>12. CASE UNCHANGED vars
    <2>1. UNCHANGED <<phase, image, next, waiting, line, answers, mode, update_request, session,
                     slot, activated, runs, faults, fresh, undisturbed>>
      BY <1>12 DEF vars, tool, channel, device, history
    <2>2. TypeOK'
      BY <1>0, <2>1 DEF TypeOK, Script, Packet
    <2>3. InStep' /\ MatchComesLast' /\ OneAtATime'
      BY <2>1, OrderStays DEF HostInv, Order
    <2>4. SessionIsOfThisRun'
      BY <2>1 DEF HostInv, SessionIsOfThisRun, Accepted, Script, Packet
    <2> QED BY <2>2, <2>3, <2>4 DEF HostInv
  <1> QED BY <1>1, <1>2, <1>3, <1>4, <1>5, <1>6, <1>7, <1>8, <1>9, <1>10, <1>11, <1>12
          DEF Next, Tool, Device, Fault

\* Whatever is lost, late or restarted, a run that begins with nothing on its way
\* is answered for what it sent last, and the session it updates is its own
\* (tools/uart_update.py expect_ack, run_update; update_session.c).
THEOREM HostInvariant == Spec => []HostInv
  <1>1. Init => HostInv
    BY InitEstablishesInv
  <1>2. HostInv /\ [Next]_vars => HostInv'
    BY StepKeepsInv
  <1> QED BY <1>1, <1>2, PTL DEF Spec

\* Such a run reports a success only for an image that the device has marked
\* pending: no stale answer, from before a reset or an earlier attempt, can stand
\* for the one it waits for.  A run that begins with answers of a former run still
\* on their way has no such protection, for every run uses the same session id.
THEOREM SuccessOfAFreshRun == Spec => [](fresh => SuccessIsReal)
  <1>1. HostInv => (fresh => SuccessIsReal)
    BY DEF HostInv, SessionIsOfThisRun, SuccessIsReal
  <1> QED BY <1>1, HostInvariant, PTL

=============================================================================
