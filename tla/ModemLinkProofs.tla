---------------------------- MODULE ModemLinkProofs ----------------------------
(***************************************************************************)
(* Proofs about the modem link, for any packets and any number of requests *)
(* to send, repeated INFO requests, lost frames, failing radio calls and   *)
(* resets of the modem.                                                    *)
(***************************************************************************)
EXTENDS ModemLink, SequenceTheorems, TLAPS

Frames(s) == {s[i] : i \in 1 .. Len(s)}

(***************************************************************************)
(* The radio: an interrupt while listening means that something was        *)
(* received, one while transmitting that the transmission ended or was     *)
(* overtaken; what is reported as sent on the line is one of these.        *)
(***************************************************************************)
RadioInv ==
  /\ TypeOK /\ {faults, retries} \subseteq Nat
  /\ \A f \in Frames(toModem) : f.info = wants
  /\ irq /\ radio = "receiving" => buffer \in Packets \cup {"unreadable"}
  /\ irq /\ radio = "transmitting" => txSequence \in aired \cup overtaken
  /\ \A f \in Frames(toHost) :
       f.type \in {"RESULT", "ERROR"} /\ f.info = "ok" => f.seq \in aired \cup overtaken
  /\ SentMeansOnAir

(***************************************************************************)
(* Opening: which request is the how manieth, and that the last one, which *)
(* reads the settings back, has nothing behind it on the line.             *)
(***************************************************************************)
Confirmation(f) == f.type = "STATUS" /\ f.seq = 4 /\ ConfirmRadioStatus(f)

Opening ==
  /\ \/ pc = "opening" /\ call = "none" /\ seq = 0
     \/ pc = "opening" /\ call = "INFO" /\ seq = 1
     \/ pc = "info" /\ call = "none" /\ seq = 1
     \/ pc = "info" /\ call = "INFO" /\ seq = 2
     \/ wants = "set" /\ pc = "config" /\ call = "none" /\ seq = 2
     \/ wants = "set" /\ pc = "config" /\ call = "CONFIG" /\ seq = 3
     \/ wants = "set" /\ pc = "readback" /\ call = "none" /\ seq = 3
     \/ wants = "set" /\ pc = "readback" /\ call = "INFO" /\ seq = 4
  /\ \A f \in Frames(toModem) : f.seq <= seq /\ (f.type = "CONFIG" => f.seq = 3)
  /\ \A i \in 1 .. Len(toModem) : toModem[i].seq = 4 => i = Len(toModem)
  /\ \A f \in Frames(toHost) : f.type = "STATUS" => f.seq <= seq

SettingsKept == answered = boot => settings = wants

ServeInv ==
  /\ settings \in {"default", wants}
  /\ boot \in Nat /\ answered \in 0 .. boot
  /\ pc = "ended" => call = "none"
  /\ pc \notin {"ready", "ended"} =>
       /\ Opening
       /\ (\E f \in Frames(toHost) : Confirmation(f)) => toModem = <<>> /\ SettingsKept
  /\ pc = "ready" =>
       /\ call \in {"none", "TX"}
       /\ wants = "set" => /\ \A f \in Frames(toModem) : f.type # "INFO"
                           /\ SettingsKept

(***************************************************************************)
(* The transmission requests on the line, and those begun: later ones have *)
(* the higher number.                                                      *)
(***************************************************************************)
OrderInv ==
  /\ \A i, j \in 1 .. Len(toModem) :
       i < j /\ toModem[i].type = "TX" /\ toModem[j].type = "TX"
         => toModem[i].seq < toModem[j].seq
  /\ \A f \in Frames(toModem) : f.type = "TX" =>
       f.seq <= seq /\ \A i \in 1 .. Len(started) : started[i] < f.seq
  /\ started \in Seq(UInt16)
  /\ \A i \in 1 .. Len(started) : started[i] <= seq
  /\ TransmittedInOrderOnce

-----------------------------------------------------------------------------
(***************************************************************************)
(* Lines: what is on them after a frame is put on, taken off or lost.      *)
(***************************************************************************)
LEMMA TakenFrame ==
  ASSUME NEW S, NEW s \in Seq(S), s # <<>>
  PROVE  /\ Head(s) \in S /\ Tail(s) \in Seq(S) /\ Len(s) \in Nat /\ Len(Tail(s)) = Len(s) - 1
         /\ \A i \in 1 .. Len(s) - 1 : Tail(s)[i] = s[i + 1]
         /\ 1 \in 1 .. Len(s) /\ Head(s) = s[1]
         /\ Head(s) \in Frames(s) /\ Frames(Tail(s)) \subseteq Frames(s)
<1>1. /\ Head(s) \in S /\ Tail(s) \in Seq(S) /\ Len(s) \in Nat /\ Len(Tail(s)) = Len(s) - 1
      /\ \A i \in 1 .. Len(s) - 1 : Tail(s)[i] = s[i + 1]
  BY HeadTailProperties, LenProperties
<1>2. 1 \in 1 .. Len(s) /\ Head(s) = s[1]
  <2>1. Len(s) \in Nat \ {0}
    BY EmptySeq, Zenon
  <2> QED
    BY <2>1, LenProperties, HeadTailProperties
<1>3. Frames(Tail(s)) \subseteq Frames(s)
  BY <1>1 DEF Frames
<1> QED
  BY <1>1, <1>2, <1>3 DEF Frames

LEMMA LostFrame ==
  ASSUME NEW S, NEW s \in Seq(S), NEW k \in 1 .. Len(s)
  PROVE  /\ Remove(s, k) \in Seq(S) /\ Len(s) \in Nat /\ Len(Remove(s, k)) = Len(s) - 1
         /\ \A i \in 1 .. Len(s) - 1 : Remove(s, k)[i] = IF i < k THEN s[i] ELSE s[i + 1]
         /\ Frames(Remove(s, k)) \subseteq Frames(s)
<1> DEFINE u == SubSeq(s, 1, k - 1)
           v == SubSeq(s, k + 1, Len(s))
<1>1. Len(s) \in Nat
  BY LenProperties
<1>2. /\ u \in Seq(S) /\ Len(u) = k - 1
      /\ \A i \in 1 .. k - 1 : u[i] = s[i]
  BY <1>1, SubSeqProperties
<1>3. /\ v \in Seq(S) /\ Len(v) = Len(s) - k
      /\ \A i \in 1 .. Len(s) - k : v[i] = s[i + k]
  BY <1>1, SubSeqProperties
<1>4. Remove(s, k) = u \o v
  BY DEF Remove
<1> HIDE DEF u, v
<1>5. /\ u \o v \in Seq(S) /\ Len(u \o v) = Len(u) + Len(v)
      /\ \A i \in 1 .. Len(u) + Len(v) :
           (u \o v)[i] = IF i <= Len(u) THEN u[i] ELSE v[i - Len(u)]
  BY <1>2, <1>3, ConcatProperties
<1>6. \A i \in 1 .. Len(s) - 1 : (u \o v)[i] = IF i < k THEN s[i] ELSE s[i + 1]
  BY <1>1, <1>2, <1>3, <1>5
<1>7. /\ Remove(s, k) \in Seq(S) /\ Len(Remove(s, k)) = Len(s) - 1
      /\ \A i \in 1 .. Len(s) - 1 : Remove(s, k)[i] = IF i < k THEN s[i] ELSE s[i + 1]
  BY <1>1, <1>2, <1>3, <1>4, <1>5, <1>6
<1>8. Frames(Remove(s, k)) \subseteq Frames(s)
  BY <1>1, <1>7 DEF Frames
<1> QED
  BY <1>1, <1>7, <1>8

LEMMA SequenceNumbers ==
  ASSUME NEW s \in UInt16
  PROVE  s \in Nat /\ (s + 1) % 65536 \in UInt16 /\ (s + 1 < 65536 => (s + 1) % 65536 = s + 1)
BY DEF UInt16

LEMMA FramesOnLines ==
  ASSUME RadioInv
  PROVE  \A f \in Frames(toModem) \cup Frames(toHost) : f \in Frame /\ f.seq \in Nat
<1>1. /\ toModem \in [1 .. Len(toModem) -> Frame]
      /\ toHost \in [1 .. Len(toHost) -> Frame]
  BY LenProperties DEF RadioInv, TypeOK
<1>2. \A f \in Frame : f.seq \in UInt16
  BY DEF Frame
<1>3. \A f \in Frame : f.seq \in Nat
  BY <1>2, SequenceNumbers
<1> QED
  BY <1>1, <1>3 DEF Frames

LEMMA NoFrames == /\ Frames(<<>>) = {} /\ Len(<<>>) = 0
                  /\ \A S : <<>> \in Seq(S)
BY DEF Frames

-----------------------------------------------------------------------------
(***************************************************************************)
(* The radio's invariant, step by step.  First the host.                   *)
(***************************************************************************)
LEMMA RequestFacts ==
  ASSUME RadioInv, NEW type \in Requests, NEW s \in UInt16,
         toModem' = Append(toModem, [type |-> type, seq |-> s, info |-> wants])
  PROVE  /\ toModem' \in Seq(Frame)
         /\ Len(toModem') = Len(toModem) + 1 /\ Len(toModem) \in Nat
         /\ toModem'[Len(toModem) + 1].type = type /\ toModem'[Len(toModem) + 1].seq = s
         /\ \A i \in 1 .. Len(toModem) : toModem'[i] = toModem[i]
         /\ \A k \in Frames(toModem') :
              \/ k \in Frames(toModem)
              \/ k.type = type /\ k.seq = s /\ k.info = wants
<1> DEFINE f == [type |-> type, seq |-> s, info |-> wants]
<1>1. f \in Frame /\ f.type = type /\ f.seq = s /\ f.info = wants
  BY DEF Frame, Requests, RadioInv, TypeOK
<1>2. toModem' = Append(toModem, f) /\ toModem \in Seq(Frame)
  BY DEF RadioInv, TypeOK
<1> HIDE DEF f
<1>3. /\ toModem' \in Seq(Frame) /\ Len(toModem') = Len(toModem) + 1 /\ Len(toModem) \in Nat
      /\ toModem'[Len(toModem) + 1] = f
      /\ \A i \in 1 .. Len(toModem) : toModem'[i] = toModem[i]
  BY <1>1, <1>2, AppendProperties, LenProperties
<1> QED
  BY <1>1, <1>3 DEF Frames

LEMMA AskRadio == ASSUME RadioInv, NEW type \in Requests, Ask(type) PROVE RadioInv'
<1>1. seq' \in UInt16
  <2>1. seq' = (seq + 1) % 65536 /\ seq \in UInt16
    BY DEF Ask, RadioInv, TypeOK
  <2>2. (seq + 1) % 65536 \in UInt16
    BY <2>1, SequenceNumbers
  <2> QED
    BY <2>1, <2>2
<1>2. /\ call' = type
      /\ toModem' = Append(toModem, [type |-> type, seq |-> seq', info |-> wants])
      /\ UNCHANGED <<wants, pc, pending, delivered, sentOK, retries,
                     modemVars, chipVars, toHost, reported, faults>>
  BY DEF Ask
<1>3. /\ toModem' \in Seq(Frame)
      /\ \A k \in Frames(toModem') : k \in Frames(toModem) \/ k.info = wants
  BY <1>1, <1>2, RequestFacts
<1> QED
  BY <1>1, <1>2, <1>3 DEF RadioInv, TypeOK, SentMeansOnAir, modemVars, chipVars

LEMMA RetryRadio == ASSUME RadioInv, Retry PROVE RadioInv'
<1>1. call \in Requests /\ seq \in UInt16
  BY DEF Retry, Requests, RadioInv, TypeOK
<1>2. /\ toModem' \in Seq(Frame)
      /\ \A k \in Frames(toModem') : k \in Frames(toModem) \/ k.info = wants
  BY <1>1, RequestFacts DEF Retry
<1> QED
  BY <1>2, LinkAssumption DEF Retry, RadioInv, TypeOK, SentMeansOnAir, modemVars, chipVars

LEMMA ReadAnswerRadio == ASSUME RadioInv, ReadAnswer PROVE RadioInv'
<1> DEFINE f == Head(toHost)
<1>1. /\ toHost # <<>> /\ toHost' = Tail(toHost)
      /\ UNCHANGED <<wants, seq, delivered, retries, modemVars, chipVars,
                     toModem, reported, faults>>
      /\ \/ Answers(f) /\ Return(f) /\ UNCHANGED pending
         \/ pending' = Append(pending, f) /\ UNCHANGED <<pc, call, sentOK>>
  BY DEF ReadAnswer
<1>2. /\ f \in Frame /\ f \in Frames(toHost) /\ Frames(toHost') \subseteq Frames(toHost)
      /\ toHost' \in Seq(Frame)
  BY <1>1, TakenFrame DEF RadioInv, TypeOK
<1> HIDE DEF f
<1>3. /\ pc' \in {"opening", "info", "config", "readback", "ready", "ended"}
      /\ call' \in Requests \cup {"none"} /\ pending' \in Seq(Frame)
  <2>1. CASE Return(f) /\ UNCHANGED pending
    BY <2>1 DEF Return, RadioInv, TypeOK
  <2>2. CASE pending' = Append(pending, f) /\ UNCHANGED <<pc, call, sentOK>>
    BY <1>2, <2>2, AppendProperties, LenProperties DEF RadioInv, TypeOK
  <2> QED
    BY <1>1, <2>1, <2>2
<1>4. TypeOK'
  BY <1>1, <1>2, <1>3 DEF RadioInv, TypeOK, modemVars, chipVars
<1>5. SentMeansOnAir'
  <2>1. CASE Answers(f) /\ Return(f)
    <3>1. CASE call = "TX" /\ f.info = "ok"
      <4>1. f.seq = seq /\ f.type \in {"ERROR", "RESULT"} /\ sentOK' = sentOK \cup {seq}
        BY <2>1, <3>1 DEF Answers, Return
      <4> QED
        BY <1>1, <1>2, <3>1, <4>1 DEF RadioInv, SentMeansOnAir, modemVars, chipVars
    <3>2. CASE ~(call = "TX" /\ f.info = "ok")
      BY <1>1, <2>1, <3>2 DEF Return, RadioInv, SentMeansOnAir, modemVars, chipVars
    <3> QED
      BY <3>1, <3>2
  <2>2. CASE UNCHANGED sentOK
    BY <1>1, <2>2 DEF RadioInv, SentMeansOnAir, modemVars, chipVars
  <2> QED
    BY <1>1, <2>1, <2>2
<1> QED
  BY <1>1, <1>2, <1>4, <1>5 DEF RadioInv, modemVars, chipVars

LEMMA TimeoutRadio == ASSUME RadioInv, Timeout PROVE RadioInv'
BY DEF Timeout, RadioInv, TypeOK, SentMeansOnAir, modemVars, chipVars

LEMMA ReceiveRadio == ASSUME RadioInv, Receive PROVE RadioInv'
<1>1. /\ toHost' \in Seq(Frame) /\ pending' \in Seq(Frame)
      /\ Frames(toHost') \subseteq Frames(toHost)
      /\ pc' \in {"ready", "ended"}
  <2>1. CASE pending # <<>> /\ Handle(Head(pending)) /\ pending' = Tail(pending) /\ UNCHANGED toHost
    BY <2>1, TakenFrame DEF Receive, Handle, RadioInv, TypeOK
  <2>2. CASE toHost # <<>> /\ Handle(Head(toHost)) /\ toHost' = Tail(toHost) /\ UNCHANGED pending
    BY <2>2, TakenFrame DEF Receive, Handle, RadioInv, TypeOK
  <2> QED
    BY <2>1, <2>2 DEF Receive
<1> QED
  BY <1>1 DEF Receive, RadioInv, TypeOK, SentMeansOnAir, modemVars, chipVars

(***************************************************************************)
(* The firmware answers with a frame of the right shape.                   *)
(***************************************************************************)
LEMMA ReplyFacts ==
  ASSUME RadioInv, NEW type \in {"STATUS", "RESULT", "ERROR", "RX"}, NEW s \in UInt16,
         NEW info \in Packets \cup {"default", "set", "failed", "failedSet",
                                    "ok", "busy", "unreadable"},
         Reply(type, s, info)
  PROVE  /\ toHost' \in Seq(Frame)
         /\ \A f \in Frames(toHost') :
              \/ f \in Frames(toHost)
              \/ f.type = type /\ f.seq = s /\ f.info = info
<1> DEFINE answer == [type |-> type, seq |-> s, info |-> info]
<1>1. /\ answer \in Frame /\ answer.type = type /\ answer.seq = s /\ answer.info = info
  BY DEF Frame, Requests
<1>2. toHost' = Append(toHost, answer) /\ toHost \in Seq(Frame)
  BY DEF Reply, RadioInv, TypeOK
<1> HIDE DEF answer
<1>3. /\ toHost' \in Seq(Frame) /\ Len(toHost') = Len(toHost) + 1 /\ Len(toHost) \in Nat
      /\ toHost'[Len(toHost) + 1] = answer
      /\ \A i \in 1 .. Len(toHost) : toHost'[i] = toHost[i]
  BY <1>1, <1>2, AppendProperties, LenProperties
<1> QED
  BY <1>1, <1>3 DEF Frames

LEMMA StatusFacts ==
  ASSUME RadioInv, NEW s \in UInt16, SendStatus(s), settings' \in {"set", "default"}
  PROVE  /\ toHost' \in Seq(Frame)
         /\ \A f \in Frames(toHost') :
              \/ f \in Frames(toHost)
              \/ /\ f.type = "STATUS" /\ f.seq = s
                 /\ ConfirmRadioStatus(f) => settings' = "set"
<1> DEFINE info == CASE radio' # "failed"    -> settings'
                     [] settings' = "set" -> "failedSet"
                     [] OTHER             -> "failed"
<1>1. Reply("STATUS", s, info)
  BY DEF SendStatus
<1>2. /\ info \in {"set", "default", "failed", "failedSet"}
      /\ info \in {"set", "failedSet"} => settings' = "set"
  OBVIOUS
<1> HIDE DEF info
<1>3. /\ toHost' \in Seq(Frame)
      /\ \A f \in Frames(toHost') :
           \/ f \in Frames(toHost)
           \/ f.type = "STATUS" /\ f.seq = s /\ f.info = info
  BY <1>1, <1>2, ReplyFacts
<1> QED
  BY <1>2, <1>3 DEF ConfirmRadioStatus

LEMMA CommandFacts ==
  ASSUME RadioInv, NEW type, Command(type)
  PROVE  /\ toModem # <<>> /\ toModem' = Tail(toModem)
         /\ Head(toModem) \in Frame /\ Head(toModem) \in Frames(toModem)
         /\ Head(toModem).type = type /\ Head(toModem).seq \in UInt16
         /\ toModem' \in Seq(Frame) /\ Frames(toModem') \subseteq Frames(toModem)
         /\ toModem[1] = Head(toModem) /\ Len(toModem) \in Nat \ {0}
         /\ Len(toModem') = Len(toModem) - 1
         /\ \A i \in 1 .. Len(toModem) - 1 : toModem'[i] = toModem[i + 1]
<1>1. toModem # <<>> /\ toModem' = Tail(toModem) /\ Head(toModem).type = type
      /\ toModem \in Seq(Frame)
  BY DEF Command, RadioInv, TypeOK
<1>2. /\ Head(toModem) \in Frame /\ toModem' \in Seq(Frame) /\ Len(toModem) \in Nat
      /\ Len(toModem') = Len(toModem) - 1
      /\ \A i \in 1 .. Len(toModem) - 1 : toModem'[i] = toModem[i + 1]
      /\ 1 \in 1 .. Len(toModem) /\ Head(toModem) = toModem[1]
      /\ Head(toModem) \in Frames(toModem) /\ Frames(toModem') \subseteq Frames(toModem)
  BY <1>1, TakenFrame
<1>3. Head(toModem).seq \in UInt16
  BY <1>2 DEF Frame
<1> QED
  BY <1>1, <1>2, <1>3

(***************************************************************************)
(* What the radio's invariant asks of a step of the modem.                 *)
(***************************************************************************)
LEMMA ModemRadio ==
  ASSUME RadioInv, UNCHANGED hostVars,
         toModem' \in Seq(Frame), Frames(toModem') \subseteq Frames(toModem),
         toHost' \in Seq(Frame),
         settings' \in {"set", "default"}, txSequence' \in UInt16,
         radio' \in {"failed", "receiving", "transmitting"}, irq' \in BOOLEAN,
         chip' \in {"standby", "listening", "sending"},
         radio' = "receiving" <=> chip' = "listening",
         buffer' \in Packets \cup {"empty", "unreadable"},
         faults' \in Nat, faults' <= MaxFaults,
         irq' /\ radio' = "receiving" => buffer' \in Packets \cup {"unreadable"},
         irq' /\ radio' = "transmitting" => txSequence' \in aired' \cup overtaken',
         aired \subseteq aired', overtaken \subseteq overtaken',
         \A f \in Frames(toHost') : f \in Frames(toHost)
           \/ (f.type \in {"RESULT", "ERROR"} /\ f.info = "ok" => f.seq \in aired \cup overtaken)
  PROVE  RadioInv'
BY DEF RadioInv, TypeOK, SentMeansOnAir, hostVars

LEMMA ListenFacts ==
  ASSUME ListenOrFail
  PROVE  /\ irq' = FALSE /\ radio' \in {"failed", "receiving"}
         /\ chip' \in {"standby", "listening"}
         /\ radio' = "receiving" <=> chip' = "listening"
BY DEF ListenOrFail

LEMMA FaultFacts ==
  ASSUME RadioInv, Fault \/ NoFault
  PROVE  faults' \in Nat /\ faults' <= MaxFaults
BY LinkAssumption DEF RadioInv, TypeOK, Fault, NoFault

(***************************************************************************)
(* The firmware's handlers.                                                *)
(***************************************************************************)
LEMMA HandleInfoRadio == ASSUME RadioInv, HandleInfo PROVE RadioInv'
<1>1. /\ Command("INFO") /\ SendStatus(Head(toModem).seq)
      /\ UNCHANGED <<radio, irq, txSequence, settings, chipVars, hostVars, faults, overtaken>>
  BY DEF HandleInfo
<1>2. /\ Head(toModem).seq \in UInt16
      /\ toModem' \in Seq(Frame) /\ Frames(toModem') \subseteq Frames(toModem)
  BY <1>1, CommandFacts
<1>3. settings' \in {"set", "default"}
  BY <1>1 DEF RadioInv, TypeOK
<1>4. /\ toHost' \in Seq(Frame)
      /\ \A f \in Frames(toHost') : f \in Frames(toHost) \/ f.type = "STATUS"
  BY <1>1, <1>2, <1>3, StatusFacts
<1> QED
  BY <1>1, <1>2, <1>3, <1>4, ModemRadio DEF RadioInv, TypeOK, chipVars

LEMMA HandleTXRadio == ASSUME RadioInv, HandleTX PROVE RadioInv'
<1> DEFINE s == Head(toModem).seq
<1>1. /\ Command("TX")
      /\ UNCHANGED <<settings, buffer, aired, hostVars>>
  BY DEF HandleTX
<1>2. /\ s \in UInt16
      /\ toModem' \in Seq(Frame) /\ Frames(toModem') \subseteq Frames(toModem)
  BY <1>1, CommandFacts
<1>3. \/ /\ radio # "receiving"
         /\ Reply("ERROR", s, IF radio = "failed" THEN "failed" ELSE "busy")
         /\ UNCHANGED <<radio, irq, txSequence, chip, overtaken, faults>>
      \/ /\ radio = "receiving" /\ Fault
         /\ Reply("RESULT", s, "failed")
         /\ ListenOrFail /\ UNCHANGED <<txSequence, overtaken>>
      \/ /\ radio = "receiving"
         /\ radio' = "transmitting" /\ chip' = "sending" /\ txSequence' = s /\ UNCHANGED toHost
         /\ \/ irq' = FALSE /\ UNCHANGED overtaken /\ NoFault
            \/ irq' = TRUE /\ overtaken' = overtaken \cup {s} /\ Fault
  BY DEF HandleTX
<1> HIDE DEF s
<1>4. CASE /\ radio # "receiving"
           /\ Reply("ERROR", s, IF radio = "failed" THEN "failed" ELSE "busy")
           /\ UNCHANGED <<radio, irq, txSequence, chip, overtaken, faults>>
  <2> DEFINE info == IF radio = "failed" THEN "failed" ELSE "busy"
  <2>1. Reply("ERROR", s, info) /\ info \in {"failed", "busy"}
    BY <1>4
  <2> HIDE DEF info
  <2>2. /\ toHost' \in Seq(Frame)
        /\ \A f \in Frames(toHost') : f \in Frames(toHost) \/ f.info = info
    BY <1>2, <2>1, ReplyFacts
  <2>3. /\ radio' = radio /\ radio # "receiving" /\ chip' = chip /\ irq' = irq
        /\ faults' = faults
        /\ aired' = aired /\ overtaken' = overtaken /\ txSequence' = txSequence
    BY <1>1, <1>4
  <2> QED
    BY <1>1, <1>2, <2>1, <2>2, <2>3, ModemRadio DEF RadioInv, TypeOK
<1>5. CASE /\ radio = "receiving" /\ Fault
           /\ Reply("RESULT", s, "failed")
           /\ ListenOrFail /\ UNCHANGED <<txSequence, overtaken>>
  <2>1. /\ toHost' \in Seq(Frame)
        /\ \A f \in Frames(toHost') : f \in Frames(toHost) \/ f.info # "ok"
    BY <1>2, <1>5, ReplyFacts
  <2>2. /\ irq' = FALSE /\ radio' \in {"failed", "receiving"}
        /\ chip' \in {"standby", "listening"} /\ (radio' = "receiving" <=> chip' = "listening")
        /\ faults' \in Nat /\ faults' <= MaxFaults
    BY <1>5, ListenFacts, FaultFacts
  <2> QED
    BY <1>1, <1>2, <1>5, <2>1, <2>2, ModemRadio DEF RadioInv, TypeOK
<1>6. CASE /\ radio = "receiving"
           /\ radio' = "transmitting" /\ chip' = "sending" /\ txSequence' = s /\ UNCHANGED toHost
           /\ \/ irq' = FALSE /\ UNCHANGED overtaken /\ NoFault
              \/ irq' = TRUE /\ overtaken' = overtaken \cup {s} /\ Fault
  <2>1. faults' \in Nat /\ faults' <= MaxFaults
    BY <1>6, FaultFacts
  <2> QED
    BY <1>1, <1>2, <1>6, <2>1, ModemRadio DEF RadioInv, TypeOK
<1> QED
  BY <1>3, <1>4, <1>5, <1>6

LEMMA HandleConfigRadio == ASSUME RadioInv, HandleConfig PROVE RadioInv'
<1> DEFINE f == Head(toModem)
<1>1. /\ Command("CONFIG")
      /\ UNCHANGED <<txSequence, overtaken, buffer, aired, hostVars>>
      /\ \/ /\ radio = "transmitting" /\ Reply("ERROR", f.seq, "busy")
            /\ UNCHANGED <<radio, irq, chip, settings, faults>>
         \/ /\ settings' = f.info /\ irq' = FALSE
            /\ radio' = "receiving" /\ chip' = "listening" /\ NoFault
            /\ SendStatus(f.seq)
         \/ /\ Reply("ERROR", f.seq, "failed") /\ UNCHANGED settings
            /\ ListenOrFail /\ Fault
         \/ /\ radio = "failed" /\ Reply("ERROR", f.seq, "failed")
            /\ UNCHANGED <<radio, irq, chip, settings, faults>>
  BY DEF HandleConfig
<1>2. /\ f.seq \in UInt16
      /\ toModem' \in Seq(Frame) /\ Frames(toModem') \subseteq Frames(toModem)
  BY <1>1, CommandFacts
<1>3. f.info = wants /\ wants \in {"set", "default"}
  BY <1>1, CommandFacts DEF RadioInv, TypeOK
<1> HIDE DEF f
<1>4. CASE Reply("ERROR", f.seq, "busy") /\ UNCHANGED <<radio, irq, chip, settings, faults>>
  <2>1. /\ toHost' \in Seq(Frame)
        /\ \A k \in Frames(toHost') : k \in Frames(toHost) \/ k.info = "busy"
    BY <1>2, <1>4, ReplyFacts
  <2> QED
    BY <1>1, <1>2, <1>4, <2>1, ModemRadio DEF RadioInv, TypeOK
<1>5. CASE /\ settings' = f.info /\ irq' = FALSE
           /\ radio' = "receiving" /\ chip' = "listening" /\ NoFault
           /\ SendStatus(f.seq)
  <2>1. /\ toHost' \in Seq(Frame)
        /\ \A k \in Frames(toHost') : k \in Frames(toHost) \/ k.type = "STATUS"
    BY <1>2, <1>3, <1>5, StatusFacts
  <2>2. faults' \in Nat /\ faults' <= MaxFaults
    BY <1>5, FaultFacts
  <2> QED
    BY <1>1, <1>2, <1>3, <1>5, <2>1, <2>2, ModemRadio DEF RadioInv, TypeOK
<1>6. CASE Reply("ERROR", f.seq, "failed") /\ UNCHANGED settings /\ ListenOrFail /\ Fault
  <2>1. /\ toHost' \in Seq(Frame)
        /\ \A k \in Frames(toHost') : k \in Frames(toHost) \/ k.info = "failed"
    BY <1>2, <1>6, ReplyFacts
  <2>2. /\ irq' = FALSE /\ radio' \in {"failed", "receiving"}
        /\ chip' \in {"standby", "listening"} /\ (radio' = "receiving" <=> chip' = "listening")
        /\ faults' \in Nat /\ faults' <= MaxFaults
    BY <1>6, ListenFacts, FaultFacts
  <2> QED
    BY <1>1, <1>2, <1>6, <2>1, <2>2, ModemRadio DEF RadioInv, TypeOK
<1>7. CASE Reply("ERROR", f.seq, "failed") /\ UNCHANGED <<radio, irq, chip, settings, faults>>
  <2>1. /\ toHost' \in Seq(Frame)
        /\ \A k \in Frames(toHost') : k \in Frames(toHost) \/ k.info = "failed"
    BY <1>2, <1>7, ReplyFacts
  <2> QED
    BY <1>1, <1>2, <1>7, <2>1, ModemRadio DEF RadioInv, TypeOK
<1> QED
  BY <1>1, <1>4, <1>5, <1>6, <1>7

(***************************************************************************)
(* The end of a transmission, however it comes about: nothing but an       *)
(* interrupt makes it a success.                                           *)
(***************************************************************************)
LEMMA TXEndRadio ==
  ASSUME RadioInv, StartReceive, NEW info \in {"ok", "failed"},
         Reply("RESULT", txSequence, info), info = "ok" => irq /\ radio = "transmitting",
         UNCHANGED <<txSequence, settings, boot, answered, started, overtaken, buffer, aired,
                     hostVars, toModem, reported>>
  PROVE  RadioInv'
<1>1. txSequence \in UInt16 /\ toModem' \in Seq(Frame) /\ settings' \in {"set", "default"}
  BY DEF RadioInv, TypeOK
<1>2. /\ toHost' \in Seq(Frame)
      /\ \A f \in Frames(toHost') :
           \/ f \in Frames(toHost)
           \/ f.seq = txSequence /\ f.info = info
  BY <1>1, ReplyFacts
<1>3. info = "ok" => txSequence \in aired \cup overtaken
  BY DEF RadioInv
<1>4. /\ irq' = FALSE /\ radio' \in {"failed", "receiving"}
      /\ chip' \in {"standby", "listening"} /\ (radio' = "receiving" <=> chip' = "listening")
      /\ faults' \in Nat /\ faults' <= MaxFaults
  BY ListenFacts, FaultFacts DEF StartReceive
<1> QED
  BY <1>1, <1>2, <1>3, <1>4, ModemRadio DEF RadioInv, TypeOK

LEMMA TXTimeoutRadio == ASSUME RadioInv, TXTimeout PROVE RadioInv'
BY TXEndRadio DEF TXTimeout

LEMMA TXDoneRadio == ASSUME RadioInv, TXDone PROVE RadioInv'
<1>1. PICK info \in {"ok", "failed"} : Reply("RESULT", txSequence, info)
  BY DEF TXDone
<1> QED
  BY <1>1, TXEndRadio DEF TXDone

LEMMA RXDoneRadio == ASSUME RadioInv, RXDone PROVE RadioInv'
<1>1. buffer \in Packets \cup {"unreadable"} /\ 0 \in UInt16
  BY DEF RXDone, RadioInv, UInt16
<1>2. /\ toHost' \in Seq(Frame)
      /\ \A f \in Frames(toHost') :
           \/ f \in Frames(toHost)
           \/ f.type = "RX"
           \/ f.info = "unreadable"
  <2>1. CASE Reply("ERROR", 0, "unreadable")
    BY <1>1, <2>1, ReplyFacts
  <2>2. CASE Reply("RX", 0, buffer) /\ buffer # "unreadable"
    BY <1>1, <2>2, ReplyFacts
  <2> QED
    BY <2>1, <2>2 DEF RXDone
<1>3. /\ irq' = FALSE /\ radio' \in {"failed", "receiving"}
      /\ chip' \in {"standby", "listening"} /\ (radio' = "receiving" <=> chip' = "listening")
      /\ faults' \in Nat /\ faults' <= MaxFaults
  BY ListenFacts, FaultFacts DEF StartReceive, RXDone
<1>4. UNCHANGED <<txSequence, settings, overtaken, buffer, aired, hostVars, toModem>>
  BY DEF RXDone
<1> QED
  BY <1>2, <1>3, <1>4, ModemRadio DEF RadioInv, TypeOK

LEMMA ModemResetRadio == ASSUME RadioInv, ModemReset PROVE RadioInv'
<1>1. /\ irq' = FALSE /\ radio' \in {"failed", "receiving"}
      /\ chip' \in {"standby", "listening"} /\ (radio' = "receiving" <=> chip' = "listening")
      /\ faults' \in Nat /\ faults' <= MaxFaults
  BY ListenFacts, FaultFacts DEF ModemReset
<1>2. /\ toModem' = <<>> /\ settings' = "default"
      /\ UNCHANGED <<txSequence, overtaken, buffer, aired, hostVars, toHost>>
  BY DEF ModemReset
<1> QED
  BY <1>1, <1>2, NoFrames, ModemRadio DEF RadioInv, TypeOK

LEMMA HearPacketRadio == ASSUME RadioInv, HearPacket PROVE RadioInv'
<1>1. faults' \in Nat /\ faults' <= MaxFaults /\ buffer' \in Packets \cup {"unreadable"}
  BY FaultFacts DEF HearPacket
<1>2. /\ chip = "listening" /\ irq' = TRUE
      /\ UNCHANGED <<radio, txSequence, settings, overtaken, chip, aired,
                     hostVars, toModem, toHost>>
  BY DEF HearPacket
<1> QED
  BY <1>1, <1>2, ModemRadio DEF RadioInv, TypeOK

LEMMA FinishSendingRadio == ASSUME RadioInv, FinishSending PROVE RadioInv'
<1>1. /\ chip = "sending" /\ chip' = "standby" /\ irq' = TRUE
      /\ aired' = aired \cup {txSequence}
      /\ UNCHANGED <<radio, txSequence, settings, overtaken, buffer,
                     hostVars, toModem, toHost, faults>>
  BY DEF FinishSending
<1> QED
  BY <1>1, ModemRadio DEF RadioInv, TypeOK

LEMMA LoseFrameFacts ==
  ASSUME RadioInv, LoseFrame
  PROVE  /\ toModem' \in Seq(Frame) /\ toHost' \in Seq(Frame)
         /\ Frames(toModem') \subseteq Frames(toModem) /\ Frames(toHost') \subseteq Frames(toHost)
         /\ \/ UNCHANGED toModem
            \/ \E k \in 1 .. Len(toModem) :
                 /\ Len(toModem') = Len(toModem) - 1 /\ Len(toModem) \in Nat
                 /\ \A i \in 1 .. Len(toModem) - 1 :
                      toModem'[i] = IF i < k THEN toModem[i] ELSE toModem[i + 1]
<1>1. CASE \E k \in 1 .. Len(toModem) : toModem' = Remove(toModem, k) /\ UNCHANGED toHost
  <2>1. PICK k \in 1 .. Len(toModem) : toModem' = Remove(toModem, k) /\ UNCHANGED toHost
    BY <1>1
  <2>2. toModem \in Seq(Frame) /\ toHost \in Seq(Frame)
    BY DEF RadioInv, TypeOK
  <2>3. /\ toModem' \in Seq(Frame) /\ Len(toModem) \in Nat /\ Len(toModem') = Len(toModem) - 1
        /\ \A i \in 1 .. Len(toModem) - 1 :
             toModem'[i] = IF i < k THEN toModem[i] ELSE toModem[i + 1]
        /\ Frames(toModem') \subseteq Frames(toModem)
    BY <2>1, <2>2, LostFrame
  <2> QED
    BY <2>1, <2>2, <2>3
<1>2. CASE \E k \in 1 .. Len(toHost) : toHost' = Remove(toHost, k) /\ UNCHANGED toModem
  BY <1>2, LostFrame DEF RadioInv, TypeOK
<1> QED
  BY <1>1, <1>2 DEF LoseFrame

LEMMA LoseFrameRadio == ASSUME RadioInv, LoseFrame PROVE RadioInv'
<1>1. faults' \in Nat /\ faults' <= MaxFaults /\ UNCHANGED <<hostVars, modemVars, chipVars>>
  BY FaultFacts DEF LoseFrame
<1> QED
  BY <1>1, LoseFrameFacts, ModemRadio DEF RadioInv, TypeOK, modemVars, chipVars

LEMMA RadioNext == ASSUME RadioInv, [Next]_vars PROVE RadioInv'
<1>1. CASE UNCHANGED vars
  BY <1>1 DEF vars, hostVars, modemVars, chipVars, RadioInv, TypeOK, SentMeansOnAir
<1>2. CASE HostStep
  BY <1>2, AskRadio, RetryRadio, ReadAnswerRadio, TimeoutRadio, ReceiveRadio
  DEF HostStep, Synchronise, Configure, Send, Requests
<1>3. CASE ModemStep
  BY <1>3, HandleInfoRadio, HandleTXRadio, HandleConfigRadio, TXTimeoutRadio, TXDoneRadio,
     RXDoneRadio, ModemResetRadio DEF ModemStep
<1> QED
  BY <1>1, <1>2, <1>3, HearPacketRadio, FinishSendingRadio, LoseFrameRadio DEF Next

-----------------------------------------------------------------------------
(***************************************************************************)
(* Serving on a configured modem.  A line that only lost frames keeps the  *)
(* facts about those it holds.                                             *)
(***************************************************************************)
LineShrinks ==
  /\ Frames(toModem') \subseteq Frames(toModem)
  /\ \/ UNCHANGED toModem
     \/ toModem' = <<>>
     \/ \E k \in 1 .. Len(toModem) :
          /\ Len(toModem) \in Nat /\ Len(toModem') = Len(toModem) - 1
          /\ \A i \in 1 .. Len(toModem) - 1 :
               toModem'[i] = IF i < k THEN toModem[i] ELSE toModem[i + 1]

LEMMA CommandShrinks == ASSUME RadioInv, NEW type, Command(type) PROVE LineShrinks
<1>1. /\ Frames(toModem') \subseteq Frames(toModem)
      /\ Len(toModem) \in Nat \ {0} /\ Len(toModem') = Len(toModem) - 1
      /\ \A i \in 1 .. Len(toModem) - 1 : toModem'[i] = toModem[i + 1]
  BY CommandFacts
<1>2. 1 \in 1 .. Len(toModem)
  BY <1>1
<1>3. \A i \in 1 .. Len(toModem) - 1 :
        toModem'[i] = IF i < 1 THEN toModem[i] ELSE toModem[i + 1]
  BY <1>1
<1> QED
  BY <1>1, <1>2, <1>3 DEF LineShrinks

LEMMA EmptyShrinks ==
  ASSUME RadioInv, toModem = <<>>, LineShrinks PROVE toModem' = <<>>
<1>1. Len(toModem) = 0
  BY NoFrames
<1> QED
  BY <1>1 DEF LineShrinks

LEMMA OpeningKept ==
  ASSUME RadioInv, Opening, UNCHANGED hostVars, LineShrinks,
         \A f \in Frames(toHost') : f \in Frames(toHost) \/ (f.type = "STATUS" => f.seq <= seq)
  PROVE  Opening'
<1>1. \A i \in 1 .. Len(toModem') : toModem'[i].seq = 4 => i = Len(toModem')
  <2>1. CASE UNCHANGED toModem
    BY <2>1 DEF Opening
  <2>2. CASE toModem' = <<>>
    <3>1. Len(toModem') = 0
      BY <2>2, NoFrames
    <3> QED
      BY <3>1
  <2>3. CASE \E k \in 1 .. Len(toModem) :
               /\ Len(toModem) \in Nat /\ Len(toModem') = Len(toModem) - 1
               /\ \A i \in 1 .. Len(toModem) - 1 :
                    toModem'[i] = IF i < k THEN toModem[i] ELSE toModem[i + 1]
    <3>1. PICK k \in 1 .. Len(toModem) :
            /\ Len(toModem) \in Nat /\ Len(toModem') = Len(toModem) - 1
            /\ \A i \in 1 .. Len(toModem) - 1 :
                 toModem'[i] = IF i < k THEN toModem[i] ELSE toModem[i + 1]
      BY <2>3
    <3>2. \A i \in 1 .. Len(toModem) : toModem[i].seq = 4 => i = Len(toModem)
      BY DEF Opening
    <3> SUFFICES ASSUME NEW i \in 1 .. Len(toModem) - 1, toModem'[i].seq = 4
                 PROVE  i = Len(toModem) - 1
      BY <3>1
    <3>3. CASE i < k
      BY <3>1, <3>2, <3>3
    <3>4. CASE ~(i < k)
      BY <3>1, <3>2, <3>4
    <3> QED
      BY <3>3, <3>4
  <2> QED
    BY <2>1, <2>2, <2>3 DEF LineShrinks
<1>2. UNCHANGED <<wants, pc, seq, call>>
  BY DEF hostVars
<1> QED
  BY <1>1, <1>2 DEF Opening, LineShrinks

(***************************************************************************)
(* What this invariant asks of a step of the modem that answers nothing    *)
(* about the settings.                                                     *)
(***************************************************************************)
LEMMA QuietServe ==
  ASSUME RadioInv, ServeInv, UNCHANGED hostVars, LineShrinks,
         settings' \in {"default", wants}, boot' \in Nat, answered' \in 0 .. boot',
         SettingsKept => SettingsKept',
         \A f \in Frames(toHost') :
           \/ f \in Frames(toHost)
           \/ f.type = "STATUS" => /\ f.seq \in {k.seq : k \in Frames(toModem)}
                                   /\ Opening => ~Confirmation(f)
  PROVE  ServeInv'
<1>1. UNCHANGED <<wants, pc, seq, call>>
  BY DEF hostVars
<1>2. ASSUME pc \notin {"ready", "ended"}
      PROVE  /\ Opening'
             /\ (\E f \in Frames(toHost') : Confirmation(f)) => toModem' = <<>> /\ SettingsKept'
  <2>1. Opening'
    <3>1. Opening
      BY <1>2 DEF ServeInv
    <3>2. \A k \in Frames(toModem) : k.seq <= seq
      BY <3>1 DEF Opening
    <3> QED
      BY <3>1, <3>2, OpeningKept
  <2>2. ASSUME NEW f \in Frames(toHost'), Confirmation(f) PROVE f \in Frames(toHost)
    BY <1>2, <2>2 DEF Confirmation, ServeInv
  <2>3. (\E f \in Frames(toHost) : Confirmation(f)) => toModem = <<>> /\ SettingsKept
    BY <1>2 DEF ServeInv
  <2> QED
    BY <2>1, <2>2, <2>3, EmptyShrinks
<1>3. pc = "ready" /\ wants = "set" =>
        (\A f \in Frames(toModem') : f.type # "INFO") /\ SettingsKept'
  BY DEF ServeInv, LineShrinks
<1> QED
  BY <1>1, <1>2, <1>3 DEF ServeInv

LEMMA HandleTXServe == ASSUME RadioInv, ServeInv, HandleTX PROVE ServeInv'
<1> DEFINE s == Head(toModem).seq
<1>1. /\ Command("TX")
      /\ UNCHANGED <<settings, boot, answered, hostVars>>
      /\ \/ Reply("ERROR", s, "failed") \/ Reply("ERROR", s, "busy")
         \/ Reply("RESULT", s, "failed") \/ UNCHANGED toHost
  BY DEF HandleTX
<1>2. s \in UInt16 /\ LineShrinks
  BY <1>1, CommandFacts, CommandShrinks
<1> HIDE DEF s
<1>3. \A f \in Frames(toHost') : f \in Frames(toHost) \/ f.type # "STATUS"
  BY <1>1, <1>2, ReplyFacts
<1> QED
  BY <1>1, <1>2, <1>3, QuietServe DEF ServeInv, SettingsKept, hostVars

LEMMA TXEndServe == ASSUME RadioInv, ServeInv, TXTimeout \/ TXDone PROVE ServeInv'
<1>1. PICK info \in {"ok", "failed"} : Reply("RESULT", txSequence, info)
  BY DEF TXTimeout, TXDone
<1>2. \A f \in Frames(toHost') : f \in Frames(toHost) \/ f.type # "STATUS"
  BY <1>1, ReplyFacts DEF RadioInv, TypeOK
<1>3. UNCHANGED <<settings, boot, answered, hostVars, toModem>>
  BY DEF TXTimeout, TXDone
<1> QED
  BY <1>2, <1>3, QuietServe DEF ServeInv, SettingsKept, hostVars, LineShrinks

LEMMA RXDoneServe == ASSUME RadioInv, ServeInv, RXDone PROVE ServeInv'
<1>1. 0 \in UInt16
  BY DEF UInt16
<1>2. \A f \in Frames(toHost') : f \in Frames(toHost) \/ f.type # "STATUS"
  <2>1. CASE Reply("ERROR", 0, "unreadable")
    BY <1>1, <2>1, ReplyFacts
  <2>2. CASE Reply("RX", 0, buffer) /\ buffer # "unreadable"
    <3>1. buffer \in Packets
      BY <2>2 DEF RXDone, RadioInv
    <3> QED
      BY <1>1, <2>2, <3>1, ReplyFacts
  <2> QED
    BY <2>1, <2>2 DEF RXDone
<1>3. UNCHANGED <<settings, boot, answered, hostVars, toModem>>
  BY DEF RXDone
<1> QED
  BY <1>2, <1>3, QuietServe DEF ServeInv, SettingsKept, hostVars, LineShrinks

LEMMA ModemResetServe == ASSUME RadioInv, ServeInv, ModemReset PROVE ServeInv'
<1>1. /\ boot' = boot + 1 /\ settings' = "default" /\ toModem' = <<>>
      /\ UNCHANGED <<answered, hostVars, toHost>>
  BY DEF ModemReset
<1>2. boot' \in Nat /\ answered' \in 0 .. boot' /\ answered' # boot'
  BY <1>1 DEF ServeInv
<1>3. LineShrinks
  BY <1>1, NoFrames DEF LineShrinks
<1> QED
  BY <1>1, <1>2, <1>3, QuietServe DEF SettingsKept

LEMMA RestServe ==
  ASSUME RadioInv, ServeInv, HearPacket \/ FinishSending \/ LoseFrame PROVE ServeInv'
<1>1. UNCHANGED <<settings, boot, answered, hostVars>>
  BY DEF HearPacket, FinishSending, LoseFrame, modemVars
<1>2. LineShrinks /\ Frames(toHost') \subseteq Frames(toHost)
  <2>1. CASE LoseFrame
    BY <2>1, LoseFrameFacts DEF LineShrinks
  <2>2. CASE HearPacket \/ FinishSending
    BY <2>2 DEF HearPacket, FinishSending, LineShrinks
  <2> QED
    BY <2>1, <2>2
<1> QED
  BY <1>1, <1>2, QuietServe DEF ServeInv, SettingsKept, hostVars

LEMMA HandleConfigServe == ASSUME RadioInv, ServeInv, HandleConfig PROVE ServeInv'
<1> DEFINE f == Head(toModem)
<1>1. /\ Command("CONFIG")
      /\ UNCHANGED <<boot, answered, hostVars>>
      /\ \/ Reply("ERROR", f.seq, "busy") /\ UNCHANGED settings
         \/ settings' = f.info /\ SendStatus(f.seq)
         \/ Reply("ERROR", f.seq, "failed") /\ UNCHANGED settings
  BY DEF HandleConfig
<1>2. /\ f.seq \in UInt16 /\ f \in Frames(toModem) /\ f.type = "CONFIG" /\ LineShrinks
  BY <1>1, CommandFacts, CommandShrinks
<1>3. f.info = wants /\ wants \in {"set", "default"}
  BY <1>2 DEF RadioInv, TypeOK
<1>4. Opening => f.seq = 3
  BY <1>2 DEF Opening
<1> HIDE DEF f
<1>5. CASE UNCHANGED settings /\ (Reply("ERROR", f.seq, "busy") \/ Reply("ERROR", f.seq, "failed"))
  <2>1. \A k \in Frames(toHost') : k \in Frames(toHost) \/ k.type # "STATUS"
    BY <1>2, <1>5, ReplyFacts
  <2> QED
    BY <1>1, <1>2, <1>5, <2>1, QuietServe DEF ServeInv, SettingsKept, hostVars
<1>6. CASE settings' = f.info /\ SendStatus(f.seq)
  <2>1. \A k \in Frames(toHost') : k \in Frames(toHost) \/ k.seq = f.seq
    BY <1>2, <1>3, <1>6, StatusFacts
  <2>2. \A k : k.seq = f.seq /\ Opening => ~Confirmation(k)
    BY <1>4 DEF Confirmation
  <2>3. SettingsKept' /\ settings' = wants
    BY <1>1, <1>3, <1>6 DEF SettingsKept, hostVars
  <2> QED
    BY <1>1, <1>2, <2>1, <2>2, <2>3, QuietServe DEF ServeInv
<1> QED
  BY <1>1, <1>5, <1>6

(***************************************************************************)
(* The status that is to confirm the settings answers the last request of  *)
(* the opening; nothing behind it can set the answer's date forward.       *)
(***************************************************************************)
LEMMA HandleInfoServe == ASSUME RadioInv, ServeInv, HandleInfo PROVE ServeInv'
<1> DEFINE s == Head(toModem).seq
<1>1. /\ Command("INFO") /\ SendStatus(s) /\ answered' = boot
      /\ UNCHANGED <<settings, boot, hostVars>>
  BY DEF HandleInfo
<1>2. /\ toModem # <<>> /\ s \in UInt16 /\ Head(toModem) \in Frames(toModem)
      /\ Head(toModem).type = "INFO" /\ LineShrinks
      /\ toModem[1] = Head(toModem) /\ Len(toModem) \in Nat \ {0}
      /\ toModem' \in Seq(Frame) /\ Len(toModem') = Len(toModem) - 1
  BY <1>1, CommandFacts, CommandShrinks
<1>3. settings \in {"default", "set"}
  BY DEF RadioInv, TypeOK
<1>4. \A f \in Frames(toHost') : \/ f \in Frames(toHost)
                                 \/ /\ f.seq = s
                                    /\ ConfirmRadioStatus(f) => settings' = "set"
  BY <1>1, <1>2, <1>3, StatusFacts
<1>5. UNCHANGED <<wants, pc, seq, call>>
  BY <1>1 DEF hostVars
<1>6. ASSUME pc \notin {"ready", "ended"}
      PROVE  /\ Opening'
             /\ (\E f \in Frames(toHost') : Confirmation(f)) => toModem' = <<>> /\ SettingsKept'
  <2>1. Opening
    BY <1>6 DEF ServeInv
  <2>2. s <= seq /\ (s = 4 => Len(toModem) = 1)
    BY <1>2, <2>1 DEF Opening
  <2> HIDE DEF s
  <2>3. Opening'
    BY <1>1, <1>2, <1>4, <2>1, <2>2, OpeningKept
  <2>4. ASSUME NEW f \in Frames(toHost'), Confirmation(f)
        PROVE  toModem' = <<>> /\ SettingsKept'
    <3>1. f \notin Frames(toHost)
      BY <1>2, <1>6, <2>4 DEF ServeInv
    <3>2. s = 4 /\ settings' = "set" /\ seq = 4
      BY <1>4, <2>2, <2>4, <3>1, <2>1 DEF Confirmation, Opening
    <3>3. wants = "set"
      BY <2>1, <3>2 DEF Opening
    <3>4. Len(toModem') = 0
      <4>1. Len(toModem) = 1 /\ Len(toModem') = Len(toModem) - 1
        BY <1>2, <2>2, <3>2
      <4> QED
        BY <4>1
    <3>5. toModem' = <<>>
      <4>1. toModem' # <<>> => Len(toModem') \in Nat \ {0}
        BY <1>2, EmptySeq, Zenon
      <4> QED
        BY <3>4, <4>1
    <3> QED
      BY <1>5, <3>2, <3>3, <3>5 DEF SettingsKept
  <2> QED
    BY <2>3, <2>4
<1>7. ~(pc = "ready" /\ wants = "set")
  BY <1>2 DEF ServeInv
<1> QED
  BY <1>1, <1>5, <1>6, <1>7 DEF ServeInv

(***************************************************************************)
(* The host: each request takes the next number, and the last answer of    *)
(* the opening begins serving.                                             *)
(***************************************************************************)
LEMMA AskServe ==
  ASSUME RadioInv, ServeInv, Synchronise \/ Configure \/ Send PROVE ServeInv'
<1>1. PICK type \in Requests : Ask(type)
                               /\ \/ pc \in {"opening", "info", "readback"} /\ type = "INFO"
                                  \/ pc = "config" /\ type = "CONFIG"
                                  \/ pc = "ready" /\ type = "TX"
  BY DEF Synchronise, Configure, Send, Requests
<1>2. /\ call = "none" /\ call' = type
      /\ toModem' = Append(toModem, [type |-> type, seq |-> seq', info |-> wants])
      /\ UNCHANGED <<wants, pc, settings, boot, answered, toHost>>
  BY <1>1 DEF Ask, modemVars
<1>3. seq' \in UInt16 /\ seq \in Nat /\ (seq < 4 => seq' = seq + 1)
  <2>1. seq' = (seq + 1) % 65536 /\ seq \in UInt16
    BY <1>1 DEF Ask, RadioInv, TypeOK
  <2>2. /\ seq \in Nat /\ (seq + 1) % 65536 \in UInt16
        /\ seq + 1 < 65536 => (seq + 1) % 65536 = seq + 1
    BY <2>1, SequenceNumbers
  <2> QED
    BY <2>1, <2>2
<1>4. /\ Len(toModem') = Len(toModem) + 1 /\ Len(toModem) \in Nat
      /\ \A i \in 1 .. Len(toModem) : toModem'[i] = toModem[i]
      /\ \A k \in Frames(toModem') : \/ k \in Frames(toModem)
                                     \/ k.type = type /\ k.seq = seq'
  BY <1>2, <1>3, RequestFacts
<1>5. CASE pc \notin {"ready", "ended"}
  <2>1. Opening /\ seq < 4
    BY <1>2, <1>5 DEF ServeInv, Opening
  <2>2. seq' = seq + 1
    BY <1>3, <2>1
  <2>3. \A i \in 1 .. Len(toModem) : toModem[i].seq # 4
    BY <1>3, <2>1 DEF Opening, Frames
  <2>4. \A i \in 1 .. Len(toModem') : toModem'[i].seq = 4 => i = Len(toModem')
    BY <1>4, <2>3
  <2>5. \A f \in Frames(toModem) : f.seq <= seq /\ (f.type = "CONFIG" => f.seq = 3)
    BY <2>1 DEF Opening
  <2>6. \A f \in Frames(toHost) : f.type = "STATUS" => f.seq <= seq
    BY <2>1 DEF Opening
  <2>7. \A f \in Frames(toModem) \cup Frames(toHost) : f.seq \in Nat
    BY FramesOnLines
  <2>9. type = "CONFIG" => seq' = 3
    BY <1>1, <1>2, <2>1, <2>2 DEF Opening
  <2>10. ASSUME NEW f \in Frames(toModem')
         PROVE  f.seq <= seq' /\ (f.type = "CONFIG" => f.seq = 3)
    <3>1. CASE f \in Frames(toModem)
      <4>1. f.seq <= seq /\ f.seq \in Nat /\ (f.type = "CONFIG" => f.seq = 3)
        BY <2>5, <2>7, <3>1
      <4> QED
        BY <1>3, <2>2, <4>1
    <3>2. CASE f.type = type /\ f.seq = seq'
      BY <1>3, <2>2, <2>9, <3>2
    <3> QED
      BY <1>4, <3>1, <3>2
  <2>8. ASSUME NEW f \in Frames(toHost), f.type = "STATUS" PROVE f.seq <= seq'
    <3>1. f.seq <= seq /\ f.seq \in Nat
      BY <2>6, <2>7, <2>8
    <3> QED
      BY <1>3, <2>2, <3>1
  <2>11. Opening'
    BY <1>1, <1>2, <1>5, <2>1, <2>2, <2>4, <2>8, <2>10 DEF Opening
  <2>12. \A f \in Frames(toHost') : ~Confirmation(f)
    BY <1>2, <1>3, <2>1, <2>6 DEF Confirmation
  <2> QED
    BY <1>2, <1>5, <2>11, <2>12 DEF ServeInv
<1>6. CASE pc = "ready"
  <2>1. type = "TX"
    BY <1>1, <1>6
  <2> QED
    BY <1>2, <1>4, <1>6, <2>1 DEF ServeInv, SettingsKept
<1> QED
  BY <1>1, <1>5, <1>6

LEMMA RetryServe == ASSUME RadioInv, ServeInv, Retry PROVE ServeInv'
<1>1. /\ pc = "opening" /\ call = "INFO"
      /\ toModem' = Append(toModem, [type |-> call, seq |-> seq, info |-> wants])
      /\ UNCHANGED <<wants, pc, seq, call, settings, boot, answered, toHost>>
  BY DEF Retry, modemVars
<1>2. call \in Requests /\ seq \in UInt16 /\ seq = 1 /\ Opening
  BY <1>1 DEF Requests, RadioInv, TypeOK, ServeInv, Opening
<1>3. /\ Len(toModem') = Len(toModem) + 1 /\ Len(toModem) \in Nat
      /\ toModem'[Len(toModem) + 1].seq = 1
      /\ \A i \in 1 .. Len(toModem) : toModem'[i] = toModem[i]
      /\ \A k \in Frames(toModem') : \/ k \in Frames(toModem)
                                     \/ k.type = "INFO" /\ k.seq = 1
  BY <1>1, <1>2, RequestFacts
<1>4. \A f \in Frames(toModem) : f.seq <= 1 /\ (f.type = "CONFIG" => f.seq = 3)
  BY <1>2 DEF Opening
<1>5. \A i \in 1 .. Len(toModem) : toModem[i].seq # 4
  BY <1>4 DEF Frames
<1>6. \A i \in 1 .. Len(toModem') : toModem'[i].seq = 4 => i = Len(toModem')
  BY <1>3, <1>5
<1>7. Opening'
  BY <1>1, <1>2, <1>3, <1>4, <1>6 DEF Opening
<1>8. \A f \in Frames(toHost') : ~Confirmation(f)
  BY <1>1, <1>2 DEF Opening, Confirmation
<1> QED
  BY <1>1, <1>7, <1>8 DEF ServeInv

LEMMA ReadAnswerServe == ASSUME RadioInv, ServeInv, ReadAnswer PROVE ServeInv'
<1> DEFINE f == Head(toHost)
<1>1. /\ call # "none" /\ toHost # <<>> /\ toHost' = Tail(toHost)
      /\ UNCHANGED <<wants, seq, settings, boot, answered, toModem>>
      /\ \/ Answers(f) /\ Return(f)
         \/ UNCHANGED <<pc, call>>
  BY DEF ReadAnswer, modemVars
<1>2. f \in Frames(toHost) /\ Frames(toHost') \subseteq Frames(toHost)
  BY <1>1, TakenFrame DEF RadioInv, TypeOK
<1> HIDE DEF f
<1>3. CASE UNCHANGED <<pc, call>>
  <2>1. Opening => Opening'
    BY <1>1, <1>2, <1>3 DEF Opening
  <2> QED
    BY <1>1, <1>2, <1>3, <2>1 DEF ServeInv, SettingsKept
<1>4. CASE Answers(f) /\ Return(f)
  <2>1. call' = "none" /\ f.seq = seq /\ pc # "ended"
    BY <1>1, <1>4 DEF Answers, Return, ServeInv
  <2>2. CASE pc = "ready"
    BY <1>1, <1>4, <2>1, <2>2 DEF Return, ServeInv, SettingsKept
  <2>3. CASE pc # "ready"
    <3>1. Opening
      BY <2>1, <2>3 DEF ServeInv
    <3>2. CASE pc' = "ended"
      BY <1>1, <2>1, <3>2 DEF ServeInv
    <3>3. CASE pc' = "ready"
      <4>1. wants = "set" => pc = "readback" /\ seq = 4 /\ call = "INFO"
        BY <1>1, <1>4, <3>1, <3>3 DEF Return, Opening
      <4>2. wants = "set" => Confirmation(f)
        BY <1>4, <2>1, <3>3, <4>1 DEF Return, Answers, Confirmation
      <4>3. wants = "set" => toModem = <<>> /\ SettingsKept
        BY <1>2, <2>1, <2>3, <4>2 DEF ServeInv
      <4> QED
        BY <1>1, <2>1, <3>3, <4>3, NoFrames DEF ServeInv, SettingsKept
    <3>4. CASE pc' \notin {"ended", "ready"}
      <4>1. \/ pc = "opening" /\ pc' = "info" /\ seq = 1
            \/ wants = "set" /\ pc = "info" /\ pc' = "config" /\ seq = 2
            \/ wants = "set" /\ pc = "config" /\ pc' = "readback" /\ seq = 3
        BY <1>1, <1>4, <3>1, <3>4 DEF Return, Opening
      <4>2. Opening'
        BY <1>1, <1>2, <2>1, <3>1, <4>1 DEF Opening
      <4> QED
        BY <1>1, <1>2, <2>1, <2>3, <3>4, <4>2 DEF ServeInv, SettingsKept
    <3> QED
      BY <3>2, <3>3, <3>4
  <2> QED
    BY <2>2, <2>3
<1> QED
  BY <1>1, <1>3, <1>4

LEMMA TimeoutServe == ASSUME RadioInv, ServeInv, Timeout PROVE ServeInv'
BY DEF Timeout, ServeInv, SettingsKept, modemVars

LEMMA ReceiveServe == ASSUME RadioInv, ServeInv, Receive PROVE ServeInv'
<1>1. /\ pc = "ready" /\ call = "none" /\ pc' \in {"ready", "ended"}
      /\ UNCHANGED <<wants, seq, call, settings, boot, answered, toModem>>
  BY DEF Receive, Handle, modemVars
<1> QED
  BY <1>1 DEF ServeInv, SettingsKept

LEMMA ServeNext == ASSUME RadioInv, ServeInv, [Next]_vars PROVE ServeInv'
<1>1. CASE UNCHANGED vars
  BY <1>1 DEF vars, hostVars, modemVars, ServeInv, SettingsKept, Opening
<1>2. CASE HostStep
  BY <1>2, AskServe, RetryServe, ReadAnswerServe, TimeoutServe, ReceiveServe DEF HostStep
<1>3. CASE ModemStep
  BY <1>3, HandleInfoServe, HandleTXServe, HandleConfigServe, TXEndServe, RXDoneServe,
     ModemResetServe DEF ModemStep
<1> QED
  BY <1>1, <1>2, <1>3, RestServe DEF Next

-----------------------------------------------------------------------------
(***************************************************************************)
(* Transmissions, as long as the sequence number does not wrap.            *)
(***************************************************************************)
NoWrap == MaxSends + 4 < 65536

LEMMA OrderKept ==
  ASSUME RadioInv, OrderInv, LineShrinks, UNCHANGED <<seq, started>> PROVE OrderInv'
<1>1. \A i, j \in 1 .. Len(toModem') :
        i < j /\ toModem'[i].type = "TX" /\ toModem'[j].type = "TX"
          => toModem'[i].seq < toModem'[j].seq
  <2> DEFINE Increasing(l) == \A i, j \in 1 .. Len(l) :
               i < j /\ l[i].type = "TX" /\ l[j].type = "TX" => l[i].seq < l[j].seq
  <2>1. Increasing(toModem)
    BY DEF OrderInv
  <2>2. CASE UNCHANGED toModem
    BY <2>1, <2>2
  <2>3. CASE toModem' = <<>>
    <3>1. Len(toModem') = 0
      BY <2>3, NoFrames
    <3> QED
      BY <3>1
  <2>4. CASE \E k \in 1 .. Len(toModem) :
               /\ Len(toModem) \in Nat /\ Len(toModem') = Len(toModem) - 1
               /\ \A i \in 1 .. Len(toModem) - 1 :
                    toModem'[i] = IF i < k THEN toModem[i] ELSE toModem[i + 1]
    <3>1. PICK k \in 1 .. Len(toModem) :
            /\ Len(toModem) \in Nat /\ Len(toModem') = Len(toModem) - 1
            /\ \A i \in 1 .. Len(toModem) - 1 :
                 toModem'[i] = IF i < k THEN toModem[i] ELSE toModem[i + 1]
      BY <2>4
    <3> SUFFICES ASSUME NEW i \in 1 .. Len(toModem) - 1, NEW j \in 1 .. Len(toModem) - 1,
                        i < j, toModem'[i].type = "TX", toModem'[j].type = "TX"
                 PROVE  toModem'[i].seq < toModem'[j].seq
      BY <3>1
    <3> DEFINE a == IF i < k THEN i ELSE i + 1
               b == IF j < k THEN j ELSE j + 1
    <3>2. a \in 1 .. Len(toModem) /\ b \in 1 .. Len(toModem) /\ a < b
      BY <3>1
    <3>3. toModem'[i] = toModem[a] /\ toModem'[j] = toModem[b]
      BY <3>1
    <3> QED
      BY <2>1, <3>2, <3>3
  <2> QED
    BY <2>2, <2>3, <2>4 DEF LineShrinks
<1>2. Frames(toModem') \subseteq Frames(toModem)
  BY DEF LineShrinks
<1> QED
  BY <1>1, <1>2 DEF OrderInv, TransmittedInOrderOnce

LEMMA AskOrder ==
  ASSUME NoWrap, RadioInv, ServeInv, OrderInv, Synchronise \/ Configure \/ Send
  PROVE  OrderInv'
<1>1. PICK type \in Requests : Ask(type)
  BY DEF Synchronise, Configure, Send, Requests
<1>2. toModem' = Append(toModem, [type |-> type, seq |-> seq', info |-> wants])
      /\ UNCHANGED started
  BY <1>1 DEF Ask, modemVars
<1>3. seq' \in UInt16 /\ seq \in Nat /\ seq' = seq + 1
  <2>1. seq' = (seq + 1) % 65536 /\ seq \in UInt16
    BY <1>1 DEF Ask, RadioInv, TypeOK
  <2>2. /\ seq \in Nat /\ (seq + 1) % 65536 \in UInt16
        /\ seq + 1 < 65536 => (seq + 1) % 65536 = seq + 1
    BY <2>1, SequenceNumbers
  <2>3. seq < 4 \/ seq < MaxSends + 4
    <3>1. CASE Synchronise \/ Configure
      <4>1. call = "none" /\ pc \in {"opening", "info", "config", "readback"}
        BY <1>1, <3>1 DEF Synchronise, Configure, Ask
      <4> QED
        BY <2>2, <4>1 DEF ServeInv, Opening
    <3>2. CASE Send
      BY <2>2, <3>2, LinkAssumption DEF Send
    <3> QED
      BY <3>1, <3>2
  <2>4. seq + 1 < 65536
    BY <2>2, <2>3, LinkAssumption DEF NoWrap
  <2> QED
    BY <2>1, <2>2, <2>4
<1>4. /\ Len(toModem') = Len(toModem) + 1 /\ Len(toModem) \in Nat
      /\ toModem'[Len(toModem) + 1].seq = seq'
      /\ \A i \in 1 .. Len(toModem) : toModem'[i] = toModem[i]
      /\ \A k \in Frames(toModem') : \/ k \in Frames(toModem)
                                     \/ k.type = type /\ k.seq = seq'
  BY <1>2, <1>3, RequestFacts
<1>5. \A f \in Frames(toModem) : f.seq \in Nat /\ (f.type = "TX" => f.seq <= seq)
  BY FramesOnLines DEF OrderInv
<1>6. \A i \in 1 .. Len(toModem) : toModem[i].type = "TX" => toModem[i].seq < seq'
  BY <1>3, <1>5 DEF Frames
<1>7. \A i, j \in 1 .. Len(toModem') :
        i < j /\ toModem'[i].type = "TX" /\ toModem'[j].type = "TX"
          => toModem'[i].seq < toModem'[j].seq
  <2> SUFFICES ASSUME NEW i \in 1 .. Len(toModem) + 1, NEW j \in 1 .. Len(toModem) + 1,
                      i < j, toModem'[i].type = "TX", toModem'[j].type = "TX"
               PROVE  toModem'[i].seq < toModem'[j].seq
    BY <1>4
  <2>1. i \in 1 .. Len(toModem) /\ toModem'[i] = toModem[i]
    BY <1>4
  <2>2. CASE j = Len(toModem) + 1
    BY <1>4, <1>6, <2>1, <2>2
  <2>3. CASE j # Len(toModem) + 1
    <3>1. j \in 1 .. Len(toModem) /\ toModem'[j] = toModem[j]
      BY <1>4, <2>3
    <3> QED
      BY <2>1, <3>1 DEF OrderInv
  <2> QED
    BY <2>2, <2>3
<1>8. started \in Seq(UInt16) /\ \A i \in 1 .. Len(started) : started[i] \in Nat /\ started[i] <= seq
  <2>1. started \in [1 .. Len(started) -> UInt16]
    BY LenProperties DEF OrderInv
  <2> QED
    BY <2>1, SequenceNumbers DEF OrderInv
<1>9. \A i \in 1 .. Len(started) : started[i] < seq' /\ started[i] <= seq'
  BY <1>3, <1>8
<1>10. ASSUME NEW f \in Frames(toModem'), f.type = "TX"
       PROVE  f.seq <= seq' /\ \A i \in 1 .. Len(started) : started[i] < f.seq
  <2>1. CASE f \in Frames(toModem)
    <3>1. f.seq <= seq /\ f.seq \in Nat
      BY <1>5, <1>10, <2>1
    <3>2. f.seq <= seq'
      BY <1>3, <3>1
    <3> QED
      BY <1>10, <2>1, <3>2 DEF OrderInv
  <2>2. CASE f.seq = seq'
    BY <1>3, <1>9, <2>2
  <2> QED
    BY <1>4, <2>1, <2>2
<1> QED
  BY <1>2, <1>7, <1>8, <1>9, <1>10 DEF OrderInv, TransmittedInOrderOnce

LEMMA RetryOrder == ASSUME RadioInv, OrderInv, Retry PROVE OrderInv'
<1>1. /\ call = "INFO" /\ UNCHANGED <<seq, started>>
      /\ toModem' = Append(toModem, [type |-> call, seq |-> seq, info |-> wants])
  BY DEF Retry, modemVars
<1>2. call \in Requests /\ seq \in UInt16
  BY <1>1 DEF Requests, RadioInv, TypeOK
<1>3. /\ Len(toModem') = Len(toModem) + 1 /\ Len(toModem) \in Nat
      /\ toModem'[Len(toModem) + 1].type = "INFO"
      /\ \A i \in 1 .. Len(toModem) : toModem'[i] = toModem[i]
      /\ \A k \in Frames(toModem') : k \in Frames(toModem) \/ k.type = "INFO"
  BY <1>1, <1>2, RequestFacts
<1>4. \A i, j \in 1 .. Len(toModem') :
        i < j /\ toModem'[i].type = "TX" /\ toModem'[j].type = "TX"
          => toModem'[i].seq < toModem'[j].seq
  <2> SUFFICES ASSUME NEW i \in 1 .. Len(toModem) + 1, NEW j \in 1 .. Len(toModem) + 1,
                      i < j, toModem'[i].type = "TX", toModem'[j].type = "TX"
               PROVE  toModem'[i].seq < toModem'[j].seq
    BY <1>3
  <2>1. i # Len(toModem) + 1 /\ j # Len(toModem) + 1
    BY <1>3
  <2>2. i \in 1 .. Len(toModem) /\ j \in 1 .. Len(toModem)
    BY <1>3, <2>1
  <2> QED
    BY <1>3, <2>2 DEF OrderInv
<1> QED
  BY <1>1, <1>3, <1>4 DEF OrderInv, TransmittedInOrderOnce

(***************************************************************************)
(* A transmission begins with the request that was first in the line.      *)
(***************************************************************************)
LEMMA HandleTXOrder == ASSUME RadioInv, OrderInv, HandleTX PROVE OrderInv'
<1> DEFINE s == Head(toModem).seq
<1>1. /\ Command("TX") /\ UNCHANGED seq
      /\ started' = Append(started, s) \/ UNCHANGED started
  BY DEF HandleTX, hostVars
<1>2. LineShrinks
  BY <1>1, CommandShrinks
<1>3. CASE UNCHANGED started
  BY <1>1, <1>2, <1>3, OrderKept
<1>4. CASE started' = Append(started, s)
  <2>1. /\ Head(toModem) \in Frames(toModem) /\ Head(toModem).type = "TX" /\ s \in UInt16
        /\ toModem[1] = Head(toModem) /\ Len(toModem) \in Nat \ {0}
        /\ Len(toModem') = Len(toModem) - 1
        /\ \A i \in 1 .. Len(toModem) - 1 : toModem'[i] = toModem[i + 1]
    BY <1>1, CommandFacts
  <2>2. s <= seq /\ \A i \in 1 .. Len(started) : started[i] < s
    BY <2>1 DEF OrderInv
  <2>3. ASSUME NEW f \in Frames(toModem'), f.type = "TX" PROVE s < f.seq
    <3>1. PICK i \in 1 .. Len(toModem) - 1 : f = toModem[i + 1]
      BY <2>1 DEF Frames
    <3>2. i + 1 \in 1 .. Len(toModem) /\ 1 \in 1 .. Len(toModem) /\ 1 < i + 1
      BY <2>1
    <3> QED
      BY <2>1, <2>3, <3>1, <3>2 DEF OrderInv
  <2> HIDE DEF s
  <2>4. started \in Seq(UInt16)
    BY DEF OrderInv
  <2>5. /\ started' \in Seq(UInt16) /\ Len(started') = Len(started) + 1 /\ Len(started) \in Nat
        /\ started'[Len(started) + 1] = s
        /\ \A i \in 1 .. Len(started) : started'[i] = started[i]
    BY <1>4, <2>1, <2>4, AppendProperties, LenProperties
  <2>6. \A i \in 1 .. Len(started') : i \in 1 .. Len(started) \/ i = Len(started) + 1
    BY <2>5
  <2>7. \A i \in 1 .. Len(started') : started'[i] <= seq'
    BY <1>1, <2>2, <2>5, <2>6 DEF OrderInv
  <2>8. \A i, j \in 1 .. Len(started') : i < j => started'[i] < started'[j]
    <3> SUFFICES ASSUME NEW i \in 1 .. Len(started'), NEW j \in 1 .. Len(started'), i < j
                 PROVE  started'[i] < started'[j]
      OBVIOUS
    <3>1. i \in 1 .. Len(started) /\ started'[i] = started[i]
      BY <2>5
    <3>2. CASE j \in 1 .. Len(started)
      BY <2>5, <3>1, <3>2 DEF OrderInv, TransmittedInOrderOnce
    <3>3. CASE j = Len(started) + 1
      BY <2>2, <2>5, <3>1, <3>3
    <3> QED
      BY <2>6, <3>2, <3>3
  <2>9. ASSUME NEW f \in Frames(toModem'), f.type = "TX"
        PROVE  f.seq <= seq' /\ \A i \in 1 .. Len(started') : started'[i] < f.seq
    <3>1. f \in Frames(toModem)
      BY <1>2 DEF LineShrinks
    <3>2. /\ f.seq <= seq' /\ s < f.seq
          /\ \A i \in 1 .. Len(started) : started[i] < f.seq
      BY <1>1, <2>3, <2>9, <3>1 DEF OrderInv
    <3> QED
      BY <2>5, <2>6, <3>2
  <2>10. \A i, j \in 1 .. Len(toModem') :
           i < j /\ toModem'[i].type = "TX" /\ toModem'[j].type = "TX"
             => toModem'[i].seq < toModem'[j].seq
    <3> SUFFICES ASSUME NEW i \in 1 .. Len(toModem) - 1, NEW j \in 1 .. Len(toModem) - 1,
                        i < j, toModem'[i].type = "TX", toModem'[j].type = "TX"
                 PROVE  toModem'[i].seq < toModem'[j].seq
      BY <2>1
    <3>1. /\ i + 1 \in 1 .. Len(toModem) /\ j + 1 \in 1 .. Len(toModem) /\ i + 1 < j + 1
          /\ toModem'[i] = toModem[i + 1] /\ toModem'[j] = toModem[j + 1]
      BY <2>1
    <3> QED
      BY <3>1 DEF OrderInv
  <2> QED
    BY <2>5, <2>7, <2>8, <2>9, <2>10 DEF OrderInv, TransmittedInOrderOnce
<1> QED
  BY <1>1, <1>3, <1>4

LEMMA OtherOrder ==
  ASSUME RadioInv, OrderInv,
         \/ ReadAnswer \/ Timeout \/ Receive \/ UNCHANGED vars
         \/ HandleInfo \/ HandleConfig \/ TXTimeout \/ TXDone \/ RXDone \/ ModemReset
         \/ HearPacket \/ FinishSending \/ LoseFrame
  PROVE  OrderInv'
<1>1. UNCHANGED <<seq, started>>
  BY DEF ReadAnswer, Timeout, Receive, vars, hostVars, modemVars, HandleInfo, HandleConfig,
         TXTimeout, TXDone, RXDone, ModemReset, HearPacket, FinishSending, LoseFrame
<1>2. LineShrinks
  <2>1. CASE HandleInfo \/ HandleConfig
    BY <2>1, CommandShrinks DEF HandleInfo, HandleConfig
  <2>2. CASE ModemReset
    BY <2>2, NoFrames DEF ModemReset, LineShrinks
  <2>3. CASE LoseFrame
    BY <2>3, LoseFrameFacts DEF LineShrinks
  <2>4. CASE \/ ReadAnswer \/ Timeout \/ Receive \/ UNCHANGED vars
             \/ TXTimeout \/ TXDone \/ RXDone \/ HearPacket \/ FinishSending
    BY <2>4 DEF ReadAnswer, Timeout, Receive, vars, TXTimeout, TXDone, RXDone, HearPacket,
                FinishSending, LineShrinks
  <2> QED
    BY <2>1, <2>2, <2>3, <2>4
<1> QED
  BY <1>1, <1>2, OrderKept

LEMMA OrderNext ==
  ASSUME NoWrap, RadioInv, ServeInv, OrderInv, [Next]_vars PROVE OrderInv'
BY AskOrder, RetryOrder, HandleTXOrder, OtherOrder DEF Next, HostStep, ModemStep

-----------------------------------------------------------------------------
(***************************************************************************)
(* The start: the lines are empty, nothing is being asked or sent.         *)
(***************************************************************************)
LEMMA InitInv == ASSUME Init PROVE RadioInv /\ ServeInv /\ OrderInv
<1>1. \A S : <<>> \in Seq(S)
  BY NoFrames
<1>2. 0 \in UInt16
  BY DEF UInt16
<1>3. RadioInv
  <2>1. pending \in Seq(Frame) /\ toModem \in Seq(Frame) /\ toHost \in Seq(Frame)
    BY <1>1 DEF Init
  <2>2. 0 <= MaxFaults /\ 0 <= MaxRetries
    BY LinkAssumption
  <2>3. TypeOK
    BY <1>2, <2>1, <2>2 DEF Init, TypeOK
  <2> QED
    BY <2>3, NoFrames DEF Init, RadioInv, SentMeansOnAir
<1>4. ServeInv
  BY NoFrames DEF Init, ServeInv, Opening
<1>5. OrderInv
  BY <1>1, NoFrames DEF Init, OrderInv, TransmittedInOrderOnce
<1> QED
  BY <1>3, <1>4, <1>5

(***************************************************************************)
(* The radio's invariant and the opening's hold together: which answers    *)
(* the line may hold, so that reading one tells the host the truth.        *)
(***************************************************************************)
THEOREM LinkInvariant == Spec => [](RadioInv /\ ServeInv)
<1>1. Init => RadioInv /\ ServeInv
  BY InitInv
<1>2. RadioInv /\ ServeInv /\ [Next]_vars => (RadioInv /\ ServeInv)'
  BY RadioNext, ServeNext
<1> QED
  BY <1>1, <1>2, PTL DEF Spec

(***************************************************************************)
(* The host, the lines and the firmware keep their shape; in particular    *)
(* the firmware believes it is receiving exactly when the SX1262 listens   *)
(* (startReceive, handleTxRequest, handleSetConfig of main.cpp).           *)
(***************************************************************************)
THEOREM LinkTypeOK == Spec => []TypeOK
<1>1. RadioInv => TypeOK
  BY DEF RadioInv
<1> QED
  BY <1>1, LinkInvariant, PTL

(***************************************************************************)
(* A packet whose sending was reported without an error left the antenna,  *)
(* unless another packet's interrupt was taken for the end of its          *)
(* transmission (Radio.Send, handleRadio), even when numbers wrap.         *)
(***************************************************************************)
THEOREM SentMeansAlwaysOnAir == Spec => []SentMeansOnAir
<1>1. RadioInv => SentMeansOnAir
  BY DEF RadioInv
<1> QED
  BY <1>1, LinkInvariant, PTL

(***************************************************************************)
(* A host serves on a modem that has its settings, until the modem is      *)
(* reset (configureModem, confirmRadioStatus, handleSetConfig).            *)
(***************************************************************************)
THEOREM AlwaysServesConfigured == Spec => []ServesConfigured
<1>1. RadioInv /\ ServeInv => ServesConfigured
  BY DEF RadioInv, TypeOK, ServeInv, SettingsKept, ServesConfigured
<1> QED
  BY <1>1, LinkInvariant, PTL

(***************************************************************************)
(* No request is transmitted twice or out of turn, whatever times out, is  *)
(* lost or is repeated, until the sequence number of the client wraps      *)
(* (client.go request, handleTxRequest): MaxSends bounds the requests.     *)
(***************************************************************************)
THEOREM AlwaysTransmittedInOrderOnce ==
  ASSUME NoWrap PROVE Spec => []TransmittedInOrderOnce
<1>1. Init => RadioInv /\ ServeInv /\ OrderInv
  BY InitInv
<1>2. RadioInv /\ ServeInv /\ OrderInv /\ [Next]_vars => (RadioInv /\ ServeInv /\ OrderInv)'
  BY RadioNext, ServeNext, OrderNext
<1>3. OrderInv => TransmittedInOrderOnce
  BY DEF OrderInv
<1> QED
  BY <1>1, <1>2, <1>3, PTL DEF Spec

-----------------------------------------------------------------------------
(***************************************************************************)
(* Packets on a line.  line2 is line without its frame at j.               *)
(***************************************************************************)
Without(line, j, line2) ==
  /\ Len(line2) = Len(line) - 1
  /\ \A i \in 1 .. Len(line) - 1 : line2[i] = IF i < j THEN line[i] ELSE line[i + 1]

LEMMA Rest ==
  ASSUME NEW past, NEW all, NEW line, Len(past) <= Len(all),
         \A k \in 1 .. Len(past) : past[k] = all[k],
         NEW at \in [Len(past) + 1 .. Len(all) -> PacketsOn(line)],
         \A k, l \in Len(past) + 1 .. Len(all) : k < l => at[k] < at[l],
         \A i \in PacketsOn(line) : \E k \in Len(past) + 1 .. Len(all) : at[k] = i,
         \A k \in Len(past) + 1 .. Len(all) : line[at[k]].info = all[k]
  PROVE  Continues(past, line, all)
<1>1. DOMAIN at = Len(past) + 1 .. Len(all)
  OBVIOUS
<1> QED
  BY <1>1, ZenonT(30) DEF Continues

LEMMA Positions ==
  ASSUME NEW past, NEW all, NEW line, Continues(past, line, all)
  PROVE  \E at \in [Len(past) + 1 .. Len(all) -> PacketsOn(line)] :
           /\ \A k, l \in Len(past) + 1 .. Len(all) : k < l => at[k] < at[l]
           /\ \A i \in PacketsOn(line) : \E k \in Len(past) + 1 .. Len(all) : at[k] = i
           /\ \A k \in Len(past) + 1 .. Len(all) : line[at[k]].info = all[k]
<1>1. PICK at \in [Len(past) + 1 .. Len(all) -> PacketsOn(line)] :
        /\ \A k, l \in DOMAIN at : k < l => at[k] < at[l]
        /\ \A i \in PacketsOn(line) : \E k \in DOMAIN at : at[k] = i
        /\ \A k \in DOMAIN at : line[at[k]].info = all[k]
  BY DEF Continues
<1>2. DOMAIN at = Len(past) + 1 .. Len(all)
  OBVIOUS
<1> QED
  BY <1>1, <1>2, ZenonT(30)

LEMMA AnotherFrameGone ==
  ASSUME NEW past, NEW all, NEW line, NEW line2, NEW j \in 1 .. Len(line),
         {Len(past), Len(all), Len(line)} \subseteq Nat,
         Continues(past, line, all), Without(line, j, line2), line[j].type # "RX"
  PROVE  Continues(past, line2, all)
<1> DEFINE K == Len(past) + 1 .. Len(all)
<1>1. PICK at \in [K -> PacketsOn(line)] :
        /\ \A k, l \in K : k < l => at[k] < at[l]
        /\ \A i \in PacketsOn(line) : \E k \in K : at[k] = i
        /\ \A k \in K : line[at[k]].info = all[k]
  BY Positions
<1> DEFINE moved == [k \in K |-> IF at[k] < j THEN at[k] ELSE at[k] - 1]
<1>2. \A k \in K : /\ at[k] \in 1 .. Len(line) /\ at[k] # j /\ line[at[k]].type = "RX"
                   /\ moved[k] \in 1 .. Len(line2)
                   /\ line2[moved[k]] = line[at[k]]
  <2> TAKE k \in K
  <2>1. at[k] \in 1 .. Len(line) /\ at[k] # j /\ line[at[k]].type = "RX"
    BY <1>1 DEF PacketsOn
  <2>2. moved[k] = IF at[k] < j THEN at[k] ELSE at[k] - 1
    OBVIOUS
  <2> HIDE DEF moved, K
  <2>3. CASE at[k] < j
    <3>1. moved[k] = at[k] /\ moved[k] \in 1 .. Len(line) - 1
      BY <2>1, <2>2, <2>3
    <3> QED
      BY <2>1, <2>3, <3>1 DEF Without
  <2>4. CASE ~(at[k] < j)
    <3>1. moved[k] = at[k] - 1 /\ moved[k] \in 1 .. Len(line) - 1 /\ ~(moved[k] < j)
      BY <2>1, <2>2, <2>4
    <3> QED
      BY <2>1, <3>1 DEF Without
  <2> QED
    BY <2>3, <2>4
<1>3. moved \in [K -> PacketsOn(line2)]
  BY <1>2 DEF PacketsOn
<1>4. \A k, l \in K : k < l => moved[k] < moved[l]
  BY <1>1, <1>2
<1>5. \A i \in PacketsOn(line2) : \E k \in K : moved[k] = i
  <2> TAKE i \in PacketsOn(line2)
  <2> DEFINE old == IF i < j THEN i ELSE i + 1
  <2>1. old \in PacketsOn(line)
    BY DEF PacketsOn, Without
  <2>2. PICK k \in K : at[k] = old
    BY <1>1, <2>1
  <2> QED
    BY <2>2 DEF PacketsOn
<1>6. \A k \in K : line2[moved[k]].info = all[k]
  BY <1>1, <1>2
<1>7. Len(past) <= Len(all) /\ \A k \in 1 .. Len(past) : past[k] = all[k]
  BY DEF Continues
<1> HIDE DEF moved
<1> QED
  BY <1>3, <1>4, <1>5, <1>6, <1>7, Rest

(***************************************************************************)
(* A frame put on: the packets in line are as before, or it is one more.   *)
(***************************************************************************)
LEMMA FrameAdded ==
  ASSUME NEW past, NEW all, NEW all2, NEW line, NEW line2,
         {Len(past), Len(all), Len(line)} \subseteq Nat,
         Continues(past, line, all),
         Len(line2) = Len(line) + 1, \A i \in 1 .. Len(line) : line2[i] = line[i],
         IF line2[Len(line) + 1].type = "RX"
         THEN /\ Len(all2) = Len(all) + 1 /\ all2[Len(all) + 1] = line2[Len(line) + 1].info
              /\ \A k \in 1 .. Len(all) : all2[k] = all[k]
         ELSE all2 = all
  PROVE  Continues(past, line2, all2)
<1> DEFINE n == Len(line) + 1
           K == Len(past) + 1 .. Len(all)
           L == Len(past) + 1 .. Len(all2)
<1>1. PICK at \in [K -> PacketsOn(line)] :
        /\ \A k, l \in K : k < l => at[k] < at[l]
        /\ \A i \in PacketsOn(line) : \E k \in K : at[k] = i
        /\ \A k \in K : line[at[k]].info = all[k]
  BY Positions
<1>2. /\ Len(past) <= Len(all) /\ \A k \in 1 .. Len(past) : past[k] = all[k]
      /\ \A k \in K : at[k] \in 1 .. Len(line) /\ at[k] \in PacketsOn(line2)
                      /\ line2[at[k]].info = all[k]
  BY <1>1 DEF Continues, PacketsOn
<1>3. CASE line2[n].type # "RX"
  <2>1. PacketsOn(line2) = PacketsOn(line)
    BY <1>3 DEF PacketsOn
  <2>2. all2 = all /\ \A k \in K : line2[at[k]].info = all[k]
    BY <1>2, <1>3
  <2>3. at \in [K -> PacketsOn(line2)] /\ \A i \in PacketsOn(line2) : \E k \in K : at[k] = i
    BY <1>1, <2>1
  <2>4. Continues(past, line2, all)
    BY <1>1, <1>2, <2>2, <2>3, Rest
  <2> QED
    BY <2>2, <2>4
<1>4. CASE line2[n].type = "RX"
  <2>1. /\ Len(all2) = Len(all) + 1 /\ all2[Len(all) + 1] = line2[n].info
        /\ \A k \in 1 .. Len(all) : all2[k] = all[k]
    BY <1>4
  <2>2. n \in PacketsOn(line2) /\ PacketsOn(line2) = PacketsOn(line) \cup {n}
    BY <1>4 DEF PacketsOn
  <2> DEFINE longer == [k \in L |-> IF k \in K THEN at[k] ELSE n]
  <2>3. /\ L = K \cup {Len(all) + 1} /\ Len(all) + 1 \notin K
        /\ \A k \in L : k # Len(all) + 1 => k \in K /\ k < Len(all) + 1 /\ k \in 1 .. Len(all)
    BY <1>2, <2>1
  <2>4. longer \in [L -> PacketsOn(line2)]
    BY <1>2, <2>2
  <2>5. \A k \in L : longer[k] = IF k \in K THEN at[k] ELSE n
    OBVIOUS
  <2> HIDE DEF longer, K, L
  <2>6. \A k, l \in L : k < l => longer[k] < longer[l]
    BY <1>1, <1>2, <2>3, <2>5
  <2>7. \A i \in PacketsOn(line2) : \E k \in L : longer[k] = i
    BY <1>1, <2>2, <2>3, <2>5
  <2>8. \A k \in L : line2[longer[k]].info = all2[k]
    BY <1>2, <2>1, <2>3, <2>5
  <2>9. Len(past) <= Len(all2) /\ \A k \in 1 .. Len(past) : past[k] = all2[k]
    BY <1>2, <2>1
  <2> USE DEF L
  <2> QED
    BY <2>4, <2>6, <2>7, <2>8, <2>9, Rest
<1> QED
  BY <1>3, <1>4

(***************************************************************************)
(* The first frame is a packet, and is delivered.                          *)
(***************************************************************************)
LEMMA FirstDelivered ==
  ASSUME NEW past, NEW past2, NEW all, NEW line, NEW line2,
         {Len(past), Len(all), Len(line)} \subseteq Nat, Len(line) > 0,
         Continues(past, line, all), Without(line, 1, line2), line[1].type = "RX",
         Len(past2) = Len(past) + 1, past2[Len(past) + 1] = line[1].info,
         \A k \in 1 .. Len(past) : past2[k] = past[k]
  PROVE  Continues(past2, line2, all)
<1> DEFINE K == Len(past) + 1 .. Len(all)
           L == Len(past2) + 1 .. Len(all)
<1>1. PICK at \in [K -> PacketsOn(line)] :
        /\ \A k, l \in K : k < l => at[k] < at[l]
        /\ \A i \in PacketsOn(line) : \E k \in K : at[k] = i
        /\ \A k \in K : line[at[k]].info = all[k]
  BY Positions
<1>2. /\ Len(past) <= Len(all) /\ \A k \in 1 .. Len(past) : past[k] = all[k]
      /\ \A k \in K : at[k] \in 1 .. Len(line) /\ line[at[k]].type = "RX"
      /\ \A i \in PacketsOn(line2) : i \in 1 .. Len(line) - 1 /\ line2[i].type = "RX"
      /\ 1 \in PacketsOn(line)
  BY <1>1 DEF Continues, PacketsOn, Without
<1> DEFINE first == Len(past) + 1
<1>3. first \in K /\ at[first] = 1
  <2>1. PICK k \in K : at[k] = 1
    BY <1>1, <1>2
  <2>2. ~(first < k)
    <3>1. first < k => first \in K /\ at[first] < 1 /\ at[first] \in 1 .. Len(line)
      BY <1>1, <1>2, <2>1
    <3> QED
      BY <3>1
  <2> QED
    BY <2>1, <2>2
<1>4. \A k \in L : k \in K /\ first < k /\ at[k] > 1
  BY <1>1, <1>2, <1>3
<1> DEFINE moved == [k \in L |-> at[k] - 1]
<1>5. \A k \in L : moved[k] \in 1 .. Len(line2) /\ line2[moved[k]] = line[at[k]]
  BY <1>2, <1>4 DEF Without
<1>6. moved \in [L -> PacketsOn(line2)]
  BY <1>2, <1>4, <1>5 DEF PacketsOn
<1>7. \A k, l \in L : k < l => moved[k] < moved[l]
  BY <1>1, <1>2, <1>4
<1>8. \A i \in PacketsOn(line2) : \E k \in L : moved[k] = i
  <2> TAKE i \in PacketsOn(line2)
  <2>1. i + 1 \in PacketsOn(line)
    BY <1>2 DEF PacketsOn, Without
  <2>2. PICK k \in K : at[k] = i + 1
    BY <1>1, <2>1
  <2>3. k # first /\ k \in L
    BY <1>2, <1>3, <2>2
  <2> QED
    BY <1>2, <2>2, <2>3
<1>9. \A k \in L : line2[moved[k]].info = all[k]
  BY <1>1, <1>4, <1>5
<1>10. Len(past2) <= Len(all) /\ \A k \in 1 .. Len(past2) : past2[k] = all[k]
  <2>1. all[first] = past2[first]
    BY <1>1, <1>3
  <2> QED
    BY <1>2, <1>3, <2>1
<1> HIDE DEF moved
<1> QED
  BY <1>6, <1>7, <1>8, <1>9, <1>10, Rest

(***************************************************************************)
(* A packet's frame is damaged: what was heard does not count it.          *)
(***************************************************************************)
LEMMA PacketLost ==
  ASSUME NEW past, NEW all, NEW all2, NEW line, NEW line2,
         NEW j \in 1 .. Len(line), NEW m \in 1 .. Len(all),
         {Len(past), Len(all), Len(line)} \subseteq Nat,
         Continues(past, line, all), Without(line, j, line2), line[j].type = "RX",
         all[m] = line[j].info, \A k, l \in 1 .. Len(all) : all[k] = all[l] => k = l,
         Without(all, m, all2)
  PROVE  Continues(past, line2, all2)
<1> DEFINE K == Len(past) + 1 .. Len(all)
           L == Len(past) + 1 .. Len(all2)
<1>1. PICK at \in [K -> PacketsOn(line)] :
        /\ \A k, l \in K : k < l => at[k] < at[l]
        /\ \A i \in PacketsOn(line) : \E k \in K : at[k] = i
        /\ \A k \in K : line[at[k]].info = all[k]
  BY Positions
<1>2. /\ Len(past) <= Len(all) /\ \A k \in 1 .. Len(past) : past[k] = all[k]
      /\ \A k \in K : at[k] \in 1 .. Len(line) /\ line[at[k]].type = "RX"
      /\ j \in PacketsOn(line)
  BY <1>1 DEF Continues, PacketsOn
<1>3. m \in K /\ at[m] = j
  <2>1. PICK k \in K : at[k] = j
    BY <1>1, <1>2
  <2>2. all[k] = all[m] /\ k \in 1 .. Len(all)
    BY <1>1, <2>1
  <2> QED
    BY <2>1, <2>2
<1> DEFINE from(k) == IF k < m THEN k ELSE k + 1
<1>4. \A k \in L : from(k) \in K /\ all2[k] = all[from(k)]
  BY <1>2, <1>3 DEF Without
<1>5. \A k \in L : IF k < m THEN at[from(k)] < j ELSE at[from(k)] > j
  BY <1>1, <1>2, <1>3, <1>4
<1>6. \A k, l \in L : k < l => from(k) < from(l)
  OBVIOUS
<1>7. \A k \in K : k # m => \E l \in L : from(l) = k
  <2> TAKE k \in K
  <2>1. CASE k < m
    <3>1. k \in L /\ from(k) = k
      BY <1>3, <2>1 DEF Without
    <3> QED
      BY <3>1
  <2>2. CASE m < k
    <3>1. k - 1 \in L /\ from(k - 1) = k
      BY <1>3, <2>2 DEF Without
    <3> QED
      BY <3>1
  <2> QED
    BY <1>3, <2>1, <2>2
<1> HIDE DEF from
<1> DEFINE moved == [k \in L |-> IF k < m THEN at[from(k)] ELSE at[from(k)] - 1]
<1>8. /\ moved \in [L -> PacketsOn(line2)]
      /\ \A k \in L : line2[moved[k]].info = all2[k]
  <2>1. \A k \in L : /\ at[from(k)] \in 1 .. Len(line) /\ line[at[from(k)]].type = "RX"
                     /\ line[at[from(k)]].info = all2[k]
    BY <1>1, <1>2, <1>4
  <2>2. \A k \in L : moved[k] \in 1 .. Len(line2) /\ line2[moved[k]] = line[at[from(k)]]
    <3> SUFFICES ASSUME NEW k \in L
                 PROVE  moved[k] \in 1 .. Len(line2) /\ line2[moved[k]] = line[at[from(k)]]
      OBVIOUS
    <3>1. CASE k < m
      <4>1. moved[k] = at[from(k)] /\ at[from(k)] < j
        BY <1>5, <3>1
      <4> DEFINE n == at[from(k)]
      <4>2. n \in 1 .. Len(line) - 1 /\ n < j
        BY <2>1, <4>1
      <4> HIDE DEF n
      <4>3. line2[n] = line[n] /\ n \in 1 .. Len(line2)
        BY <4>2 DEF Without
      <4> QED
        BY <4>1, <4>3 DEF n
    <3>2. CASE ~(k < m)
      <4>1. moved[k] = at[from(k)] - 1 /\ at[from(k)] > j
        BY <1>5, <3>2
      <4> DEFINE n == at[from(k)]
      <4>2. n - 1 \in 1 .. Len(line) - 1 /\ ~(n - 1 < j) /\ (n - 1) + 1 = n
        BY <2>1, <4>1
      <4> HIDE DEF n
      <4>3. line2[n - 1] = line[n] /\ n - 1 \in 1 .. Len(line2)
        BY <4>2 DEF Without
      <4> QED
        BY <4>1, <4>3 DEF n
    <3> QED
      BY <3>1, <3>2
  <2>3. moved = [k \in L |-> moved[k]]
    OBVIOUS
  <2> HIDE DEF moved, L
  <2>4. \A k \in L : moved[k] \in PacketsOn(line2)
    BY <2>1, <2>2 DEF PacketsOn
  <2>5. moved \in [L -> PacketsOn(line2)]
    BY <2>3, <2>4
  <2>6. \A k \in L : line2[moved[k]].info = all2[k]
    BY <2>1, <2>2
  <2> QED
    BY <2>5, <2>6
<1>9. \A k, l \in L : k < l => moved[k] < moved[l]
  <2> SUFFICES ASSUME NEW k \in L, NEW l \in L, k < l PROVE moved[k] < moved[l]
    OBVIOUS
  <2>1. at[from(k)] < at[from(l)] /\ at[from(k)] \in 1 .. Len(line) /\ at[from(l)] \in 1 .. Len(line)
    BY <1>1, <1>2, <1>4, <1>6
  <2>2. /\ moved[k] = IF k < m THEN at[from(k)] ELSE at[from(k)] - 1
        /\ moved[l] = IF l < m THEN at[from(l)] ELSE at[from(l)] - 1
    OBVIOUS
  <2> HIDE DEF moved
  <2>3. (k < m => at[from(k)] < j) /\ (~(l < m) => at[from(l)] > j) /\ (l < m => k < m)
    BY <1>5
  <2> QED
    BY <2>1, <2>2, <2>3
<1>10. \A i \in PacketsOn(line2) : \E k \in L : moved[k] = i
  <2> TAKE i \in PacketsOn(line2)
  <2> DEFINE old == IF i < j THEN i ELSE i + 1
  <2>1. old \in PacketsOn(line) /\ old # j /\ i \in Nat
    BY DEF PacketsOn, Without
  <2>2. PICK k \in K : at[k] = old
    BY <1>1, <2>1
  <2>3. PICK l \in L : from(l) = k
    BY <1>3, <1>7, <2>1, <2>2
  <2>4. moved[l] = IF l < m THEN old ELSE old - 1
    BY <2>2, <2>3
  <2>5. IF l < m THEN old < j ELSE old > j
    BY <1>5, <2>2, <2>3
  <2> QED
    BY <2>1, <2>4, <2>5
<1>11. Len(past) <= Len(all2) /\ \A k \in 1 .. Len(past) : past[k] = all2[k]
  BY <1>2, <1>3 DEF Without
<1> HIDE DEF moved
<1> QED
  BY <1>8, <1>9, <1>10, <1>11, Rest
-----------------------------------------------------------------------------
(***************************************************************************)
(* Each packet is heard once: what the interrupt announces has not been    *)
(* reported yet.                                                           *)
(***************************************************************************)
Infos == Packets \cup {"default", "set", "failed", "failedSet", "ok", "busy", "unreadable"}

PacketInv ==
  /\ reported \in Seq(Packets) /\ delivered \in Seq(Infos)
  /\ \A k, l \in 1 .. Len(reported) : reported[k] = reported[l] => k = l
  /\ irq /\ radio = "receiving" /\ buffer # "unreadable" =>
       \A k \in 1 .. Len(reported) : reported[k] # buffer
  /\ PacketsInOrder

-----------------------------------------------------------------------------
(***************************************************************************)
(* The packets of pending and of the line from the modem are one line.     *)
(***************************************************************************)
LEMMA Joined ==
  ASSUME NEW S, NEW s \in Seq(S), NEW t \in Seq(S)
  PROVE  /\ s \o t \in Seq(S) /\ Len(s) \in Nat /\ Len(t) \in Nat
         /\ Len(s \o t) = Len(s) + Len(t)
         /\ \A i \in 1 .. Len(s) + Len(t) :
              (s \o t)[i] = IF i <= Len(s) THEN s[i] ELSE t[i - Len(s)]
BY ConcatProperties, LenProperties

\* one frame less behind
LEMMA JoinedWithout ==
  ASSUME NEW S, NEW s \in Seq(S), NEW t \in Seq(S), NEW u \in Seq(S), NEW k \in 1 .. Len(t),
         Without(t, k, u)
  PROVE  /\ Len(s) + k \in 1 .. Len(s \o t) /\ (s \o t)[Len(s) + k] = t[k]
         /\ Without(s \o t, Len(s) + k, s \o u)
<1>1. /\ Len(s) \in Nat /\ Len(t) \in Nat /\ Len(u) = Len(t) - 1
      /\ Len(s \o t) = Len(s) + Len(t) /\ Len(s \o u) = Len(s) + Len(u)
      /\ \A i \in 1 .. Len(s) + Len(t) :
           (s \o t)[i] = IF i <= Len(s) THEN s[i] ELSE t[i - Len(s)]
      /\ \A i \in 1 .. Len(s) + Len(u) :
           (s \o u)[i] = IF i <= Len(s) THEN s[i] ELSE u[i - Len(s)]
  BY Joined DEF Without
<1>2. Len(s) + k \in 1 .. Len(s \o t) /\ (s \o t)[Len(s) + k] = t[k]
  <2>1. Len(s) + k \in 1 .. Len(s) + Len(t) /\ ~(Len(s) + k <= Len(s)) /\ (Len(s) + k) - Len(s) = k
    BY <1>1
  <2> QED
    BY <1>1, <2>1
<1>3. ASSUME NEW i \in 1 .. Len(s \o t) - 1
      PROVE  (s \o u)[i] = IF i < Len(s) + k THEN (s \o t)[i] ELSE (s \o t)[i + 1]
  <2>1. i \in 1 .. Len(s) + Len(t) /\ i + 1 \in 1 .. Len(s) + Len(t) /\ i \in 1 .. Len(s) + Len(u)
    BY <1>1
  <2>2. CASE i <= Len(s)
    BY <1>1, <2>1, <2>2
  <2>3. CASE ~(i <= Len(s))
    <3> DEFINE n == i - Len(s)
    <3>1. n \in 1 .. Len(t) - 1 /\ (i + 1) - Len(s) = n + 1 /\ ~(i + 1 <= Len(s))
      BY <1>1, <2>1, <2>3
    <3>2. /\ (s \o u)[i] = u[n] /\ (s \o t)[i] = t[n] /\ (s \o t)[i + 1] = t[n + 1]
      BY <1>1, <2>1, <2>3, <3>1
    <3>3. u[n] = IF n < k THEN t[n] ELSE t[n + 1]
      BY <3>1 DEF Without
    <3>4. n < k <=> i < Len(s) + k
      BY <1>1, <2>1
    <3> QED
      BY <3>2, <3>3, <3>4
  <2> QED
    BY <2>2, <2>3
<1> QED
  BY <1>1, <1>2, <1>3 DEF Without

LEMMA JoinedWithoutFirst ==
  ASSUME NEW S, NEW s \in Seq(S), NEW t \in Seq(S), NEW u \in Seq(S), s # <<>>,
         Without(s, 1, u)
  PROVE  /\ Len(s \o t) > 0 /\ (s \o t)[1] = s[1]
         /\ Without(s \o t, 1, u \o t)
<1>1. /\ Len(s) \in Nat /\ Len(t) \in Nat /\ Len(u) = Len(s) - 1 /\ Len(s) > 0
      /\ Len(s \o t) = Len(s) + Len(t) /\ Len(u \o t) = Len(u) + Len(t)
      /\ \A i \in 1 .. Len(s) + Len(t) :
           (s \o t)[i] = IF i <= Len(s) THEN s[i] ELSE t[i - Len(s)]
      /\ \A i \in 1 .. Len(u) + Len(t) :
           (u \o t)[i] = IF i <= Len(u) THEN u[i] ELSE t[i - Len(u)]
  <2>1. Len(s) # 0
    BY EmptySeq, Zenon
  <2>2. /\ Len(s) \in Nat /\ Len(t) \in Nat /\ Len(s \o t) = Len(s) + Len(t)
        /\ \A i \in 1 .. Len(s) + Len(t) :
             (s \o t)[i] = IF i <= Len(s) THEN s[i] ELSE t[i - Len(s)]
    BY Joined
  <2>3. /\ Len(u \o t) = Len(u) + Len(t)
        /\ \A i \in 1 .. Len(u) + Len(t) :
             (u \o t)[i] = IF i <= Len(u) THEN u[i] ELSE t[i - Len(u)]
    BY Joined
  <2> QED
    BY <2>1, <2>2, <2>3 DEF Without
<1>2. ASSUME NEW i \in 1 .. Len(s \o t) - 1
      PROVE  (u \o t)[i] = (s \o t)[i + 1]
  <2>1. i \in 1 .. Len(u) + Len(t) /\ i + 1 \in 1 .. Len(s) + Len(t) /\ i \in Nat
    BY <1>1
  <2>2. CASE i <= Len(u)
    <3>1. u[i] = s[i + 1]
      BY <1>1, <2>2 DEF Without
    <3> QED
      BY <1>1, <2>1, <2>2, <3>1
  <2>3. CASE ~(i <= Len(u))
    <3>1. i - Len(u) = (i + 1) - Len(s) /\ ~(i + 1 <= Len(s))
      BY <1>1, <2>1, <2>3
    <3> QED
      BY <1>1, <2>1, <2>3, <3>1
  <2> QED
    BY <2>2, <2>3
<1> QED
  BY <1>1, <1>2 DEF Without

\* a frame set aside stays in its place
LEMMA JoinedMoved ==
  ASSUME NEW S, NEW s \in Seq(S), NEW t \in Seq(S), t # <<>>
  PROVE  Append(s, Head(t)) \o Tail(t) = s \o t
<1> DEFINE u == Append(s, Head(t))
           v == Tail(t)
<1>1. /\ Head(t) \in S /\ v \in Seq(S) /\ Len(t) \in Nat /\ Len(v) = Len(t) - 1
      /\ \A i \in 1 .. Len(t) - 1 : v[i] = t[i + 1]
      /\ 1 \in 1 .. Len(t) /\ Head(t) = t[1]
  BY TakenFrame
<1>2. /\ u \in Seq(S) /\ Len(u) = Len(s) + 1 /\ u[Len(s) + 1] = t[1] /\ Len(s) \in Nat
      /\ \A i \in 1 .. Len(s) : u[i] = s[i]
  BY <1>1, AppendProperties, LenProperties
<1> HIDE DEF u, v
<1>3. /\ s \o t \in Seq(S) /\ Len(s \o t) = Len(s) + Len(t)
      /\ \A i \in 1 .. Len(s) + Len(t) :
           (s \o t)[i] = IF i <= Len(s) THEN s[i] ELSE t[i - Len(s)]
  BY Joined
<1>4. /\ u \o v \in Seq(S) /\ Len(u \o v) = Len(u) + Len(v)
      /\ \A i \in 1 .. Len(u) + Len(v) :
           (u \o v)[i] = IF i <= Len(u) THEN u[i] ELSE v[i - Len(u)]
  BY <1>1, <1>2, Joined
<1>5. Len(u \o v) = Len(s \o t) /\ Len(s \o t) = Len(s) + Len(t)
  BY <1>1, <1>2, <1>3, <1>4
<1>6. ASSUME NEW i \in 1 .. Len(s) + Len(t) PROVE (u \o v)[i] = (s \o t)[i]
  <2>1. i \in 1 .. Len(u) + Len(v) /\ i \in Nat
    BY <1>1, <1>2
  <2>2. CASE i <= Len(s)
    BY <1>2, <1>3, <1>4, <2>1, <2>2
  <2>3. CASE i = Len(s) + 1
    <3>1. i - Len(s) = 1
      BY <1>2, <2>3
    <3> QED
      BY <1>2, <1>3, <1>4, <2>1, <2>3, <3>1
  <2>4. CASE i > Len(s) + 1
    <3>1. i - Len(u) \in 1 .. Len(t) - 1 /\ (i - Len(u)) + 1 = i - Len(s) /\ ~(i <= Len(u))
      BY <1>1, <1>2, <2>1, <2>4
    <3>2. v[i - Len(u)] = t[i - Len(s)]
      BY <1>1, <3>1
    <3> QED
      BY <1>2, <1>3, <1>4, <2>1, <2>4, <3>1, <3>2
  <2> QED
    BY <1>2, <2>1, <2>2, <2>3, <2>4
<1>7. u \o v = s \o t
  BY <1>3, <1>4, <1>5, <1>6, SeqEqual
<1> QED
  BY <1>7 DEF u, v
LEMMA JoinedAppended ==
  ASSUME NEW S, NEW s \in Seq(S), NEW t \in Seq(S), NEW e \in S
  PROVE  /\ Len(s \o Append(t, e)) = Len(s \o t) + 1
         /\ (s \o Append(t, e))[Len(s \o t) + 1] = e
         /\ \A i \in 1 .. Len(s \o t) : (s \o Append(t, e))[i] = (s \o t)[i]
<1> DEFINE u == Append(t, e)
<1>1. /\ u \in Seq(S) /\ Len(u) = Len(t) + 1 /\ u[Len(t) + 1] = e
      /\ \A i \in 1 .. Len(t) : u[i] = t[i]
  BY AppendProperties
<1> HIDE DEF u
<1>2. /\ Len(s) \in Nat /\ Len(t) \in Nat /\ Len(s \o t) = Len(s) + Len(t)
      /\ \A i \in 1 .. Len(s) + Len(t) :
           (s \o t)[i] = IF i <= Len(s) THEN s[i] ELSE t[i - Len(s)]
  BY Joined
<1>3. /\ Len(s \o u) = Len(s) + Len(u)
      /\ \A i \in 1 .. Len(s) + Len(u) :
           (s \o u)[i] = IF i <= Len(s) THEN s[i] ELSE u[i - Len(s)]
  BY <1>1, Joined
<1>4. (s \o u)[Len(s \o t) + 1] = e
  <2> DEFINE n == Len(s) + Len(t) + 1
  <2>1. n \in 1 .. Len(s) + Len(u) /\ ~(n <= Len(s)) /\ n - Len(s) = Len(t) + 1
    BY <1>1, <1>2
  <2> QED
    BY <1>1, <1>2, <1>3, <2>1
<1>5. ASSUME NEW i \in 1 .. Len(s \o t) PROVE (s \o u)[i] = (s \o t)[i]
  <2>1. i \in 1 .. Len(s) + Len(t) /\ i \in 1 .. Len(s) + Len(u)
        /\ (~(i <= Len(s)) => i - Len(s) \in 1 .. Len(t))
    BY <1>1, <1>2
  <2> QED
    BY <1>1, <1>2, <1>3, <2>1
<1>6. Len(s \o u) = Len(s \o t) + 1
  BY <1>1, <1>2, <1>3
<1> QED
  BY <1>4, <1>5, <1>6 DEF u

-----------------------------------------------------------------------------
(***************************************************************************)
(* What the steps leave of the packets' invariant.  First those that touch *)
(* neither the frames that wait for the host nor what was reported.        *)
(***************************************************************************)
LEMMA InLine ==
  ASSUME RadioInv, PacketInv
  PROVE  /\ pending \in Seq(Frame) /\ toHost \in Seq(Frame) /\ pending \o toHost \in Seq(Frame)
         /\ {Len(delivered), Len(reported), Len(pending), Len(toHost), Len(pending \o toHost)}
              \subseteq Nat
         /\ \A f \in Frame : f.info \in Infos
         /\ Continues(delivered, pending \o toHost, reported)
<1>1. pending \in Seq(Frame) /\ toHost \in Seq(Frame)
  BY DEF RadioInv, TypeOK
<1>2. pending \o toHost \in Seq(Frame)
  BY <1>1, Joined
<1>3. reported \in Seq(Packets) /\ delivered \in Seq(Infos) /\ PacketsInOrder
  BY DEF PacketInv
<1>4. Len(pending) \in Nat /\ Len(toHost) \in Nat /\ Len(pending \o toHost) \in Nat
  BY <1>1, <1>2, LenProperties
<1>5. Len(delivered) \in Nat /\ Len(reported) \in Nat
  BY <1>3, LenProperties
<1> QED
  BY <1>1, <1>2, <1>3, <1>4, <1>5 DEF PacketsInOrder, Frame, Infos

NoNewInterrupt == irq' /\ radio' = "receiving" => irq /\ radio = "receiving" /\ buffer' = buffer

LEMMA QuietPackets ==
  ASSUME RadioInv, PacketInv, UNCHANGED <<delivered, reported>>,
         pending' \o toHost' = pending \o toHost, NoNewInterrupt
  PROVE  PacketInv'
BY DEF PacketInv, PacketsInOrder, NoNewInterrupt

\* a frame that is no packet is taken from the line by its reader or lost
LEMMA OtherFrameTaken ==
  ASSUME RadioInv, PacketInv, UNCHANGED <<delivered, reported>>,
         NEW j \in 1 .. Len(pending \o toHost),
         Without(pending \o toHost, j, pending' \o toHost'),
         (pending \o toHost)[j].type # "RX", NoNewInterrupt
  PROVE  PacketInv'
<1>1. Continues(delivered, pending' \o toHost', reported)
  BY InLine, AnotherFrameGone
<1> QED
  BY <1>1 DEF PacketInv, PacketsInOrder, NoNewInterrupt

\* a frame that is no packet is put on the line
LEMMA OtherFrameReplied ==
  ASSUME RadioInv, PacketInv, UNCHANGED <<delivered, reported, pending>>,
         NEW f \in Frame, f.type # "RX", toHost' = Append(toHost, f), NoNewInterrupt
  PROVE  PacketInv'
<1>1. /\ pending \in Seq(Frame) /\ toHost \in Seq(Frame)
      /\ {Len(delivered), Len(reported), Len(pending \o toHost)} \subseteq Nat
      /\ Continues(delivered, pending \o toHost, reported)
  BY InLine
<1>2. /\ Len(pending' \o toHost') = Len(pending \o toHost) + 1
      /\ (pending' \o toHost')[Len(pending \o toHost) + 1] = f
      /\ \A i \in 1 .. Len(pending \o toHost) : (pending' \o toHost')[i] = (pending \o toHost)[i]
  BY <1>1, JoinedAppended
<1>3. Continues(delivered, pending' \o toHost', reported)
  BY <1>1, <1>2, FrameAdded
<1> QED
  BY <1>3 DEF PacketInv, PacketsInOrder, NoNewInterrupt

LEMMA Shapes ==
  ASSUME NEW type \in {"STATUS", "RESULT", "ERROR", "RX"}, NEW s \in UInt16, NEW info \in Infos
  PROVE  /\ [type |-> type, seq |-> s, info |-> info] \in Frame
         /\ [type |-> type, seq |-> s, info |-> info].type = type
         /\ [type |-> type, seq |-> s, info |-> info].info = info
BY DEF Frame, Requests, Infos

LEMMA ReplyPackets ==
  ASSUME RadioInv, PacketInv, UNCHANGED <<delivered, reported, pending>>,
         NEW type \in {"STATUS", "RESULT", "ERROR"}, NEW s \in UInt16, NEW info \in Infos,
         Reply(type, s, info), NoNewInterrupt
  PROVE  PacketInv'
<1> DEFINE f == [type |-> type, seq |-> s, info |-> info]
<1>1. f \in Frame /\ f.type # "RX" /\ toHost' = Append(toHost, f)
  BY Shapes DEF Reply
<1> HIDE DEF f
<1> QED
  BY <1>1, OtherFrameReplied

LEMMA StatusPackets ==
  ASSUME RadioInv, PacketInv, UNCHANGED <<delivered, reported, pending>>,
         NEW s \in UInt16, SendStatus(s), settings' \in {"set", "default"}, NoNewInterrupt
  PROVE  PacketInv'
<1> DEFINE info == CASE radio' # "failed"    -> settings'
                     [] settings' = "set" -> "failedSet"
                     [] OTHER             -> "failed"
<1>1. Reply("STATUS", s, info) /\ info \in Infos
  BY DEF SendStatus, Infos
<1> HIDE DEF info
<1> QED
  BY <1>1, ReplyPackets

(***************************************************************************)
(* The host: a request in progress sets packets aside, Receive takes the   *)
(* first frame in line.                                                    *)
(***************************************************************************)
LEMMA ReadAnswerPackets == ASSUME RadioInv, PacketInv, ReadAnswer PROVE PacketInv'
<1>1. /\ toHost # <<>> /\ toHost' = Tail(toHost) /\ UNCHANGED <<delivered, reported, irq, radio, buffer>>
      /\ \/ Answers(Head(toHost)) /\ UNCHANGED pending
         \/ pending' = Append(pending, Head(toHost))
  BY DEF ReadAnswer, modemVars, chipVars
<1>2. NoNewInterrupt
  BY <1>1 DEF NoNewInterrupt
<1>3. pending \in Seq(Frame) /\ toHost \in Seq(Frame)
  BY InLine
<1>4. CASE pending' = Append(pending, Head(toHost))
  BY <1>1, <1>2, <1>3, <1>4, JoinedMoved, QuietPackets
<1>5. CASE Answers(Head(toHost)) /\ UNCHANGED pending
  <2>1. /\ toHost' \in Seq(Frame) /\ 1 \in 1 .. Len(toHost) /\ Head(toHost) = toHost[1]
        /\ Without(toHost, 1, toHost')
    BY <1>1, <1>3, TakenFrame DEF Without
  <2>2. /\ Len(pending) + 1 \in 1 .. Len(pending \o toHost)
        /\ (pending \o toHost)[Len(pending) + 1] = toHost[1]
        /\ Without(pending \o toHost, Len(pending) + 1, pending' \o toHost')
    BY <1>3, <1>5, <2>1, JoinedWithout
  <2>3. toHost[1].type # "RX"
    BY <1>5, <2>1 DEF Answers
  <2> QED
    BY <1>1, <1>2, <2>2, <2>3, OtherFrameTaken
<1> QED
  BY <1>1, <1>4, <1>5

LEMMA FirstTaken ==
  ASSUME RadioInv, PacketInv, NEW f \in Frame, Handle(f), UNCHANGED <<reported, irq, radio, buffer>>,
         Len(pending \o toHost) > 0, (pending \o toHost)[1] = f,
         Without(pending \o toHost, 1, pending' \o toHost')
  PROVE  PacketInv'
<1>1. NoNewInterrupt
  BY DEF NoNewInterrupt
<1>2. 1 \in 1 .. Len(pending \o toHost) /\ f.info \in Infos /\ Len(delivered) \in Nat
  BY InLine
<1>3. CASE f.type # "RX"
  BY <1>1, <1>2, <1>3, OtherFrameTaken DEF Handle
<1>4. CASE f.type = "RX"
  <2>1. delivered' = Append(delivered, f.info) /\ delivered \in Seq(Infos)
    BY <1>4 DEF Handle, PacketInv
  <2>2. /\ delivered' \in Seq(Infos) /\ Len(delivered') = Len(delivered) + 1
        /\ delivered'[Len(delivered) + 1] = f.info
        /\ \A k \in 1 .. Len(delivered) : delivered'[k] = delivered[k]
    BY <1>2, <2>1, AppendProperties
  <2>3. Continues(delivered', pending' \o toHost', reported)
    BY <1>2, <1>4, <2>2, InLine, FirstDelivered
  <2> QED
    BY <1>1, <2>2, <2>3 DEF PacketInv, PacketsInOrder, NoNewInterrupt
<1> QED
  BY <1>3, <1>4

LEMMA ReceivePackets == ASSUME RadioInv, PacketInv, Receive PROVE PacketInv'
<1>1. pending \in Seq(Frame) /\ toHost \in Seq(Frame) /\ UNCHANGED <<reported, irq, radio, buffer>>
  BY InLine DEF Receive, modemVars, chipVars
<1>2. CASE pending # <<>> /\ Handle(Head(pending)) /\ pending' = Tail(pending) /\ UNCHANGED toHost
  <2>1. /\ pending' \in Seq(Frame) /\ Head(pending) \in Frame /\ Head(pending) = pending[1]
        /\ Without(pending, 1, pending')
    BY <1>1, <1>2, TakenFrame DEF Without
  <2>2. /\ Len(pending \o toHost) > 0 /\ (pending \o toHost)[1] = pending[1]
        /\ Without(pending \o toHost, 1, pending' \o toHost')
    BY <1>1, <1>2, <2>1, JoinedWithoutFirst
  <2> QED
    BY <1>1, <1>2, <2>1, <2>2, FirstTaken
<1>3. CASE /\ pending = <<>> /\ toHost # <<>>
           /\ Handle(Head(toHost)) /\ toHost' = Tail(toHost) /\ UNCHANGED pending
  <2>1. /\ toHost' \in Seq(Frame) /\ Head(toHost) \in Frame /\ Head(toHost) = toHost[1]
        /\ 1 \in 1 .. Len(toHost) /\ Without(toHost, 1, toHost') /\ Len(pending) = 0
    BY <1>1, <1>3, TakenFrame, NoFrames DEF Without
  <2>2. /\ 1 \in 1 .. Len(pending \o toHost) /\ (pending \o toHost)[1] = toHost[1]
        /\ Without(pending \o toHost, 1, pending' \o toHost')
    BY <1>1, <1>3, <2>1, JoinedWithout
  <2>3. Len(pending \o toHost) > 0
    BY <2>2, InLine
  <2> QED
    BY <1>1, <1>3, <2>1, <2>2, <2>3, FirstTaken
<1> QED
  BY <1>2, <1>3 DEF Receive

(***************************************************************************)
(* The modem: an answer is no packet; RX is what the interrupt announced.  *)
(***************************************************************************)
LEMMA HandleInfoPackets == ASSUME RadioInv, PacketInv, HandleInfo PROVE PacketInv'
<1>1. /\ UNCHANGED <<delivered, reported, pending>> /\ NoNewInterrupt
      /\ settings' \in {"set", "default"} /\ SendStatus(Head(toModem).seq)
  BY DEF HandleInfo, hostVars, chipVars, NoNewInterrupt, RadioInv, TypeOK
<1>2. Head(toModem).seq \in UInt16
  BY CommandFacts DEF HandleInfo
<1> QED
  BY <1>1, <1>2, StatusPackets

LEMMA HandleTXPackets == ASSUME RadioInv, PacketInv, HandleTX PROVE PacketInv'
<1> DEFINE s == Head(toModem).seq
<1>1. s \in UInt16
  BY CommandFacts DEF HandleTX
<1>2. UNCHANGED <<delivered, reported, pending>> /\ UNCHANGED buffer
  BY DEF HandleTX, hostVars
<1>3. CASE /\ Reply("ERROR", s, IF radio = "failed" THEN "failed" ELSE "busy")
           /\ UNCHANGED <<radio, irq>>
  BY <1>1, <1>2, <1>3, ReplyPackets DEF NoNewInterrupt, Infos
<1>4. CASE Reply("RESULT", s, "failed") /\ ListenOrFail
  BY <1>1, <1>2, <1>4, ReplyPackets DEF NoNewInterrupt, Infos, ListenOrFail
<1>5. CASE radio' = "transmitting" /\ UNCHANGED toHost
  BY <1>2, <1>5, QuietPackets DEF NoNewInterrupt
<1> QED
  BY <1>3, <1>4, <1>5 DEF HandleTX

LEMMA HandleConfigPackets == ASSUME RadioInv, PacketInv, HandleConfig PROVE PacketInv'
<1> DEFINE f == Head(toModem)
<1>1. f \in Frame /\ f \in Frames(toModem) /\ f.seq \in UInt16
  BY CommandFacts DEF HandleConfig
<1>2. UNCHANGED <<delivered, reported, pending, buffer>>
  BY DEF HandleConfig, hostVars
<1>3. f.info \in {"set", "default"}
  BY <1>1 DEF RadioInv, TypeOK
<1> HIDE DEF f
<1>4. CASE UNCHANGED <<radio, irq>> /\ \E info \in {"busy", "failed"} : Reply("ERROR", f.seq, info)
  BY <1>1, <1>2, <1>4, ReplyPackets DEF NoNewInterrupt, Infos
<1>5. CASE settings' = f.info /\ irq' = FALSE /\ SendStatus(f.seq)
  BY <1>1, <1>2, <1>3, <1>5, StatusPackets DEF NoNewInterrupt
<1>6. CASE Reply("ERROR", f.seq, "failed") /\ ListenOrFail
  BY <1>1, <1>2, <1>6, ReplyPackets DEF NoNewInterrupt, Infos, ListenOrFail
<1>7. \/ UNCHANGED <<radio, irq>> /\ \E info \in {"busy", "failed"} : Reply("ERROR", f.seq, info)
      \/ settings' = f.info /\ irq' = FALSE /\ SendStatus(f.seq)
      \/ Reply("ERROR", f.seq, "failed") /\ ListenOrFail
  BY DEF HandleConfig, f
<1> QED
  BY <1>4, <1>5, <1>6, <1>7

LEMMA TXEndPackets == ASSUME RadioInv, PacketInv, TXTimeout \/ TXDone PROVE PacketInv'
<1>1. /\ UNCHANGED <<delivered, reported, pending, buffer>> /\ irq' = FALSE
      /\ \E info \in {"ok", "failed"} : Reply("RESULT", txSequence, info)
  BY DEF TXTimeout, TXDone, StartReceive, ListenOrFail, hostVars
<1>2. txSequence \in UInt16
  BY DEF RadioInv, TypeOK
<1> QED
  BY <1>1, <1>2, ReplyPackets DEF NoNewInterrupt, Infos

LEMMA RXDonePackets == ASSUME RadioInv, PacketInv, RXDone PROVE PacketInv'
<1>1. /\ irq /\ radio = "receiving" /\ irq' = FALSE /\ UNCHANGED <<delivered, pending>>
      /\ IF buffer = "unreadable"
         THEN Reply("ERROR", 0, "unreadable") /\ UNCHANGED reported
         ELSE Reply("RX", 0, buffer) /\ reported' = Append(reported, buffer)
  BY DEF RXDone, StartReceive, ListenOrFail, hostVars
<1>2. 0 \in UInt16
  BY DEF UInt16
<1>3. CASE buffer = "unreadable"
  BY <1>1, <1>2, <1>3, ReplyPackets DEF NoNewInterrupt, Infos
<1>4. CASE buffer # "unreadable"
  <2> DEFINE f == [type |-> "RX", seq |-> 0, info |-> buffer]
  <2>1. buffer \in Packets /\ buffer \in Infos
    BY <1>1, <1>4 DEF RadioInv, Infos
  <2>2. f \in Frame /\ f.type = "RX" /\ f.info = buffer /\ toHost' = Append(toHost, f)
    BY <1>1, <1>2, <1>4, <2>1, Shapes DEF Reply
  <2> HIDE DEF f
  <2>3. reported' = Append(reported, buffer) /\ reported \in Seq(Packets)
    BY <1>1, <1>4 DEF PacketInv
  <2>4. /\ reported' \in Seq(Packets) /\ Len(reported') = Len(reported) + 1
        /\ reported'[Len(reported) + 1] = buffer /\ Len(reported) \in Nat
        /\ \A k \in 1 .. Len(reported) : reported'[k] = reported[k]
    BY <2>1, <2>3, AppendProperties, LenProperties
  <2>5. \A k, l \in 1 .. Len(reported') : reported'[k] = reported'[l] => k = l
    <3>1. \A k \in 1 .. Len(reported) : reported[k] # buffer
      BY <1>1, <1>4 DEF PacketInv
    <3>2. \A k \in 1 .. Len(reported') : k \in 1 .. Len(reported) \/ k = Len(reported) + 1
      BY <2>4
    <3> QED
      BY <2>4, <3>1, <3>2 DEF PacketInv
  <2>6. /\ pending \in Seq(Frame) /\ toHost \in Seq(Frame)
        /\ {Len(delivered), Len(reported), Len(pending \o toHost)} \subseteq Nat
        /\ Continues(delivered, pending \o toHost, reported)
    BY InLine
  <2>7. /\ Len(pending' \o toHost') = Len(pending \o toHost) + 1
        /\ (pending' \o toHost')[Len(pending \o toHost) + 1] = f
        /\ \A i \in 1 .. Len(pending \o toHost) : (pending' \o toHost')[i] = (pending \o toHost)[i]
    BY <1>1, <2>2, <2>6, JoinedAppended
  <2>8. Continues(delivered, pending' \o toHost', reported')
    BY <2>2, <2>4, <2>6, <2>7, FrameAdded
  <2> QED
    BY <1>1, <2>4, <2>5, <2>8 DEF PacketInv, PacketsInOrder
<1> QED
  BY <1>3, <1>4

LEMMA HearPacketPackets == ASSUME RadioInv, PacketInv, HearPacket PROVE PacketInv'
<1>1. /\ UNCHANGED <<delivered, reported, pending, toHost>>
      /\ \/ buffer' \in Packets \ ({reported[i] : i \in 1 .. Len(reported)} \cup {buffer})
         \/ buffer' = "unreadable"
  BY DEF HearPacket, hostVars
<1>2. buffer' # "unreadable" => \A k \in 1 .. Len(reported) : reported[k] # buffer'
  BY <1>1
<1> QED
  BY <1>1, <1>2 DEF PacketInv, PacketsInOrder

LEMMA LoseFramePackets == ASSUME RadioInv, PacketInv, LoseFrame PROVE PacketInv'
<1>1. UNCHANGED <<delivered, pending, irq, radio, buffer>> /\ NoNewInterrupt
  BY DEF LoseFrame, hostVars, modemVars, chipVars, NoNewInterrupt
<1>2. CASE UNCHANGED <<toHost, reported>>
  BY <1>1, <1>2, QuietPackets
<1>3. ASSUME NEW i \in 1 .. Len(toHost), toHost' = Remove(toHost, i),
             IF toHost[i].type = "RX"
             THEN \E k \in 1 .. Len(reported) : /\ reported[k] = toHost[i].info
                                               /\ reported' = Remove(reported, k)
             ELSE UNCHANGED reported
      PROVE  PacketInv'
  <2>1. pending \in Seq(Frame) /\ toHost \in Seq(Frame)
    BY InLine
  <2>2. toHost' \in Seq(Frame) /\ Without(toHost, i, toHost')
    BY <1>3, <2>1, LostFrame DEF Without
  <2> DEFINE j == Len(pending) + i
  <2>3. /\ j \in 1 .. Len(pending \o toHost) /\ (pending \o toHost)[j] = toHost[i]
        /\ Without(pending \o toHost, j, pending' \o toHost')
    BY <1>1, <2>1, <2>2, JoinedWithout, ZenonT(30)
  <2> HIDE DEF j
  <2>4. CASE toHost[i].type # "RX"
    BY <1>1, <1>3, <2>3, <2>4, OtherFrameTaken, ZenonT(30)
  <2>5. CASE toHost[i].type = "RX"
    <3>1. PICK m \in 1 .. Len(reported) : reported[m] = toHost[i].info /\ reported' = Remove(reported, m)
      BY <1>3, <2>5
    <3>2. reported \in Seq(Packets) /\ \A k, l \in 1 .. Len(reported) : reported[k] = reported[l] => k = l
      BY DEF PacketInv
    <3>3. /\ reported' \in Seq(Packets) /\ Without(reported, m, reported') /\ Len(reported) \in Nat
      BY <3>1, <3>2, LostFrame DEF Without
    <3>4. Continues(delivered, pending' \o toHost', reported')
      BY <2>3, <2>5, <3>1, <3>2, <3>3, InLine, PacketLost
    <3>5. \A k \in 1 .. Len(reported') : \E l \in 1 .. Len(reported) :
            reported'[k] = reported[l] /\ l = IF k < m THEN k ELSE k + 1
      BY <3>3 DEF Without
    <3>6. \A k, l \in 1 .. Len(reported') : reported'[k] = reported'[l] => k = l
      BY <3>2, <3>3, <3>5
    <3>7. irq /\ radio = "receiving" /\ buffer # "unreadable" =>
            \A k \in 1 .. Len(reported') : reported'[k] # buffer
      BY <3>5 DEF PacketInv
    <3> QED
      BY <1>1, <3>3, <3>4, <3>6, <3>7 DEF PacketInv, PacketsInOrder
  <2> QED
    BY <2>4, <2>5
<1> QED
  BY <1>2, <1>3 DEF LoseFrame

LEMMA PacketNext == ASSUME RadioInv, PacketInv, [Next]_vars PROVE PacketInv'
<1>1. CASE Synchronise \/ Configure \/ Send \/ Retry \/ Timeout
  <2>1. UNCHANGED <<delivered, reported, pending, toHost, irq, radio, buffer>>
    BY <1>1 DEF Synchronise, Configure, Send, Ask, Retry, Timeout, modemVars, chipVars
  <2> QED
    BY <2>1, QuietPackets DEF NoNewInterrupt
<1>2. CASE ModemReset
  <2>1. UNCHANGED <<delivered, reported, pending, toHost>> /\ irq' = FALSE
    BY <1>2 DEF ModemReset, ListenOrFail, hostVars
  <2> QED
    BY <2>1, QuietPackets DEF NoNewInterrupt
<1>3. CASE FinishSending
  <2>1. /\ UNCHANGED <<delivered, reported, pending, toHost, radio>>
        /\ radio # "receiving"
    BY <1>3 DEF FinishSending, hostVars, RadioInv, TypeOK
  <2> QED
    BY <2>1, QuietPackets DEF NoNewInterrupt
<1>4. CASE UNCHANGED vars
  <2>1. UNCHANGED <<delivered, reported, pending, toHost, irq, radio, buffer>>
    BY <1>4 DEF vars, hostVars, modemVars, chipVars
  <2> QED
    BY <2>1, QuietPackets DEF NoNewInterrupt
<1> QED
  BY <1>1, <1>2, <1>3, <1>4, ReadAnswerPackets, ReceivePackets, HandleInfoPackets,
     HandleTXPackets, HandleConfigPackets, TXEndPackets, RXDonePackets, HearPacketPackets,
     LoseFramePackets DEF Next, HostStep, ModemStep

(***************************************************************************)
(* Every packet the modem reports reaches Receive once and in the order it *)
(* was heard, unless its frame is damaged: what a waiting request sets     *)
(* aside (client.go Request, ReadFrame) keeps its place in the line.       *)
(***************************************************************************)
THEOREM PacketsAlwaysInOrder == Spec => []PacketsInOrder
<1>1. Init => RadioInv /\ PacketInv
  <2> SUFFICES ASSUME Init PROVE PacketInv
    BY InitInv
  <2>1. /\ reported = <<>> /\ delivered = <<>> /\ pending = <<>> /\ toHost = <<>> /\ irq = FALSE
    BY DEF Init
  <2>2. <<>> \o <<>> = <<>>
    OBVIOUS
  <2>3. Len(<<>>) = 0 /\ PacketsOn(<<>>) = {} /\ 1 .. 0 = {}
    BY NoFrames DEF PacketsOn
  <2>4. Continues(<<>>, <<>>, <<>>)
    <3> DEFINE at == [k \in {} |-> k]
               K == Len(<<>>) + 1 .. Len(<<>>)
    <3>1. K = {} /\ 1 .. Len(<<>>) = {} /\ Len(<<>>) <= Len(<<>>)
      BY <2>3
    <3>2. at \in [K -> PacketsOn(<<>>)]
      BY <3>1
    <3>3. /\ \A k, l \in K : k < l => at[k] < at[l]
          /\ \A i \in PacketsOn(<<>>) : \E k \in K : at[k] = i
          /\ \A k \in K : <<>>[at[k]].info = <<>>[k]
          /\ \A k \in 1 .. Len(<<>>) : <<>>[k] = <<>>[k]
      BY <2>3, <3>1
    <3> HIDE DEF at
    <3> QED
      BY <3>1, <3>2, <3>3, Rest, Zenon
  <2>5. PacketsInOrder
    BY <2>1, <2>2, <2>4 DEF PacketsInOrder
  <2> QED
    BY <2>1, <2>3, <2>5, NoFrames DEF PacketInv
<1>2. RadioInv /\ PacketInv /\ [Next]_vars => (RadioInv /\ PacketInv)'
  BY RadioNext, PacketNext
<1>3. PacketInv => PacketsInOrder
  BY DEF PacketInv
<1> QED
  BY <1>1, <1>2, <1>3, PTL DEF Spec

=============================================================================
