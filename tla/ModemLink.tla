------------------------------ MODULE ModemLink ------------------------------
(***************************************************************************)
(* A program on the Linux host (internal/modem/client.go, decoder.go,      *)
(* internal/node/radio.go, publication/link.go, and ghost-node's           *)
(* configureModem) and the modem's firmware (heltec-modem main.cpp), joined *)
(* by two serial lines.  A line delivers frames in order; a damaged frame   *)
(* is discarded by its decoder and is lost here.  Time is left out: a       *)
(* client's deadline may pass, and the modem's transmission timer may      *)
(* expire, at any moment.                                                  *)
(*                                                                         *)
(* Frames are [type, seq, info]: what the modem's status text and result   *)
(* codes say is info, and a received packet is its payload.                *)
(***************************************************************************)
EXTENDS Naturals, Sequences, FiniteSets

CONSTANTS Packets,       \* packets other radios send, each heard at most once
          MaxSends,      \* bound: transmissions the host asks for
          MaxRetries,    \* bound: repeated INFO requests while opening
          MaxFaults      \* bound: lost frames, packets the radio cannot read,
                         \* failing radio calls, overtaken transmissions and
                         \* modem resets, together

ASSUME LinkAssumption == {MaxSends, MaxRetries, MaxFaults} \subseteq Nat

VARIABLES
  wants,       \* the host's settings: "set" by its configuration, or "default"
  pc,          \* "opening", "info", "config", "readback", "ready" or "ended"
  seq, call,   \* Client.seq, and the type of the request it waits for
  pending,     \* Client.pending
  toModem, toHost,                       \* the serial lines
  radio, irq, txSequence, settings,      \* the firmware's variables
  chip, buffer,   \* the SX1262: what it is doing, and what it last received
  \* history
  boot, answered,         \* resets so far, and those before the last INFO answer
  reported, delivered,    \* packets sent up the line, and returned by Receive
  started, aired,         \* transmissions begun, and those that left entirely
  overtaken, sentOK,      \* begun while a packet arrived; reported as sent
  retries, faults

hostVars  == <<wants, pc, seq, call, pending, delivered, sentOK, retries>>
modemVars == <<radio, irq, txSequence, settings, boot, answered, started, overtaken>>
chipVars  == <<chip, buffer, aired>>
vars == <<hostVars, modemVars, chipVars, toModem, toHost, reported, faults>>

UInt16 == {n \in Nat : n < 65536}
Requests == {"INFO", "CONFIG", "TX"}
Frame == [type : Requests \cup {"STATUS", "RESULT", "ERROR", "RX"},
          seq  : UInt16,
          info : Packets \cup {"default", "set", "failed", "failedSet",
                                "ok", "busy", "unreadable"}]

TypeOK ==
  /\ wants \in {"set", "default"} /\ settings \in {"set", "default"}
  /\ pc \in {"opening", "info", "config", "readback", "ready", "ended"}
  /\ seq \in UInt16 /\ txSequence \in UInt16
  /\ call \in Requests \cup {"none"}
  /\ pending \in Seq(Frame) /\ toModem \in Seq(Frame) /\ toHost \in Seq(Frame)
  /\ radio \in {"failed", "receiving", "transmitting"} /\ irq \in BOOLEAN
  /\ chip \in {"standby", "listening", "sending"}
  /\ buffer \in Packets \cup {"empty", "unreadable"}
  /\ radio = "receiving" <=> chip = "listening"
  /\ faults <= MaxFaults /\ retries <= MaxRetries

Init ==
  /\ wants \in {"set", "default"}
  /\ pc = "opening" /\ seq = 0 /\ call = "none" /\ pending = <<>>
  /\ toModem = <<>> /\ toHost = <<>>
  /\ radio = "receiving" /\ irq = FALSE /\ txSequence = 0 /\ settings = "default"
  /\ chip = "listening" /\ buffer = "empty"
  /\ boot = 0 /\ answered = 0
  /\ reported = <<>> /\ delivered = <<>> /\ started = <<>>
  /\ aired = {} /\ overtaken = {} /\ sentOK = {}
  /\ retries = 0 /\ faults = 0

Fault == faults < MaxFaults /\ faults' = faults + 1
NoFault == UNCHANGED faults
Remove(s, i) == SubSeq(s, 1, i - 1) \o SubSeq(s, i + 1, Len(s))

-----------------------------------------------------------------------------
(***************************************************************************)
(* The client.  A request takes the next sequence number and is written    *)
(* once; only the INFO request of Open is repeated.                        *)
(***************************************************************************)
Ask(type) ==
  /\ call = "none"
  /\ seq' = (seq + 1) % 65536
  /\ call' = type
  /\ toModem' = Append(toModem, [type |-> type, seq |-> seq', info |-> wants])
  /\ UNCHANGED <<wants, pc, pending, delivered, sentOK, retries,
                 modemVars, chipVars, toHost, reported, faults>>

Synchronise == pc \in {"opening", "info", "readback"} /\ Ask("INFO")
Configure   == pc = "config" /\ Ask("CONFIG")
Send        == /\ pc = "ready" /\ seq < MaxSends + (IF wants = "set" THEN 4 ELSE 2)
               /\ Ask("TX")

RetryAnything ==                    \* mutated: every request is repeated
  /\ call # "none" /\ retries < MaxRetries
  /\ retries' = retries + 1
  /\ toModem' = Append(toModem, [type |-> call, seq |-> seq, info |-> wants])
  /\ UNCHANGED <<wants, pc, seq, call, pending, delivered, sentOK,
                 modemVars, chipVars, toHost, reported, faults>>

Retry ==
  /\ pc = "opening" /\ call = "INFO" /\ retries < MaxRetries
  /\ retries' = retries + 1
  /\ toModem' = Append(toModem, [type |-> call, seq |-> seq, info |-> wants])
  /\ UNCHANGED <<wants, pc, seq, call, pending, delivered, sentOK,
                 modemVars, chipVars, toHost, reported, faults>>

AnswersAnyRequest(f) ==             \* mutated: the sequence number is not compared
  f.type = "ERROR" \/ f.type = (IF call = "TX" THEN "RESULT" ELSE "STATUS")

\* the sequence number and each caller's accept function
Answers(f) ==
  /\ f.seq = seq
  /\ f.type = "ERROR" \/ f.type = (IF call = "TX" THEN "RESULT" ELSE "STATUS")

UncheckedReturn(f) ==               \* mutated: the readback is not compared
  /\ call' = "none"
  /\ pc' = CASE pc = "opening" -> "info"
             [] pc = "info"    -> IF f.info \in {"default", "set"} \/ wants = "set"
                                  THEN IF wants = "set" THEN "config" ELSE "ready"
                                  ELSE "ended"
             [] pc = "config"  -> IF f.type = "STATUS" THEN "readback" ELSE "ended"
             [] pc = "readback" -> IF f.type = "STATUS" THEN "ready" ELSE "ended"
             [] OTHER -> pc
  /\ sentOK' = IF call = "TX" /\ f.info = "ok" THEN sentOK \cup {seq} ELSE sentOK

\* only the settings are compared: a failed radio that has them will do
ConfirmRadioStatus(f) == f.info \in {"set", "failedSet"}

(***************************************************************************)
(* What the caller does with the answer f: Open takes any; configureModem  *)
(* looks at the radio's state when it has nothing to configure, else at    *)
(* the settings; Radio.Send reports a nonzero code.                        *)
(***************************************************************************)
Return(f) ==
  /\ call' = "none"
  /\ pc' = CASE pc = "opening" -> "info"
             [] pc = "ready"   -> pc
             [] f.type = "ERROR" -> "ended"
             [] pc = "info"    -> IF wants = "set" THEN "config"
                                  ELSE IF f.info \in {"failed", "failedSet"}
                                       THEN "ended" ELSE "ready"
             [] OTHER -> IF ~ConfirmRadioStatus(f) THEN "ended"
                         ELSE IF pc = "config" THEN "readback" ELSE "ready"
  /\ sentOK' = IF call = "TX" /\ f.info = "ok" THEN sentOK \cup {seq} ELSE sentOK

ReadDroppingOthers ==               \* mutated: frames that do not match are dropped
  /\ call # "none" /\ toHost # <<>>
  /\ toHost' = Tail(toHost)
  /\ IF Answers(Head(toHost))
     THEN Return(Head(toHost))
     ELSE UNCHANGED <<pc, call, sentOK>>
  /\ UNCHANGED <<wants, seq, pending, delivered, retries, modemVars, chipVars,
                 toModem, reported, faults>>

(***************************************************************************)
(* A frame that does not match is kept for the next reader.  (The scan of  *)
(* pending before each read finds nothing: what was set aside answered an  *)
(* earlier sequence number, or none, for the next 65536 requests.)         *)
(***************************************************************************)
ReadAnswer ==
  /\ call # "none" /\ toHost # <<>>
  /\ toHost' = Tail(toHost)
  /\ IF Answers(Head(toHost))
     THEN Return(Head(toHost)) /\ UNCHANGED pending
     ELSE /\ pending' = Append(pending, Head(toHost))
          /\ UNCHANGED <<pc, call, sentOK>>
  /\ UNCHANGED <<wants, seq, delivered, retries, modemVars, chipVars,
                 toModem, reported, faults>>

\* ErrTimeout, even when the answer has already been read (client.go:177)
Timeout ==
  /\ call # "none"
  /\ call' = "none"
  /\ pc' = IF pc = "ready" THEN pc ELSE "ended"
  /\ UNCHANGED <<wants, seq, pending, delivered, sentOK, retries,
                 modemVars, chipVars, toModem, toHost, reported, faults>>

(***************************************************************************)
(* Radio.Receive: ReadFrame returns what was set aside first.  A received  *)
(* packet is handed to the Runtime, an error ends Run and with it the      *)
(* process, anything else is skipped.                                      *)
(***************************************************************************)
Handle(f) ==
  /\ delivered' = IF f.type = "RX" THEN Append(delivered, f.info) ELSE delivered
  /\ pc' = IF f.type = "ERROR" THEN "ended" ELSE pc

ReceivePortFirst ==                 \* mutated: the line is read before pending
  /\ pc = "ready" /\ call = "none"
  /\ \/ /\ pending # <<>> /\ toHost = <<>>
        /\ Handle(Head(pending))
        /\ pending' = Tail(pending) /\ UNCHANGED toHost
     \/ /\ toHost # <<>>
        /\ Handle(Head(toHost))
        /\ toHost' = Tail(toHost) /\ UNCHANGED pending
  /\ UNCHANGED <<wants, seq, call, sentOK, retries, modemVars,
                 chipVars, toModem, reported, faults>>

Receive ==
  /\ pc = "ready" /\ call = "none"
  /\ \/ /\ pending # <<>>
        /\ Handle(Head(pending))
        /\ pending' = Tail(pending) /\ UNCHANGED toHost
     \/ /\ pending = <<>> /\ toHost # <<>>
        /\ Handle(Head(toHost))
        /\ toHost' = Tail(toHost) /\ UNCHANGED pending
  /\ UNCHANGED <<wants, seq, call, sentOK, retries, modemVars,
                 chipVars, toModem, reported, faults>>

HostStep == \/ Synchronise \/ Configure \/ Send \/ Retry
            \/ ReadAnswer \/ Timeout \/ Receive

-----------------------------------------------------------------------------
(***************************************************************************)
(* The firmware.  startReceive clears the flag its interrupt handler sets  *)
(* and puts the radio back to listening; if that fails, only SET_CONFIG or *)
(* a reset revives it.                                                     *)
(***************************************************************************)
ListenOrFail ==
  /\ irq' = FALSE
  /\ \/ radio' = "receiving" /\ chip' = "listening"
     \/ radio' = "failed" /\ chip' = "standby"

StartReceive ==
  /\ ListenOrFail
  /\ IF radio' = "failed" THEN Fault ELSE NoFault

Reply(type, s, info) ==
  toHost' = Append(toHost, [type |-> type, seq |-> s, info |-> info])

Command(type) == toModem # <<>> /\ Head(toModem).type = type /\ toModem' = Tail(toModem)
SendStatus(s) ==
  Reply("STATUS", s, CASE radio' # "failed"    -> settings'
                       [] settings' = "set" -> "failedSet"
                       [] OTHER             -> "failed")

HandleInfo ==
  /\ Command("INFO")
  /\ answered' = boot
  /\ UNCHANGED <<radio, irq, txSequence, settings, boot, started, overtaken,
                 chipVars, hostVars, reported, faults>>
  /\ SendStatus(Head(toModem).seq)

(***************************************************************************)
(* TX_REQUEST.  The flag is cleared before startTransmit: a packet the     *)
(* radio had just received is forgotten, and one completed before          *)
(* startTransmit takes the interrupt over raises the flag again.           *)
(***************************************************************************)
HandleTX ==
  /\ Command("TX")
  /\ LET s == Head(toModem).seq IN
     \/ /\ radio # "receiving"
        /\ Reply("ERROR", s, IF radio = "failed" THEN "failed" ELSE "busy")
        /\ UNCHANGED <<radio, irq, txSequence, chip, started, overtaken, faults>>
     \/ /\ radio = "receiving" /\ Fault
        /\ Reply("RESULT", s, "failed")
        /\ ListenOrFail
        /\ UNCHANGED <<txSequence, started, overtaken>>
     \/ /\ radio = "receiving"
        /\ radio' = "transmitting" /\ chip' = "sending" /\ txSequence' = s
        /\ started' = Append(started, s) /\ UNCHANGED toHost
        /\ \/ irq' = FALSE /\ UNCHANGED overtaken /\ NoFault
           \/ irq' = TRUE /\ overtaken' = overtaken \cup {s} /\ Fault
  /\ UNCHANGED <<settings, boot, answered, buffer, aired, hostVars, reported>>

(***************************************************************************)
(* SET_CONFIG: refused while transmitting; a failure puts the previous     *)
(* settings back, or leaves the radio failed.                              *)
(***************************************************************************)
HandleConfig ==
  /\ Command("CONFIG")
  /\ LET f == Head(toModem) IN
     IF radio = "transmitting"
     THEN /\ Reply("ERROR", f.seq, "busy")
          /\ UNCHANGED <<radio, irq, chip, settings, faults>>
     ELSE \/ /\ settings' = f.info /\ irq' = FALSE
             /\ radio' = "receiving" /\ chip' = "listening" /\ NoFault
             /\ SendStatus(f.seq)
          \/ /\ Reply("ERROR", f.seq, "failed") /\ UNCHANGED settings
             /\ ListenOrFail /\ Fault
          \/ /\ radio = "failed"          \* setup never attached its interrupt
             /\ Reply("ERROR", f.seq, "failed")
             /\ UNCHANGED <<radio, irq, chip, settings, faults>>
  /\ UNCHANGED <<txSequence, boot, answered, started, overtaken, buffer, aired,
                 hostVars, reported>>

(***************************************************************************)
(* handleRadio.  The flag alone says that a transmission has ended; the    *)
(* timer ends one whose interrupt never comes.                             *)
(***************************************************************************)
TXTimeoutAfterInterrupt ==          \* mutated: the flag is looked at first
  /\ radio = "transmitting" /\ irq
  /\ Reply("RESULT", txSequence, "failed")
  /\ StartReceive
  /\ UNCHANGED <<txSequence, settings, boot, answered, started, overtaken, buffer, aired,
                 hostVars, toModem, reported>>

TXTimeout ==
  /\ radio = "transmitting"
  /\ Reply("RESULT", txSequence, "failed")
  /\ StartReceive
  /\ UNCHANGED <<txSequence, settings, boot, answered, started, overtaken, buffer, aired,
                 hostVars, toModem, reported>>

TXDoneWithoutStartReceive ==        \* mutated: the radio is not put back to listening
  /\ irq /\ radio = "transmitting"
  /\ \E state \in {"ok", "failed"} : Reply("RESULT", txSequence, state)
  /\ irq' = FALSE /\ radio' = "receiving" /\ UNCHANGED <<chip, faults>>
  /\ UNCHANGED <<txSequence, settings, boot, answered, started, overtaken, buffer, aired,
                 hostVars, toModem, reported>>

TXDone ==
  /\ irq /\ radio = "transmitting"
  /\ \E state \in {"ok", "failed"} : Reply("RESULT", txSequence, state)
  /\ StartReceive
  /\ UNCHANGED <<txSequence, settings, boot, answered, started, overtaken, buffer, aired,
                 hostVars, toModem, reported>>

RXDone ==
  /\ irq /\ radio = "receiving"
  /\ IF buffer = "unreadable"
     THEN Reply("ERROR", 0, "unreadable") /\ UNCHANGED reported
     ELSE Reply("RX", 0, buffer) /\ reported' = Append(reported, buffer)
  /\ StartReceive
  /\ UNCHANGED <<txSequence, settings, boot, answered, started, overtaken, buffer, aired,
                 hostVars, toModem>>

\* setup: the settings of the previous run are gone
ModemReset ==
  /\ Fault
  /\ boot' = boot + 1 /\ settings' = "default"
  /\ ListenOrFail
  /\ toModem' = <<>>
  /\ UNCHANGED <<txSequence, answered, started, overtaken, buffer, aired,
                 hostVars, toHost, reported>>

ModemStep == \/ HandleInfo \/ HandleTX \/ HandleConfig \/ TXTimeout \/ TXDone
             \/ RXDone \/ ModemReset

-----------------------------------------------------------------------------
(***************************************************************************)
(* The SX1262 and the lines.  A packet received before the last one was    *)
(* read replaces it.                                                       *)
(***************************************************************************)
HearPacket ==
  /\ chip = "listening"
  /\ \/ /\ buffer' \in Packets \ ({reported[i] : i \in 1 .. Len(reported)} \cup {buffer})
        /\ NoFault
     \/ buffer' = "unreadable" /\ Fault
  /\ irq' = TRUE
  /\ UNCHANGED <<radio, txSequence, settings, boot, answered, started, overtaken, chip, aired,
                 hostVars, toModem, toHost, reported>>

FinishSending ==
  /\ chip = "sending"
  /\ chip' = "standby" /\ irq' = TRUE
  /\ aired' = aired \cup {txSequence}
  /\ UNCHANGED <<radio, txSequence, settings, boot, answered, started, overtaken, buffer,
                 hostVars, toModem, toHost, reported, faults>>

LoseFrame ==
  /\ Fault
  /\ \/ \E i \in 1 .. Len(toModem) :
          toModem' = Remove(toModem, i) /\ UNCHANGED <<toHost, reported>>
     \/ \E i \in 1 .. Len(toHost) :
          /\ toHost' = Remove(toHost, i)
          /\ IF toHost[i].type = "RX"
             THEN \E k \in 1 .. Len(reported) : /\ reported[k] = toHost[i].info
                                               /\ reported' = Remove(reported, k)
             ELSE UNCHANGED reported
          /\ UNCHANGED toModem
  /\ UNCHANGED <<hostVars, modemVars, chipVars>>

Next == HostStep \/ ModemStep \/ HearPacket \/ FinishSending \/ LoseFrame

(***************************************************************************)
(* Run calls Receive at every turn and a request returns by its deadline;  *)
(* loop calls handleSerial and handleRadio, whose timer always expires.    *)
(* That the SX1262 ever reports the end of a transmission is not assumed.  *)
(***************************************************************************)
Fairness ==
  /\ WF_vars(ReadAnswer \/ Timeout) /\ WF_vars(Receive)
  /\ WF_vars(Synchronise \/ Configure)
  /\ WF_vars(TXTimeout)

Spec == Init /\ [][Next]_vars /\ Fairness

-----------------------------------------------------------------------------
(***************************************************************************)
(* A caller of Send that gets no error can rely on it: the packet left the *)
(* antenna entirely -- save one that another packet overtook while the     *)
(* radio was being switched, whose interrupt is read as the end of the     *)
(* transmission.                                                           *)
(***************************************************************************)
SentMeansOnAir == sentOK \subseteq aired \cup overtaken

(***************************************************************************)
(* No request transmits twice, whatever times out or is repeated           *)
(* (client.go:118: "retransmitting TX could send a packet twice"), and     *)
(* packets leave in the order they were asked for.                         *)
(***************************************************************************)
TransmittedInOrderOnce ==
  \A i, j \in 1 .. Len(started) : i < j => started[i] < started[j]

(***************************************************************************)
(* Frames set aside while a request waits stay in line: every packet the   *)
(* modem reports, unless its frame was damaged, reaches Receive once and   *)
(* in the order it was heard.                                              *)
(***************************************************************************)
PacketsOn(line) == {i \in 1 .. Len(line) : line[i].type = "RX"}

\* past is the beginning of all, and the packets on line are the rest of it
Continues(past, line, all) ==
  /\ Len(past) <= Len(all) /\ \A k \in 1 .. Len(past) : past[k] = all[k]
  /\ \E at \in [Len(past) + 1 .. Len(all) -> PacketsOn(line)] :
       /\ \A k, l \in DOMAIN at : k < l => at[k] < at[l]
       /\ \A i \in PacketsOn(line) : \E k \in DOMAIN at : at[k] = i
       /\ \A k \in DOMAIN at : line[at[k]].info = all[k]

PacketsInOrder == Continues(delivered, pending \o toHost, reported)

(***************************************************************************)
(* A host with radio settings of its own serves only on a modem that had   *)
(* them at the readback; until the modem is reset they stay.               *)
(***************************************************************************)
ServesConfigured == pc = "ready" /\ answered = boot => settings = wants

(***************************************************************************)
(* Half duplex: the modem always comes back from a transmission.           *)
(***************************************************************************)
StopsTransmitting == []<>(radio # "transmitting")

(***************************************************************************)
(* Nothing stays behind: a packet reported to a serving host is delivered  *)
(* or its frame was damaged, unless the host ends.                         *)
(***************************************************************************)
ReportedIsDelivered ==
  \A p \in Packets :
    (\E i \in 1 .. Len(reported) : reported[i] = p)
      ~> \/ pc = "ended"
         \/ \E i \in 1 .. Len(delivered) : delivered[i] = p
         \/ \A i \in 1 .. Len(reported) : reported[i] # p

(***************************************************************************)
(* Packet loss is expected (docs/troubleshooting.md, "Packet Loss Despite  *)
(* Strong Signal"): nothing that is heard ends a serving host.             *)
(***************************************************************************)
LossIsTolerated == [][pc = "ready" => pc' = "ready"]_vars

=============================================================================
