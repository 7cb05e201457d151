------------------------------- MODULE Broker -------------------------------
(***************************************************************************)
(* The broker (broker/mdtv2-broker.py) between redis and the MCU on the    *)
(* serial line.  One thread feeds the bytes of the line to a framer and    *)
(* publishes the telegrams, another one frames what is published for the   *)
(* bus.  The line may lose or change a byte; frames carry a CRC.           *)
(*                                                                         *)
(* A byte on the line is a sequence: <<b>>, or for the two bytes of a CRC, *)
(* which is taken to be free of collisions, what the CRC was computed      *)
(* from.                                                                   *)
(***************************************************************************)
EXTENDS Naturals, Sequences, SequencesExt

CONSTANT MaxPayload

ASSUME BrokerAssumption == MaxPayload \in 1 .. 255

VARIABLES
    uart,       \* bytes from the MCU that have not been read
    framer,     \* the state of the framer
    lastSent,   \* body of the last telegram for the bus, <<>> before the first
    tx,         \* published for the MCU: [chan, body]
    rx,         \* published for the gateway: [t, own]
    faults      \* bound: bytes the line still spoils, publications redis still refuses

brokerVars == <<uart, framer, lastSent, tx, rx, faults>>

ChanMl == 0
ChanDl86 == 17
ChanDl80 == 18
ChanGpio == 32

Sync1 == <<85>>
Sync2 == <<170>>
CrcLo(chan, payload) == <<0, chan>> \o payload
CrcHi(chan, payload) == <<1, chan>> \o payload

BuildFrame(chan, payload) ==
    <<Sync1, Sync2, <<chan>>, <<Len(payload)>>>>
    \o [i \in 1 .. Len(payload) |-> <<payload[i]>>]
    \o <<CrcLo(chan, payload), CrcHi(chan, payload)>>

Reset == [at |-> "sync1", chan |-> 0, len |-> 0, payload |-> <<>>, lo |-> <<>>]

BrokerInit ==
    /\ uart = <<>> /\ framer = Reset /\ lastSent = <<>> /\ tx = <<>> /\ rx = <<>>

-----------------------------------------------------------------------------
(* The framer *)

\* _feed_byte, but for the end of a frame; bytes are compared by their value.
FeedByte(f, b) ==
    CASE f.at = "sync1"   -> IF b = Sync1 THEN [f EXCEPT !.at = "sync2"] ELSE f
      [] f.at = "sync2"   -> IF b = Sync2 THEN [f EXCEPT !.at = "chan"]
                             ELSE IF b # Sync1 THEN [f EXCEPT !.at = "sync1"] ELSE f
      [] f.at = "chan"    -> [f EXCEPT !.chan = b[1], !.at = "len"]
      [] f.at = "len"     -> IF b[1] > MaxPayload THEN Reset
                             ELSE [f EXCEPT !.len = b[1], !.payload = <<>>,
                                            !.at = IF b[1] = 0 THEN "crc lo" ELSE "payload"]
      [] f.at = "payload" -> [f EXCEPT !.payload = Append(@, b[1]),
                                       !.at = IF Len(f.payload) + 1 = f.len THEN "crc lo" ELSE @]
      [] f.at = "crc lo"  -> [f EXCEPT !.lo = b, !.at = "crc hi"]
      [] f.at = "crc hi"  -> Reset

\* Mutant: the checksum is not compared.
CompleteUnchecked(f, b) == f.at = "crc hi"

Complete(f, b) ==
    /\ f.at = "crc hi"
    /\ f.lo = CrcLo(f.chan, f.payload) /\ b = CrcHi(f.chan, f.payload)

\* _on_wire_frame: a telegram that begins like the last one sent is taken for its echo.  The
\* other channels have no reader here.
OnWireFrame(chan, payload) ==
    IF chan = ChanMl /\ ~(lastSent # <<>> /\ IsPrefix(lastSent, payload))
    THEN rx' = Append(rx, [t |-> payload, own |-> FALSE])
    ELSE UNCHANGED rx

\* _serial_reader, byte by byte; what cannot be published is lost.
SerialReader ==
    /\ uart # <<>>
    /\ uart' = Tail(uart)
    /\ framer' = FeedByte(framer, Head(uart))
    /\ \/ /\ Complete(framer, Head(uart))
          /\ OnWireFrame(framer.chan, framer.payload)
          /\ UNCHANGED faults
       \/ ~Complete(framer, Head(uart)) /\ UNCHANGED <<rx, faults>>
       \/ /\ Complete(framer, Head(uart)) /\ faults > 0
          /\ faults' = faults - 1
          /\ UNCHANGED rx
    /\ UNCHANGED <<lastSent, tx>>

-----------------------------------------------------------------------------
(* To the MCU *)

\* send_ml, send_dl86, send_dl80, send_gpio: the bodies they pass on; a Datalink 86 one has
\* the number of its bits in front.
Sendable(m) ==
    /\ Len(m.body) <= MaxPayload
    /\ m.chan = ChanDl86 => Len(m.body) > 1
    /\ m.chan = ChanDl80 => Len(m.body) = 1
    /\ m.chan = ChanGpio => Len(m.body) <= 1

\* The MCU answers every GPIO frame with the state of its pins, and puts a telegram on the
\* bus without an echo.
McuTakes(m) ==
    IF m.chan = ChanGpio THEN uart' = uart \o BuildFrame(ChanGpio, <<1>>) ELSE UNCHANGED uart

\* _redis_subscriber
RedisSubscriber ==
    /\ tx # <<>>
    /\ tx' = Tail(tx)
    /\ IF Sendable(Head(tx))
       THEN /\ McuTakes(Head(tx))
            /\ lastSent' = IF Head(tx).chan = ChanMl THEN Head(tx).body ELSE lastSent
       ELSE UNCHANGED <<uart, lastSent>>
    /\ UNCHANGED <<framer, rx, faults>>

\* A publication on link:ml:transmit reaches the broker and the gateway.
PublishMl(t) ==
    /\ tx' = Append(tx, [chan |-> ChanMl, body |-> t])
    /\ rx' = Append(rx, [t |-> t, own |-> TRUE])

-----------------------------------------------------------------------------
(* The line *)

\* A telegram of a device, with its checksum and end marker.
DeviceSends(t) ==
    /\ uart' = uart \o BuildFrame(ChanMl, t \o <<7, 0>>)
    /\ UNCHANGED <<framer, lastSent, tx, rx>>

\* A byte is lost, or becomes another one; which is seen when it is read.
Noise(bytes) ==
    /\ uart # <<>>
    /\ faults > 0 /\ faults' = faults - 1
    /\ uart' \in {Tail(uart)} \union {<<b>> \o Tail(uart) : b \in bytes}
    /\ UNCHANGED <<framer, lastSent, tx, rx>>

================================================================================
