------------------------------ MODULE V42Link ------------------------------
(***************************************************************************)
(* The data link on a trained V.22bis carrier: V.42 detection, LAPM        *)
(* establishment and the fallback to plain asynchronous characters, with   *)
(* the part of the live modem that waits for the link and hands its bytes  *)
(* to PPP.  A block of received audio is a sequence of things heard, then  *)
(* the end of the block, where the timers are and the modem looks.  The    *)
(* V.42 entity of SpanDSP and the caller are external.                     *)
(***************************************************************************)
EXTENDS Naturals, Sequences

CONSTANTS
  LinkModes,   \* the values of V22LinkMode the start-up selects
  T400,        \* kV42DetectionTimerSamples, in blocks
  Watchdog,    \* kV42EstablishmentWatchdogSamples, in blocks
  MaxHeard,    \* bound: things heard in one block
  MaxSaid,     \* bound: characters and frames of the caller
  MaxFed       \* bound: bytes PPP sends

ASSUME TimersOrdered == T400 \in Nat \ {0} /\ Watchdog \in Nat /\ T400 <= Watchdog
ASSUME BoundsAreNat == MaxHeard \in Nat /\ MaxSaid \in Nat /\ MaxFed \in Nat
ASSUME ModesKnown == LinkModes \subseteq {"raw", "detect", "lapm"}

VARIABLES
  link,    \* SpanV22Modem::Impl; see Link
  dsp,     \* the V.42 entity of SpanDSP
  caller,  \* see Caller
  heard,   \* things heard in the block being received
  live,    \* LiveModem::state_, "Left" once V.22 was given up
  late,    \* 20 s of V.22 training have passed
  taken,   \* bytes handed to PPP
  fed,     \* bytes PPP has sent
  sent     \* bytes that left for the line

vars == <<link, dsp, caller, heard, live, late, taken, fed, sent>>

Async   == {"mark", "char", "torn"}           \* idle line, character, no stop bit
Xids    == {"xidBis", "xidPlain"}             \* XID with and without usable V.42bis
Frames  == Xids \cup {"sabme", "info", "disc"}
Sounds  == Async \cup Frames \cup {"odp", "refusal", "flag"}
Signals == {"trained", "down", "failed"}      \* sp_put_bit's negative bits

\* A received byte: which one of the caller's (0: none of them), the receiver
\* that decoded it, and whether the caller had compressed it.
Byte == [n: 0 .. MaxSaid, by: {"async", "lapm", "bis"}, bis: BOOLEAN]

\* raw: raw_mode.  detT, linkT: the two sample counters.  probe, probeSync:
\* v42_probe_bits, as the bytes and the state their replay will end in.
Link == [mode: LinkModes \cup {"raw"}, raw: BOOLEAN, det: BOOLEAN, conn: BOOLEAN, neg: BOOLEAN,
         active: BOOLEAN, pending: BOOLEAN, started: BOOLEAN, odp: BOOLEAN, adp: BOOLEAN,
         owns: BOOLEAN, carrier: BOOLEAN, failed: BOOLEAN, sync: BOOLEAN,
         detT: 0 .. T400, linkT: 0 .. Watchdog, rx: Seq(Byte),
         probe: Seq(Byte), probeSync: BOOLEAN, lapmTx: Seq(1 .. MaxFed), rawTx: Seq(1 .. MaxFed)]

\* bis: it compresses.  plain: the characters after the first idle line, as
\* long as it has sent nothing but characters, none of them torn (clean).
Caller == [said: 0 .. MaxSaid, bis: BOOLEAN, idle: BOOLEAN, clean: BOOLEAN, plain: Seq(1 .. MaxSaid)]

TypeOK ==
  /\ link \in Link /\ caller \in Caller
  /\ dsp \in {"detect", "adp", "establish", "idle", "data", "release", "off"}
  /\ heard \in 0 .. MaxHeard
  /\ live \in {"V22Training", "V22Data", "Left"} /\ late \in BOOLEAN
  /\ taken \in Seq(Byte) /\ fed \in 0 .. MaxFed /\ sent \in Seq(1 .. MaxFed)

\* start_answer, called by start_v22.
StartAnswer(mode) ==
  [mode |-> mode, raw |-> mode = "raw", det |-> mode = "detect", conn |-> FALSE,
   neg |-> FALSE, active |-> FALSE, pending |-> FALSE, started |-> FALSE, odp |-> FALSE,
   adp |-> FALSE, owns |-> FALSE, carrier |-> FALSE, failed |-> FALSE, sync |-> FALSE,
   detT |-> 0, linkT |-> 0, rx |-> <<>>, probe |-> <<>>, probeSync |-> FALSE,
   lapmTx |-> <<>>, rawTx |-> <<>>]

Init ==
  /\ \E mode \in LinkModes :
       /\ link = StartAnswer(mode)
       /\ dsp = CASE mode = "detect" -> "detect" [] mode = "lapm" -> "idle" [] OTHER -> "off"
  /\ caller = [said |-> 0, bis |-> FALSE, idle |-> FALSE, clean |-> TRUE, plain |-> <<>>]
  /\ heard = 0 /\ live = "V22Training" /\ late = FALSE
  /\ taken = <<>> /\ fed = 0 /\ sent = <<>>

-----------------------------------------------------------------------------
(* The link layer, as functions of the link. *)

\* raw_rx_bit: characters count once the line was idle; what is no character
\* decodes to at most one byte before its missing stop bit shows.
Decoded(rx, sync, sound) ==
  CASE ~sync \/ sound = "mark" -> rx
    [] sync /\ sound = "char"  -> Append(rx, [n |-> caller.said + 1, by |-> "async", bis |-> FALSE])
    [] sync /\ sound = "torn"  -> rx
    [] OTHER -> Append(rx, [n |-> 0, by |-> "async", bis |-> FALSE])
Synced(sync, sound) == sound = "mark" \/ (sync /\ sound = "char")

RawRx(x, sound) == [x EXCEPT !.rx = Decoded(@, x.sync, sound), !.sync = Synced(@, sound)]

\* Mutants: what PPP had queued is dropped, or put behind; the caller's bits of
\* the detection time are dropped.
SwitchToRawDropsTx(x) ==
  [x EXCEPT !.raw = TRUE, !.det = FALSE, !.conn = FALSE, !.active = FALSE, !.adp = FALSE,
            !.owns = FALSE, !.pending = FALSE, !.rx = x.probe, !.sync = x.probeSync,
            !.probe = <<>>, !.probeSync = FALSE, !.lapmTx = <<>>]
SwitchToRawForgets(x) ==
  [x EXCEPT !.raw = TRUE, !.det = FALSE, !.conn = FALSE, !.active = FALSE, !.adp = FALSE,
            !.owns = FALSE, !.pending = FALSE, !.rx = <<>>, !.sync = FALSE,
            !.probe = <<>>, !.probeSync = FALSE,
            !.rawTx = @ \o x.lapmTx, !.lapmTx = <<>>]
SwitchToRawKeepsRx(x) ==
  [x EXCEPT !.raw = TRUE, !.det = FALSE, !.conn = FALSE, !.active = FALSE, !.adp = FALSE,
            !.owns = FALSE, !.pending = FALSE, !.rx = @ \o x.probe, !.sync = x.probeSync,
            !.probe = <<>>, !.probeSync = FALSE,
            !.rawTx = @ \o x.lapmTx, !.lapmTx = <<>>]
SwitchToRaw(x) ==
  [x EXCEPT !.raw = TRUE, !.det = FALSE, !.conn = FALSE, !.active = FALSE, !.adp = FALSE,
            !.owns = FALSE, !.pending = FALSE, !.rx = x.probe, !.sync = x.probeSync,
            !.probe = <<>>, !.probeSync = FALSE,
            !.rawTx = @ \o x.lapmTx, !.lapmTx = <<>>]
IfPending(x) == IF x.pending THEN SwitchToRaw(x) ELSE x

Forgets(x) == [x EXCEPT !.probe = <<>>, !.probeSync = FALSE]

\* v42_status_cb
Connect(x) == [x EXCEPT !.conn = TRUE, !.det = FALSE, !.active = x.neg]
Reported(x, status) ==
  CASE status = "UNSUPPORTED" -> [x EXCEPT !.pending = TRUE, !.det = FALSE]
    [] status = "DATA"        -> Connect(x)
    [] status = "ESTABLISH"   -> [Forgets(x) EXCEPT !.linkT = IF x.det THEN 0 ELSE @,
                                                    !.det = FALSE, !.adp = FALSE]
    [] status = "IDLE"        -> [x EXCEPT !.adp = @ \/ x.odp]
    [] status = "RELEASE"     -> [x EXCEPT !.pending = @ \/ x.mode = "detect"]
    [] status = "CONNECTED"   -> [Connect(x) EXCEPT !.adp = FALSE]
    [] status = "DISCONNECTED" -> [x EXCEPT !.conn = FALSE, !.active = FALSE]
    [] OTHER -> x

\* The observers of sp_put_bit: the first flag ends the extended ADP and hands
\* the frames to the monitor; while detecting, bits are kept and ODP looked for.
FlagSeen(x, sound) ==
  IF sound \in Frames \cup {"flag"} /\ x.odp /\ x.adp
  THEN [x EXCEPT !.adp = FALSE, !.owns = TRUE] ELSE x
Probed(x, sound) ==
  IF ~x.det THEN x
  ELSE IF sound = "odp" THEN [Forgets(x) EXCEPT !.det = FALSE, !.odp = TRUE, !.linkT = 0]
  ELSE [x EXCEPT !.probe = Decoded(@, x.probeSync, sound), !.probeSync = Synced(@, sound)]

\* Mutant: V.42bis is taken for agreed whatever the XID offers.
NegotiatedAlways(x, sound) ==
  IF sound \notin Xids THEN x ELSE [x EXCEPT !.neg = TRUE, !.active = x.conn]
\* lapm_monitor_frame_cb on an XID.
Negotiated(x, sound) ==
  IF sound \notin Xids THEN x
  ELSE [x EXCEPT !.neg = sound = "xidBis", !.active = x.conn /\ sound = "xidBis"]

-----------------------------------------------------------------------------
(* SpanDSP: what its V.42 entity may do, <<next state, status reported>>.  *)
(* It may miss anything, and once the monitor owns the receiver it is      *)
(* handed complete frames only.  "off": not called any more.               *)

DspHears(owns, sound) ==
  {<<dsp, "none">>} \cup
  IF owns /\ sound \notin Frames THEN {}
  ELSE CASE sound = "odp" /\ dsp = "detect" -> {<<"adp", "none">>}
         [] sound = "refusal" /\ dsp \in {"detect", "adp"} -> {<<"off", "UNSUPPORTED">>}
         [] sound = "sabme" /\ dsp \in {"establish", "idle"} ->
              {<<"data", "DATA">>, <<"data", "CONNECTED">>}
         [] sound = "disc" /\ dsp = "data" ->
              {<<"idle", "DISCONNECTED">>, <<"release", "RELEASE">>}
         [] sound \in Frames \cup {"flag"} /\ dsp \in {"detect", "adp"} ->
              {<<"establish", "ESTABLISH">>}
         [] OTHER -> {}

DspSends ==
  CASE dsp = "detect" -> {<<"off", "UNSUPPORTED">>}
    [] dsp = "adp" -> {<<"idle", "IDLE">>}
    [] dsp \in {"establish", "data"} -> {<<"release", "RELEASE">>}
    [] dsp = "release" -> {<<"idle", "DISCONNECTED">>}
    [] OTHER -> {}

-----------------------------------------------------------------------------
(* Receiving: sp_put_bit, called by the data pump inside a block. *)

Audible == live # "Left" /\ heard < MaxHeard /\ heard' = heard + 1

Listening == link.raw \/ link.started
Leaves(sound) == \* a byte, be it of the caller's or not
  sound \in {"char", "info"} \/ (sound \notin Async /\ (link.sync \/ link.probeSync))

CallerSays(sound) ==
  /\ Leaves(sound) => caller.said < MaxSaid
  /\ caller' =
       [caller EXCEPT
          !.said  = IF Leaves(sound) THEN @ + 1 ELSE @,
          !.bis   = IF sound \in Xids /\ Listening /\ ~link.raw THEN sound = "xidBis" ELSE @,
          !.idle  = @ \/ (sound = "mark" /\ Listening),
          !.clean = @ /\ sound \in {"mark", "char"} /\ ~(link.pending /\ sound = "char"),
          !.plain = IF sound = "char" /\ caller.idle THEN Append(@, caller.said + 1) ELSE @]

\* v42_put_frame
Payload(x, sound) ==
  IF sound = "info" /\ dsp = "data"
  THEN [x EXCEPT !.rx = Append(@, [n |-> caller.said + 1, bis |-> caller.bis,
                                   by |-> IF x.active THEN "bis" ELSE "lapm"])]
  ELSE x

HearRaw(sound) == link.raw /\ link' = RawRx(link, sound) /\ UNCHANGED dsp

HearUnstarted(sound) == ~Listening /\ UNCHANGED <<link, dsp>>

\* A switch asked for while sending comes with the next bit received: neither
\* the probe nor the raw receiver gets that bit, which tears its character.
HearSwitch(sound) ==
  /\ link.pending
  /\ link' = RawRx(SwitchToRaw(link), IF sound = "char" THEN "torn" ELSE sound)
  /\ dsp' = "off"

HearV42(sound) ==
  /\ ~link.raw /\ link.started /\ ~link.pending
  /\ LET x == Probed(FlagSeen(link, sound), sound) IN
     \E d \in DspHears(x.owns, sound) :
       /\ link' = IfPending(Negotiated(Payload(Reported(x, d[2]), sound), sound))
       /\ dsp' = IF link'.raw THEN "off" ELSE d[1]

Hear ==
  /\ Audible
  /\ \E sound \in Sounds :
       /\ CallerSays(sound)
       /\ HearRaw(sound) \/ HearUnstarted(sound) \/ HearSwitch(sound) \/ HearV42(sound)
  /\ UNCHANGED <<live, late, taken, fed, sent>>

PumpReports ==
  /\ Audible
  /\ \E signal \in Signals :
       link' = [link EXCEPT !.carrier = signal = "trained",
                            !.failed  = @ \/ signal = "failed",
                            !.started = @ \/ (signal = "trained" /\ link.mode # "raw")]
  /\ UNCHANGED <<dsp, caller, live, late, taken, fed, sent>>

\* Mutant: a timer that stops with ODP.
TimedUntilOdp(x) ==
  IF ~(x.carrier /\ x.mode = "detect" /\ ~x.raw /\ x.det) THEN x
  ELSE LET y == [x EXCEPT !.linkT = @ + 1, !.detT = @ + 1]
       IN  IF y.detT >= T400 THEN SwitchToRaw(y) ELSE y
\* receive_pcm after the block: T400, then the establishment watchdog.
Timed(x) ==
  LET linkT == x.linkT + 1
      detT  == x.detT + 1
  IN  IF ~(x.carrier /\ x.mode = "detect" /\ ~x.raw /\ ~x.conn) THEN x
      ELSE IF x.det
           THEN LET y == [x EXCEPT !.linkT = linkT, !.detT = detT]
                IN  IF detT >= T400 THEN SwitchToRaw(y) ELSE y
           ELSE LET y == [x EXCEPT !.linkT = linkT]
                IN  IF linkT >= Watchdog THEN SwitchToRaw(y) ELSE y
Ready(x) == x.mode = "raw" \/ x.conn \/ x.raw

\* fallback_from_v22: the object is destroyed; LiveModem begins the next rung.
GivesUp(x) == x.failed \/ (live = "V22Training" /\ ~x.carrier /\ late)

\* The end of LiveModem::receive_pcm: take the bytes, then look at the link.
EndOfBlock ==
  /\ live # "Left" /\ heard' = 0
  /\ LET x == Timed(IfPending(link)) IN
       /\ taken' = taken \o x.rx
       /\ live' = CASE GivesUp(x) -> "Left"
                    [] ~GivesUp(x) /\ x.carrier /\ Ready(x) -> "V22Data"
                    [] OTHER -> live
       /\ link' = IF GivesUp(x) THEN StartAnswer("raw") ELSE [x EXCEPT !.rx = <<>>]
  /\ dsp' = IF link'.raw THEN "off" ELSE dsp
  /\ UNCHANGED <<caller, late, fed, sent>>

\* The transmit clock passes 20 s.
TrainingTimeElapses ==
  /\ live = "V22Training" /\ ~late /\ late' = TRUE
  /\ UNCHANGED <<link, dsp, caller, heard, live, taken, fed, sent>>

-----------------------------------------------------------------------------
(* Sending: sp_get_bit, called by the data pump in next_tx_pcm, between    *)
(* two blocks, and the bytes PPP hands over.                               *)

Between == live # "Left" /\ heard = 0
SendsV42 == ~link.raw /\ link.started /\ ~link.adp

PlayAsync ==
  /\ Between /\ link.raw /\ link.rawTx # <<>>
  /\ sent' = Append(sent, Head(link.rawTx))
  /\ link' = [link EXCEPT !.rawTx = Tail(@)]
  /\ UNCHANGED <<dsp, caller, heard, live, late, taken, fed>>

\* v42_get_frame
PlayFrame ==
  /\ Between /\ SendsV42 /\ dsp = "data" /\ link.lapmTx # <<>>
  /\ \E k \in 1 .. Len(link.lapmTx) :
       /\ sent' = sent \o SubSeq(link.lapmTx, 1, k)
       /\ link' = [link EXCEPT !.lapmTx = SubSeq(@, k + 1, Len(@))]
  /\ UNCHANGED <<dsp, caller, heard, live, late, taken, fed>>

PlayControl ==
  /\ Between /\ SendsV42
  /\ \E d \in DspSends : dsp' = d[1] /\ link' = Reported(link, d[2])
  /\ UNCHANGED <<caller, heard, live, late, taken, fed, sent>>

FeedBytes ==
  /\ Between /\ live = "V22Data" /\ fed < MaxFed /\ fed' = fed + 1
  /\ link' = IF link.raw THEN [link EXCEPT !.rawTx = Append(@, fed')]
                         ELSE [link EXCEPT !.lapmTx = Append(@, fed')]
  /\ UNCHANGED <<dsp, caller, heard, live, late, taken, sent>>

-----------------------------------------------------------------------------
Next == Hear \/ PumpReports \/ EndOfBlock \/ TrainingTimeElapses
          \/ PlayAsync \/ PlayFrame \/ PlayControl \/ FeedBytes

\* Audio keeps arriving, 160 samples at a time, and the transmit clock runs.
Fairness == WF_vars(EndOfBlock) /\ WF_vars(TrainingTimeElapses)

Spec == Init /\ [][Next]_vars
FairSpec == Spec /\ Fairness

-----------------------------------------------------------------------------
(* Properties. *)

\* feed_bytes and switch_to_raw: no byte of PPP is lost, sent twice or
\* overtaken, whenever the link changes from LAPM to plain characters.
SentInOrder == live # "Left" => sent \o link.rawTx \o link.lapmTx = [i \in 1 .. fed |-> i]

\* One receiver at a time: LAPM hears nothing any more once PPP gets plain
\* characters, and no character was handed over before.  What LAPM delivered is
\* decompressed exactly if the caller compressed it.
OneReceiver ==
  /\ ~link.raw => \A i \in 1 .. Len(link.rx) : link.rx[i].by # "async"
  /\ link.raw  => \A i \in 1 .. Len(link.rx) : link.rx[i].by = "async"
  /\ link.active => ~link.raw /\ link.conn
DecodedAsSent ==
  \A i \in 1 .. Len(link.rx) : link.rx[i].by # "async" => (link.rx[i].by = "bis") = link.rx[i].bis

\* A caller that knows no V.42 is heard from its first idle line on: what it
\* sent during the detection reaches PPP, once, and before the rest.
PlainCallerHeard ==
  live # "Left" /\ link.raw /\ caller.clean =>
    [i \in 1 .. Len(taken \o link.rx) |-> (taken \o link.rx)[i].n] = caller.plain

\* Where V.42 has to be detected, training ends: with data or without.
TrainingEnds == live = "V22Training" /\ link.mode # "lapm" ~> live # "V22Training"

\* span_v22.hpp: no failed SABME/UA exchange leaves a trained carrier stuck.
EstablishmentBounded ==
  live = "V22Training" /\ link.carrier ~> live # "V22Training" \/ ~link.carrier
=============================================================================
