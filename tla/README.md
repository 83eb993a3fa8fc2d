# A TLA+ verification project for v92isp

v92isp answers a SIP call on a Windows PC, trains a modem over the call's PCMU
audio, runs a PPP server over the modem's byte stream and forwards the caller's
IPv4 packets to the Internet through a one-peer NAT. The specifications beside
this file model the parts of it that keep state, TLC checks them on small
instances, and TLAPS proves what matters most for every instance.

## 1. The system

```
 caller's modem ~ ATA ~ SIP/RTP ~ PJSIP worker thread ~ LiveModem ~ PPP server ~ NAT ~ Internet
                                  (pjsip_frontend)      (live_modem) (ppp_userspace) (windivert_nat)
                                         \__________ main loop, every 10 ms __________/
                                                  (windows_pjsip_main)
```

| Component (src/src) | State | Operations | Hard behaviour | What makes it correct |
|---|---|---|---|---|
| PPP server `ppp_userspace.cpp` | phase, acknowledged halves of LCP/IPCP, identifiers, stored requests, retry counters, PAP users, two queues | reset, start, tick, feed_serial (LCP, PAP, IPCP, IP), feed_ip_packet, take_ | lost/duplicated/late frames, renegotiation on an open link, timeouts | no traffic past PAP, no half-open network phase, negotiation ends |
| SIP front end `pjsip_frontend.cpp` | current call, `active`, event queue, the modem under a mutex | onIncomingCall, onCallState, media callbacks, pop_event, hangup_current_call | three threads; a call may end and another begin between two statements of the main loop | bytes of one call never reach the next; a hangup hits the call it was meant for |
| Main loop `windows_pjsip_main.cpp` | ppp_started, the hangup deadline | one iteration every 10 ms | reads events, modem state and bytes at different instants | PPP is reset for every call, a terminated caller is hung up |
| Modem session `live_modem.cpp` | LiveState (37 states), timers, retry counts, PPP byte queues | start_call, end_call, receive_pcm, next_tx_pcmu, feed/take PPP bytes | the start-up ladder V.8 -> V.90 / V.22bis / V.22 / V.21, retrains and fallbacks, timeouts | each call reaches data mode or Failed; a late fallback never leaves two receivers running |
| V.22bis/V.42 link `span_v22.cpp` | detection, LAPM, plain characters, two byte queues, two timers | bit callbacks, status callback, receive_pcm, feed_bytes, take_bytes | a switch asked for by four different callers, in the middle of a block or between two; timers race the peer | both byte streams stay whole through the switch, the wait for a link ends |
| V.90 receivers `v90_phase3_rx.cpp`, `v90_phase2.cpp`, `v90_phase3.cpp`, `v90_pcm.cpp`, `v34_qam.cpp` | sequence detectors, scramblers, CRC-checked info frames, mappers | sample by sample | long sequences of events, frame synchronisation | detectors accept a complete sequence once, in order |
| NAT `windivert_nat.cpp` | forward and reverse maps, next port, the queue to the peer | send_from_peer, capture thread, take_to_peer, expire_old | two threads, port reuse, expiry races a reply | the maps stay inverse of each other, replies reach the flow that asked |
| UDP SIP/RTP server `sip_rtp.cpp` | one dialog, registration, RTP sequence | INVITE, ACK, BYE, CANCEL, REGISTER | retransmitted requests | one call at a time, no dialog clobbered |
| UDP main loop `windows_main.cpp`, `live_main.cpp`, `ppp_bridge_main.cpp`, `ppp_tun_main.cpp` | as the main loop | | | |
| G.711, async framing, tables `g711.cpp`, `async_serial.cpp`, `modem_modes.cpp`, `v21.cpp`, `v23.cpp`, `answer_tones.cpp` | filters | pure or DSP | | |
| Wintun adapter, pppd backend `wintun_adapter.cpp`, `ppp_backend.cpp` | handles | OS I/O | | |


PROJECT.json lists every component with its status and, under `hazards`, every
behaviour that is hard to test, at its line, with the properties that cover it.

## 2. Plan

| Order | Module | Question | Status |
|---|---|---|---|
| 1 | PppAccess, PppServer, PppServer_proofs | who gets IP traffic, and after what | done, proved |
| 2 | PppLink (PppServer with a client over a lossy line), PppLink_proofs | do both ends come up and agree | done, agreement proved |
| 3 | CallSession, CallSession_proofs | three threads and two calls in a row | done, safety proved |
| 4 | PortTable, WinDivertNat, WinDivertNat_proofs | two threads and one translation table | done, proved |
| 5 | LiveModem, LiveModem_proofs | the start-up ladder, retrains, time-outs | done, safety proved |
| 6 | V42Link, V42Link_proofs | both byte streams through detection and fallback | done, both directions proved |
| 7 | SipRtp, SipRegister, SipUdp (their composition), SipUdp_proofs | one line, symmetric RTP and sequence numbers over UDP, registration, with the loop of `windows_main.cpp` | done, safety proved |
| 8 | V90Downstream, V90Downstream_proofs | six-symbol frames through the end of DIL, TRN2d, MP, Ed, B1d and data | done, proved |
| 9 | V90Frames, V90Phase3Rx | Ja, CPt, CP and CP' found in a stream of bits at every offset | done, TLC |
| 10 | V90Downstream_proofs | FramesDecode for every mapping: induction over the frames sent, from ShaperUndone and the carried digits | done, proved |
| 11 | INFO frames of `v90_phase2.cpp` | the same for INFO0a and INFO1a | not begun |
| 12 | NAT over two calls | what of one caller's table the next one meets | not begun |

Abstract specifications: PppAccess (the operator's policy) and PortTable (a
one-to-one table), each implemented by the module beside it. What V42Link and
V90Downstream promise, two byte pipes and a pipe of frames, is stated over the
history of what went in and what came out.

## 3. The modules

### PppAccess, PppServer, PppLink: `ppp_userspace.cpp`

PppServer has one variable per field of `UserPppServer` and one action per entry
point: `Reset`, `Start`, `TickLcp`/`TickIpcp`, `FeedSerial` (one frame;
`ProcessLcp`, `ProcessPap`, `ProcessIpcp`, `ProcessIp`), `FeedIpPacket` and the
two `Take...`. A frame is its protocol, code, identifier and the set of options it
carries, with the class of their values; the FCS and the escapes decide only
whether a frame arrives. A configure request is answered by Reject, Nak or Ack in
the order of the code's tests. `lcpDue`, `ipcpDue` stand for the two 3 s timers.
PppAccess says what the operator is promised: a caller climbs from "down" to "up"
one stage at a time, past a password when one is required, and traffic exists at
the top only. PppServer implements it under the mapping at the end of the module.

PppLink puts the server at one end of the modem line and a PPP client at the
other. The line keeps the order of frames and may corrupt some (`Corrupt`), a
timer may run out while the answer is under way (`Timely`), the client may start
over or vanish. The client is external; it is the RFC 1661 automaton the server's
handlers expect.

### CallSession: `pjsip_frontend.cpp`, `windows_pjsip_main.cpp`

Three threads over shared state: the PJSIP worker (`IncomingCall`, `SetActive`,
`PushStarted`, `Answer`, `Disconnected`, `EndCall`, `ClearActive`, `PushEnded`),
the audio thread (`Decode`, `SendToLine`, training) and the main loop, whose
program counter `pc` stands before the statement executed next. Every statement
that takes `mutex_` is one action, so another thread may run between any two of
them, as it may in the code. Bytes carry the call they came from, which is what
CallsSeparate compares. The PPP server is reduced to what the loop sees of it:
whom it was started for, whom it has heard, whether the phase is Terminating.

### PortTable, WinDivertNat: `windivert_nat.cpp`

`forward`, `reverse` and `nextPort` are the fields of the NAT. The main loop's
`send_from_peer` is two actions (`SendFromPeer` reads the clock, `Map` holds the
lock), the capture thread's `recv_loop` is three (`Receive` reads the clock,
`TranslateInbound` and `QueueToPeer` hold the two locks in turn). Time is a clock
of `Wrap` values, so the unsigned difference in `expire_old` can wrap. PortTable
is the table a reader has in mind: pairs of flow and key, one to one. A packet
arrives from outside with its key (`arrived`, which is `in.key`); it is admitted for
the flow that holds this very key when it is looked up, or refused if none does, and
queued in order while there is room. The Internet may send with the key of any flow
and port, whether it is in use or not, and with keys of remotes the caller sends
nothing to (`Strangers`).

### LiveModem: `live_modem.cpp`

The 37 values of `LiveState`, the transmit queue `tx_pcmu_` as a sequence of named
signals, the flags, retry counters and helper objects of the start-up ladder.
What arrives is an action per detection (`RxInfo0a`, `RxTone`, `RxS`, `RxCPt`,
...), with the guards of `receive_pcm` and `feed_v90_phase2_rx`; the transmit side
is `Play`/`Advance` (the queue runs out and the state moves on) and one action
per time-out of `next_tx_pcmu`. A detector may find its signal at any time or
never, so nothing is assumed of the caller. Sample counts are left out: a time-out
may come whenever its state lasts.

### V42Link: `span_v22.cpp` and its use in `live_modem.cpp`

`link` is `SpanV22Modem::Impl`. A block of received audio is a number of things
heard (`Hear`: an idle line, a character, ODP, flags, XID, SABME, an information
frame, DISC, a refusal) and signals of the data pump (`PumpReports`), closed by
`EndOfBlock`: the pending switch, T400, the watchdog, then `LiveModem` takes the
bytes and looks at the link. Between blocks the pump asks for bits (`PlayAsync`,
`PlayFrame`, `PlayControl`) and PPP hands bytes over (`FeedBytes`). What SpanDSP's
V.42 entity may report is external (`DspHears`, `DspSends`) and may fail to report
anything. Received bytes carry their number, the receiver that decoded them and
whether the caller had compressed them. `HearSwitch` is the case in which a switch
was asked for while sending: the next received bit is given to no receiver at all.

### SipRtp, SipRegister, SipUdp: `sip_rtp.cpp`, `windows_main.cpp`

One thread reads a SIP and an RTP socket. SipRtp is a telephone line seen by
several callers: `Invite`, `Cancel`, `Hangup` and their repetitions put requests on
the network, which keeps a set of them and so reorders and repeats; `HandleSip` is
`handle_sip` for each method, with `Busy`, `NoCommonCodec`, `Accept`,
`AcceptNotSent` and `End` for its outcomes and `StartSession`, `EndSession` for
what the loop does on CallStarted and CallEnded. `ModemConnects` and `FallBack` are
what the loop sees of `data_connected()`: the modem comes to data mode, may lose it
(a V.22 failure in V22Data) and may come to it again, in one session; PPP stays
started over it, as in CallSession (`Retrain`). `RecvRtp` is `recv_rtp` with the
symmetric peer, the sequence number modulo `SeqMod` and the silence put in for a
gap; `SkipRtp` is a datagram it drops. `timeline` is a history: which packets of
whom the modem has been given. SipRegister is the registration: `Refresh` the
timer of the loop, `HandleResponse` the three kinds of answers. The registrar is
external; it challenges, changes its nonce, fails and refuses. SipUdp composes
the two, which share the loop and no variable.

### V90Downstream: `v90_pcm.cpp`, `live_modem.cpp`

The mapper with its ring, pointers and differential state; the stream of frames
`V90Phase4DigitalTx` makes of TRN2d, MP, Ed, B1d and data; the queue `tx_pcmu_` and
the packets `next_tx_pcmu` cuts from it. `HearS`, `HearCPt` and `StartEd` are what
the handlers put into the queue, `Advance` is `maybe_advance_tx_state`,
`BeginPacket`/`SendQueued`/`SendFill`/`Produce`/`SendData` build a packet. Of
the two ways to sign a part of a frame the spectral shaper picks by a filter; here
it is either. The far end cuts what it hears into sixes and decodes as
`V90PcmMapper::decode` does; `errors` are the frames it got otherwise than they were given.

### V90Frames, V90Phase3Rx: `v90_phase3_rx.cpp`, `live_modem.cpp`

V90Frames is pure: the layout of Ja and CPt/CP, their CRC, and the tests a window
of bits must pass, with the tolerances of the code (`JaOk`, `CpOk`) and what is
read from it (`JaRead`, `CpRead`). V90Phase3Rx sends a caller's frames through a
scrambler bit by bit, flips a bit here and there, and runs `feed()` over what has
come so far (`Feed`): `TryDetectJa` from every symbol boundary of TRN and then
at every offset, `TryDetectCp` at every offset of its window, a frame alone or
the majority of several. `Accepted` is what `receive_pcm` does of a frame, and what it
does decides what the caller sends next. The caller is external and builds its
frames piece by piece as Tables 12 and 14 of V.90 lay them out, not with the
offsets of the receiver, so a wrong offset in the code shows.

## 4. What the runs check

| Run | Instance | Result |
|---|---|---|
| PppServerPap | a representative of every case of every handler's tests (MCPeerFrames), any order, PAP required; two transmissions per request, queue of 1 | TypeOK, OnlyAuthenticatedTraffic, NetworkIsNegotiated, RequestsAnswerable, AccessPolicy hold |
| PppLinkPap | 10 transmissions, 2 lost frames, 1 early timer, 1 restart, a client that may vanish | UpIsAgreed, ComesUp, NegotiationSettles, UnansweredRequestEnds hold |
| CallSession | two calls, one mishap (refused hangup, freed pointer) | TypeOK, CallsSeparate, StartsFresh, TerminatedCallEnds, EndedCallForgotten hold |
| CallSessionLateHangup | two calls | HangupIsForCaller is violated: the BYE goes to the next caller |
| WinDivertNat | three TCP flows, a ping and a stranger, two ports, four clock values, two packets in the queue | TypeOK, Mirror, ImplementsTable, DroppedOnlyWhenFull hold |
| LiveModem | one call in each mode, with and without SpanDSP | TypeOK, EquipmentReady, NoStaleAudio, NoBlindFallback, RetriesEnd, NoEternalTraining hold |
| V42Link | the three link modes; two things heard per block, two characters or frames of the caller, two bytes of PPP, T400 of one block, watchdog of two | SentInOrder, OneReceiver, DecodedAsSent, PlainCallerHeard, TrainingEnds hold |
| V42LinkStuck | LAPM negotiated by V.8 | EstablishmentBounded is violated: no timer runs in that mode |
| SipUdp | two callers, or a registrar; two transmissions of a request, one lost, four packets of audio, two of them under way | TypeOK, SilenceForLoss, PppFollowsCall, MediaStays, NoChallengeLoop, HangupEnds, RegistrationRecovers hold |
| V90Downstream | S and ld of 6/0, 5/1, 4/3 and 3/2; one frame of each part, two of data; packets of 10 | FramesDecode holds |
| V90DownstreamGap | the same | DataOnGrid is violated: the fill behind B1d is no multiple of six |
| V90Phase3Rx | six callers (one asks for what cannot be sent, two give frame 4 or 5 a constellation of its own), one flipped bit or one frame too many | FramesAsSent, IntactCopyFound, ExchangeEnds hold |

Why the bounds are enough:

- *PPP server.* The state is finite but for identifiers, retries and queues.
  Identifiers wrap at `IdSpace`, small here, so coincidences of old and new
  identifiers happen. Retries saturate at `RetryCap`, past the limit tested.
  The theorems of section 6 have no such bounds.
- *PPP link.* Two losses and one early timer reach every pairing of a lost
  request with a lost answer; with `MaxRetries` as in the code a third loss repeats the
  second. `IdSpace` is larger than the number of requests of a negotiation.
- *Calls.* Two calls suffice for every property, each of which relates a call to
  the one after it; the safety theorems hold for any number.
- *NAT.* Three flows for two ports exhaust them; lifetimes of 1 and 0 with four
  clock values let a flow expire while another lives, and return. The three flows
  differ in a source port that is only compared, so they are symmetric. Two places in
  the queue show the order of packets, and its limit. The theorems are unbounded.
- *Modem.* State is reset at `StartCall`; one call reaches every state, every
  retry limit and every rung.
- *V.42.* Two things per block put two reports, a report and a character, or two
  frames inside one block; two bytes of PPP show reordering and loss, and
  T400 < Watchdog keeps their order. Bytes pass unchanged, so more of them add
  nothing to the order of two.
- *UDP server.* Two callers show every crossing of one's requests or audio with
  the other's call. `SeqMod` 6 with `FirstSeq` 4 wraps within four packets,
  `GapLimit` 2 has gaps on both sides of the limit. Calls and registration share
  no variable, so MCSipUdp explores one or the other and leaves their product out;
  when both callers are there each sends one packet, and one caller alone sends
  all four and repeats its INVITE.
- *V.90 downstream.* A packet of 10 meets frames of six at every offset; the ring
  of 32 wraps; each S has the partition of the frame that differs, and every
  depth of look-ahead occurs. One frame of each part puts every joint next to another.
- *V.90 receiver.* `Chunk`, `Lag`, `Skip`, `MinWindow` and `MaxWindow` are the
  code's figures in bits of 0.8 per sample, and the frames have their real
  length. The flipped bit stands in the ones, in the start bit, in the indices, in a
  CRC or in the fill, one or two places for each caller, and the descrambler makes three
  of it, so that a copy is spoilt and the next one or a majority must do. Both parities
  of Ja, both lengths of fill, one constellation and several, and constellations for the
  codec occur; one of the callers whose indices are misread is never found, the other
  is accepted with a wrong constellation. `MaxBits` is more than the longest exchange
  needs with one `MaxTrouble`.

Every property is shown to depend on the code by a mutant (PROJECT.json,
`mutants`): the definition with a plausible bug, kept beside it in the module,
breaks the property.

Deadlock is not checked for PppLink, LiveModem, V42Link, SipUdp, V90Downstream and
V90Phase3Rx: a negotiation that has settled, a call that is over, a carrier that
was given up, a frame bound that is reached have nothing more to do. Everywhere
else it is.

## 5. Fairness

- *PppLink.* `windows_pjsip_main.cpp` runs its loop every 10 ms, so each step of
  the server that stays possible is taken (weak fairness). The timers are
  strongly fair, because the clock advances while frames come and go. The client
  answers and repeats itself as long as it has not vanished.
- *CallSession.* The main loop runs, and the deadline passes again and again; a
  worker callback that began finishes; a BYE is answered or its transaction times
  out. Callers, noise and remote hangups are owed nothing.
- *LiveModem.* `next_tx_pcmu` is called for every 20 ms of the call by the RTP
  clock, whatever arrives: `Play`/`Advance` and the time-outs evaluated there are
  weakly fair. Nothing received is.
- *V42Link.* Audio keeps arriving while the call lasts (`EndOfBlock`) and the
  transmit clock passes 20 s. Neither caller nor SpanDSP is assumed to do
  anything. TrainingEnds therefore leans on the three timers alone.

- *SipUdp.* The loop reads its sockets and looks at its timers (`HandleSip` of a
  BYE, `HandleResponse`, `StartPpp`, `Refresh`); a caller repeats its BYE until it is
  answered, as SIP asks, and the registrar answers what it got. Callers owe
  nothing else, and audio may stop.
- *V90Phase3Rx.* Audio keeps coming and is analysed (`Hear`), the caller goes on
  when it may and repeats itself while it may not, and DIL ends. The fairness
  conditions name the part of each action that says when it can happen; TLC
  would otherwise run the detectors to decide whether a step is possible.

V90Downstream states none: it has no liveness property.

## 6. What is proved

tlapm checks every proof, for all values of the constants allowed by the named
ASSUMEs of the modules (a retry limit and sizes that are naturals, a `None` that is no call, a range
of ports that is not empty, a sequence space larger than the largest gap that counts
as a loss, identifiers of which four in a row differ, mapping parameters V90PcmMapper
accepts, a frame's value below 2^K, which is what `encode` reads of K bits, a ring of
the mapper of at least 24 symbols, where `kRingBuf` is 32).

- **PppServer_proofs.** `Invariance`: TypeOK and the three safety invariants are
  inductive together with three facts they need: nothing is queued in Dead,
  the remembered LCP request is the one of the current identifier, and an
  acknowledged one exists. From it `TypeCorrect`, `PasswordGate`,
  `NegotiatedNetwork`, `AnswerableRequests`. `ImplementsAccess`: each step of the
  server is a step of PppAccess or none, one lemma per handler.
- **PppLink_proofs.** `EndsAgree` (UpIsAgreed), for every bound on losses, early
  timers, restarts and frames in flight. That the client is right to go on rests on
  the order of what is in flight. Its requests on the way to the server and the
  answers on the way back are one trail (`Trail`), and the invariant says what may be
  in it for the phase the client is in (`May`) and behind what (`MayFollow`): once an
  answer to the present LCP request is there, nothing of an earlier IPCP follows,
  and behind the first IPCP request no LCP request. Corruption only takes frames away,
  the server answers in place (`FrameHandled`), the client adds at the end. An answer
  of an earlier LCP request must not pass for one of the present one, so
  identifiers must not come round within four requests: IdentifiersDiffer, IdSpace > 3
  (256 in the code). `ServerPromisesOnLink`: the server's own invariants hold here.
- **CallSession_proofs.** `Invariance`: what has to be known at every statement
  of the loop about the queue of events, the worker's position and the owner of
  bytes, so that `Separation` (CallsSeparate) and `FreshStarts` (StartsFresh)
  follow, and `TypeCorrect`. The heart is that between a CallEnded in the queue and the CallStarted
  behind it the loop cannot reach a statement that touches the new call's modem.
- **WinDivertNat_proofs.** `Mirrored`: the two maps describe one one-to-one table.
  TypeOK and Mirror are inductive as they stand, since both maps change under
  one lock (`TypeCorrect`). `Implementation`: PortTable is implemented, because a key
  that is found is that of a pair of the table, and one that is not found is that of
  none (`TranslateDecides`). `NoPortLeaks` (DroppedOnlyWhenFull): when the search finds
  no port, the keys it met belong to flows that are in `forward`, since the maps
  mirror each other after expiry too, and none of these has expired.

- **V42Link_proofs.** `Invariance`, `BytesInOrder` (SentInOrder): only one of the
  two transmit queues is in use, and each function of the link leaves both alone
  or empties the LAPM queue into the other, which does not change what is
  pending. A lemma per function says which; the three actions that move bytes
  have one each.

  `ReceiversApart` (OneReceiver) and `DecompressedAsSent` (DecodedAsSent) are the
  received direction: which receiver has the bits is decided by `raw` alone, and
  whether a byte is decompressed by what was negotiated before it. `PlainHeard`
  (PlainCallerHeard): as long as the link is not raw the characters of a caller
  without V.42 wait in the probe, and the change to raw hands them over.
- **LiveModem_proofs.** `Invariance`: which helper objects exist and what the queue
  holds in each of the 37 states. `Equipment` (EquipmentReady): a state that
  uses an object has it, and the Ja descriptor is of this training. `QueueOfState` (NoStaleAudio): what is sent
  belongs to the state. `HeardFirst` (NoBlindFallback): after V.8 no carrier is
  tried before audio of the caller arrived. One lemma per action, since every one changes the state.
  `TypeCorrect` goes field by field: start functions change several fields of one
  record at a time, each in its range (`Ranged`), so the type of the record follows
  once for all of them.
- **SipUdp_proofs.** `Invariance` holds the session, PPP and the media together:
  the modem's session is that of the call and PPP's, in data mode or not, the locked
  peer does not change within it, and the number of packets and silences heard is the distance of the last
  sequence number from the first. From it `TypeCorrect`, `PppInStep`,
  `SampleClock` (SilenceForLoss, across the wrap of any sequence space) and
  `MediaOfCall`; `ChallengesEnd` is a step property of the registration.
- **V90Downstream_proofs.** `FramesArrive` (FramesDecode): the far end gets every
  frame as it was given, but for the signs of the first two, for every mapping,
  payload, length of the parts of a call, size of a packet and choice of the shaper, and
  for calls of any length (the bound `MaxFrames` is any number). As in the run, S = 6 with
  ld > 0 is left out.

  What has to be known is what happened: a frame is signed `Late` symbols
  after it was given, when the mapper has forgotten what the signs before it were.
  `FramesInv`, which `FramesInvHolds` proves inductive, therefore says that some history of
  the call exists (the bits of each frame, the signs and the shaper's state of
  each part, each symbol) which explains three things: the ring of the mapper
  (`Memory`), what is on the line (`Stream`: training by whole frames, then the
  symbols from the late start on) and the decoder of the far end (`FarKnows`).
  Each frame encoded extends the history without changing what it said (`Grown`,
  `FramesEncoded`). The history is infinite, so FramesInv itself is not for TLC.

  Under it lie `DigitsValue`, from numbers in a mixed radix (a value comes back from
  its digits), `BitsDecode` (the differential sign bits), `ShaperUndone` (the decoder
  recovers the bits of a part and the shaper's state, because bit 0 of a part carries
  no data), `RingHolds` and `PartsHold` (nothing in the ring is overwritten
  before it goes out: the ring must hold four frames), `PartsDecode` and `FarDecodes`.
  The number of frames is open, so `NatInd` is induction over a set of numbers, proved from
  the pigeonhole principle of the library.

Only model-checked: every liveness property (they rest on fairness), and
V90Phase3Rx, whose scrambler and CRC are recursive. FramesAsSent
is no theorem for every constant either: a CRC of 16 bits can be met by chance, and the run
shows that it is not, for its callers. ENABLED and the library's induction
theorems, which take an operator, are beyond the prover's back ends; nothing
declared RECURSIVE is reached by a module with a
theorem. The type invariants of PppLink and V42Link document their records and
are part of no run.

## 7. What the violations say

Each violation run states what a comment, a document or a message of the program
says; PROJECT.json, `findings`, quotes the line. A hangup may hit the next caller
(CallSessionLateHangup); the establishment watchdog does not run when V.8
negotiated LAPM (V42LinkStuck); data begins off the six-symbol grid after B1d
(V90DownstreamGap).

Other behaviour that is in the models, or that a passing property excludes by
name, and that a reader of the code should know of:

- `UserPppServer::reset()` forgets that its configuration was refused. LCP
  renegotiated on an open link is acknowledged, but no request of our own follows.
- PPP may be started again on a call that is being hung up.
- A clock read before the NAT's lock may be older than the entry it is compared
  with; the unsigned age is then huge and the flow is forgotten, and the reading of
  the other thread may set the time of an entry back. That a flow is kept for its
  lifetime is therefore no property here: the properties say that it goes together
  with its key, and that no port is lost by it.
- The UDP server compares BYE and CANCEL with no Call-ID: a second caller who
  gives up clears the call of the first. A repeated INVITE that comes after the BYE is
  a new call (`revived`, the exception of HangupEnds).
- If the nonce is outdated when the credentials arrive, `reg_auth_attempted_`
  stays set and the registration does not come back (`unlucky`, the
  exception of RegistrationRecovers).
- With S = 6 and ld > 0 the mapper's magnitudes leave later than their signs;
  FramesDecode leaves this combination out. The mapper's memory is not zero at the start,
  so two frames may have wrong signs.
- The caller's CPt passes for a CP once `arm_for_cp` has run, because the
  discriminator is compared for CPt only (`v90_phase3_rx.cpp:360`). This contradicts
  `v90_phase3_rx.hpp:68-70`: "Re-arm the existing trained receiver but require that
  discriminator". It happens in the run: a CPt that is still repeated is taken for a
  CP and MP' goes out before the caller has sent one. FramesAsSent says that what is
  accepted as CPt is a CPt; of the other kind it makes no such claim.
- The indices of frames 4 and 5 of CPt and CP are read one bit early, over the start
  bit before them (`:374-376`; the comment at `:362` counts this bit among the fixed
  zeros). They come out twice as large. A caller that gives one of these frames
  another constellation than the first is then not recognised at all, or is
  accepted and sent the wrong constellation in it. Both happen in the run, to the
  callers Overlooked and Mistaken of MCV90Phase3Rx, and `IndicesAsRead` names what the
  three properties leave out for them. The test waveform of the repository
  (`v90_phase4_cpt_test_waveform`) is built with the same offsets.
- A CP with short fill is accepted from a single copy, where `RELEASE-NOTES.md:36`
  speaks of three aligned ones; a majority needs two copies, and a tie is a one. The comment
  at `:350` allows one wrong bit in the preamble, the test two.
- Ed and B1d are sent with the parameters of CPt; those of CP are not used.

## 8. What is not modelled

Signal processing (`v34_qam.cpp`, tones, V.21, V.23, the demodulators of
`v90_phase2.cpp` and `v90_phase3_rx.cpp`: carrier, clock, equalizer, the
correlation that finds S): real-valued, out of TLC's reach; the models take
detections, or the bits behind the decisions, as inputs. Bit-level framing of HDLC and
characters, FCS and escapes: abstracted to what arrives. V.8 and QuickConnect
are inputs of LiveModem. SIP and SDP parsing, Digest and the contents of answers:
abstracted to what a request asks. Operating-system I/O (Wintun, WinDivert handles,
sockets, fork, ip(8)), logging and diagnostics. `live_main.cpp` is the loop of
`windows_main.cpp` around a pseudo-terminal and has no module of its own.
The headers under `.pjprefix` are PJSIP's, not this program's, though they are most of
the lines of the repository.
SpanDSP and PJSIP are external and modelled by how this code uses them.
