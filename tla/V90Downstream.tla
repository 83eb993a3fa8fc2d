--------------------------- MODULE V90Downstream ---------------------------
(***************************************************************************)
(* The downstream of a V.90 call from DIL to data: V90PcmMapper,           *)
(* V90Phase4DigitalTx and the transmit queue of LiveModem, with a far end  *)
(* that cuts the line into frames of six symbols and decodes them as       *)
(* V90PcmMapper::decode does.                                              *)
(*                                                                         *)
(* The mapper's input is scrambled training, MP, or characters: a frame of *)
(* it is an element of `payload'.  Of the two ways to sign a part of a     *)
(* frame the spectral shaper takes the one with less energy at low         *)
(* frequencies; here it is either.  next_tx_pcmu builds a packet at one    *)
(* go: no other handler runs while the packet lacks symbols.               *)
(***************************************************************************)
EXTENDS Integers, Sequences, FiniteSets

CONSTANTS
  Params,      \* the mapping parameters a CPt may ask for: S, K, ld, sizes
  Payloads,    \* what may be sent, from the first frame of TRN2d on
  RingBuf,     \* kRingBuf
  Packet,      \* the samples of a packet
  DilFrames, RiFrames, RiBarFrames, TrnFrames, MpFrames, EdFrames, DataFrames,
  MaxFrames    \* bound: frames mapped

Symbols == 0 .. 5

\* V90PcmMapper is valid_ for these.
ASSUME Valid ==
  \A c \in Params :
    /\ c.S \in 3 .. 6 /\ c.K \in 1 .. 56 /\ c.ld \in 0 .. 3
    /\ c.sizes \in [Symbols -> Nat \ {0}]
    /\ 2 ^ c.K \in Nat
    /\ c.sizes[0] * c.sizes[1] * c.sizes[2] * c.sizes[3] * c.sizes[4] * c.sizes[5] >= 2 ^ c.K

\* encode has at least S + K bits for a frame: S signs and a value of K bits.
ASSUME Sendable ==
  \A s \in Payloads :
    /\ s \in Seq([signs : [Symbols -> 0 .. 1], value : Nat]) /\ s # <<>>
    /\ \A c \in Params : \A k \in 1 .. Len(s) : s[k].value < 2 ^ c.K

\* The ring holds the parts that wait, three shaping frames at the most, and a frame.
ASSUME RingIsDeep == RingBuf \in Nat /\ RingBuf >= 4 * 6

ASSUME Counts ==
  /\ {DilFrames, RiFrames, RiBarFrames, TrnFrames, MpFrames, EdFrames, DataFrames} \subseteq Nat
  /\ Packet \in Nat

VARIABLES
  p,           \* the parameters of the call
  payload,     \* its frames: signs and value
  mapper,      \* ring (ucode_), pp, ptr (ucode_ptr_), last, t, q
  discard,     \* initial_discard_samples_
  given,       \* frames given to the mapper
  state, queue, rest,    \* state_, tx_pcmu_, remaining_data_pcmu_
  left,        \* symbols the packet still lacks
  filling,     \* the rest of the packet is 0xFF
  far,         \* the far end: the frame it has got so far, and its decoder's last, t, q and count
  errors,      \* frames it did not get as they were given; 0 for what is no frame
  padded       \* fill sent when the queue ran out

vars == <<p, payload, mapper, discard, given, state, queue, rest, left, filling,
          far, errors, padded>>

Xor(a, b) == (a + b) % 2
Training == [kind |-> "training", mag |-> 0, sign |-> 0]
Mapped(mag, sign) == [kind |-> "mapped", mag |-> mag, sign |-> sign]
Quiet(frames) == [i \in 1 .. 6 * frames |-> Training]

-----------------------------------------------------------------------------
(* V90PcmMapper. *)

\* A shaping frame has frame_size symbols, a mapping frame nf of them.
FrameSize == CASE p.S \in {5, 6} -> 6 [] p.S = 4 -> 3 [] p.S = 3 -> 2
Parts == 6 - p.S
Late == FrameSize * p.ld
\* phase4_mapper_delay_samples
Delay == IF p.S = 6 THEN 0 ELSE Late

\* The symbols that carry differential sign bits, and plain ones.
Differential == CASE p.S = 6 -> <<0, 1, 2, 3, 4, 5>> [] p.S = 4 -> <<1, 4>>
                  [] p.S \in {3, 5} -> <<1, 3, 5>>
Plain == CASE p.S = 5 -> {2, 4} [] p.S = 4 -> {2, 5} [] p.S \in {3, 6} -> {}
\* The sign bit of the input that a symbol carries.
Carried(i) == Cardinality({j \in Symbols : j < i /\ (j \in Plain \/ \E k \in DOMAIN Differential : Differential[k] = j)})

SignBits(frame, last) ==
  [i \in Symbols |->
     IF i \in Plain THEN frame.signs[Carried(i)]
     ELSE IF \E k \in DOMAIN Differential : Differential[k] = i
     THEN Xor(last, Cardinality({k \in DOMAIN Differential :
                 Differential[k] <= i /\ frame.signs[Carried(Differential[k])] = 1}))
     ELSE 0]
LastBit(bits) == bits[Differential[Len(Differential)]]

Weight[i \in Symbols] == IF i = 0 THEN 1 ELSE Weight[i - 1] * p.sizes[i - 1]
Digits(frame) == [i \in Symbols |-> (frame.value \div Weight[i]) % p.sizes[i]]
Value(digits) ==
  (digits[0] + digits[1] * Weight[1] + digits[2] * Weight[2] + digits[3] * Weight[3]
     + digits[4] * Weight[4] + digits[5] * Weight[5]) % (2 ^ p.K)

\* sign_op: what the step of the shaper's state from old to new inverts.
SignOp(new, old) == [i \in Symbols |-> IF i % 2 = 0 THEN Xor(new, old) ELSE new]
Inverted(bits, op) == [i \in Symbols |-> Xor(bits[i], op[i])]

At(i) == i % RingBuf
\* Part h of a frame, of its bits.
PartOf(bits, h) == [i \in Symbols |-> IF i < FrameSize THEN bits[(h - 1) * FrameSize + i] ELSE 0]

\* Mutant: the newest part is signed, not the one that goes out.
ShapedNow(ptr, h) == At(ptr + (h - 1) * FrameSize)
\* Where the part lies that is signed as the frame's part h goes in.
Shaped(ptr, h) == At(ptr + (h - 1) * FrameSize - Late)

\* One mapping frame into the ring; six symbols out, ld shaping frames late.
\* path gives the shaper's state after each part.
Encode(m, frame, path) ==
  LET bits == SignBits(frame, m.last)
      digits == Digits(frame)
      ring == [i \in DOMAIN m.ring |->
                 IF \E j \in Symbols : At(m.ptr + j) = i
                 THEN digits[CHOOSE j \in Symbols : At(m.ptr + j) = i] ELSE m.ring[i]]
      pp == [i \in DOMAIN m.pp |->
               IF \E h \in 1 .. Parts : At(m.ptr + (h - 1) * FrameSize) = i
               THEN PartOf(bits, CHOOSE h \in 1 .. Parts : At(m.ptr + (h - 1) * FrameSize) = i)
               ELSE m.pp[i]]
      q[h \in 0 .. Parts] == IF h = 0 THEN m.q ELSE path[h]
      t[h \in 0 .. Parts] ==
        IF h = 0 THEN m.t
        ELSE Inverted(Inverted(t[h - 1], pp[Shaped(m.ptr, h)]),
                      SignOp(q[h], q[h - 1]))
      Sign(i) == IF p.S = 6 THEN bits[i]
                 ELSE t[1 + i \div FrameSize][i % FrameSize]
  IN  [mapper |-> [ring |-> ring, pp |-> pp, ptr |-> At(m.ptr + 6), last |-> LastBit(bits),
                   t |-> t[Parts], q |-> q[Parts]],
       out |-> [i \in 1 .. 6 |-> Mapped(ring[At(m.ptr - Late + i - 1)], Sign(i - 1))]]

Paths == [1 .. Parts -> 0 .. 1]
Given(k) == payload[1 + (k % Len(payload))]

\* encode_raw_bits: n frames more, less what is discarded of the first ones.
Encoded(n, paths) ==
  LET run[k \in 0 .. n] ==
        IF k = 0 THEN [mapper |-> mapper, out |-> <<>>]
        ELSE LET e == Encode(run[k - 1].mapper, Given(given + k - 1), paths[k])
             IN  [mapper |-> e.mapper, out |-> run[k - 1].out \o e.out]
  IN  run[n]

EncodeRaw(n, queued(_)) ==
  /\ given + n <= MaxFrames /\ given' = given + n
  /\ \E paths \in [1 .. n -> Paths] :
       LET e == Encoded(n, paths)
           dropped == IF discard < Len(e.out) THEN discard ELSE Len(e.out)
       IN  /\ mapper' = e.mapper /\ discard' = discard - dropped
           /\ queued(SubSeq(e.out, dropped + 1, Len(e.out)))

-----------------------------------------------------------------------------
(* The far end. *)

\* V90PcmMapper::decode of six signs.
Decode(d, signs) ==
  LET t[h \in 0 .. Parts] == IF h = 0 THEN d.t ELSE PartOf(signs, h)
      q[h \in 0 .. Parts] == IF h = 0 THEN d.q
                             ELSE Xor(q[h - 1], Xor(t[h][0], t[h - 1][0]))
      Step(h) == Inverted(Inverted(t[h], t[h - 1]), SignOp(q[h], q[h - 1]))
      bits == IF p.S = 6 THEN signs
              ELSE [i \in Symbols |-> Step(1 + i \div FrameSize)[i % FrameSize]]
      Before(k) == IF k = 1 THEN d.last ELSE bits[Differential[k - 1]]
      data == [b \in 0 .. p.S - 1 |->
                 IF \E i \in Plain : Carried(i) = b
                 THEN bits[CHOOSE i \in Plain : Carried(i) = b]
                 ELSE LET k == CHOOSE k \in DOMAIN Differential : Carried(Differential[k]) = b
                      IN  Xor(bits[Differential[k]], Before(k))]
  IN  [data |-> data, last |-> LastBit(bits), t |-> t[Parts], q |-> q[Parts]]

Same(frame, data, value) ==
  /\ \A b \in 0 .. p.S - 1 : frame.signs[b] = data[b]
  /\ frame.value = value

\* Training is not decoded; a frame of this and that is no frame.
FarHears(symbol) ==
  LET frame == Append(far.got, symbol)
      All(kind) == \A i \in 1 .. 6 : frame[i].kind = kind
      digits == [i \in Symbols |-> frame[i + 1].mag]
      d == Decode(far, [i \in Symbols |-> frame[i + 1].sign])
  IN  IF Len(frame) < 6 THEN far' = [far EXCEPT !.got = frame] /\ errors' = errors
      ELSE IF All("training") THEN far' = [far EXCEPT !.got = <<>>] /\ errors' = errors
      ELSE IF All("mapped")
      THEN /\ far' = [got |-> <<>>, last |-> d.last, t |-> d.t, q |-> d.q, count |-> far.count + 1]
           /\ errors' = IF Same(Given(far.count), d.data, Value(digits)) THEN errors
                        ELSE errors \cup {far.count + 1}
      ELSE far' = [far EXCEPT !.got = <<>>] /\ errors' = errors \cup {0}

-----------------------------------------------------------------------------
(* LiveModem. *)

Zeros == [i \in Symbols |-> 0]
Init ==
  /\ p \in Params /\ payload \in Payloads
  /\ mapper = [ring |-> [i \in 0 .. RingBuf - 1 |-> 0], pp |-> [i \in 0 .. RingBuf - 1 |-> Zeros],
               ptr |-> 0, last |-> 0, t |-> Zeros, q |-> 0]
  /\ discard = Delay /\ given = 0
  /\ state = "dil" /\ queue = Quiet(DilFrames) /\ rest = <<>>
  /\ left = 0 /\ filling = FALSE
  /\ far = [got |-> <<>>, last |-> 0, t |-> Zeros, q |-> 0, count |-> 0]
  /\ errors = {} /\ padded = 0

mapping == <<mapper, discard, given>>
line == <<far, errors, padded>>

\* Mutant: the whole queue is thrown away.
KeepNothing == <<>>
\* "we must only discard a multiple of 6 samples"
KeepFrames == SubSeq(queue, 1, Len(queue) % 6)

HearS ==
  /\ state = "dil" /\ left = 0
  /\ state' = "ri" /\ queue' = KeepFrames \o Quiet(RiFrames)
  /\ UNCHANGED <<p, payload, mapping, rest, left, filling, line>>

HearCPt ==
  /\ state = "ri" /\ left = 0
  /\ state' = "trn"
  /\ EncodeRaw(TrnFrames + MpFrames, LAMBDA out : queue' = queue \o Quiet(RiBarFrames) \o out)
  /\ UNCHANGED <<p, payload, rest, left, filling, line>>

\* Mutant: what is queued makes way.
StartEdClears ==
  /\ state \in {"trn", "mp"} /\ left = 0
  /\ state' = "ed" /\ EncodeRaw(EdFrames, LAMBDA out : queue' = out)
  /\ UNCHANGED <<p, payload, rest, left, filling, line>>
\* CP' is heard, or MP' has been sent for 1.2 s.
StartEd ==
  /\ state \in {"trn", "mp"} /\ left = 0
  /\ state' = "ed" /\ EncodeRaw(EdFrames, LAMBDA out : queue' = queue \o out)
  /\ UNCHANGED <<p, payload, rest, left, filling, line>>

BeginPacket ==
  /\ left = 0 /\ left' = Packet /\ filling' = FALSE
  /\ UNCHANGED <<p, payload, mapping, state, queue, rest, line>>

\* maybe_advance_tx_state, when the queue has run out.
Advance ==
  /\ left > 0 /\ queue = <<>> /\ state # "data"
  /\ \/ /\ state \in {"dil", "ri"} /\ state' = state /\ filling' = filling
        /\ queue' = Quiet(IF state = "dil" THEN DilFrames ELSE RiFrames)
        /\ UNCHANGED mapping
     \/ /\ state \in {"trn", "mp"} /\ state' = "mp" /\ filling' = filling
        /\ EncodeRaw(MpFrames, LAMBDA out : queue' = out)
     \/ /\ state = "ed" /\ state' = "data" /\ filling' = TRUE
        /\ UNCHANGED <<queue, mapping>>
  /\ UNCHANGED <<p, payload, rest, left, line>>

SendQueued ==
  /\ left > 0 /\ queue # <<>> /\ left' = left - 1
  /\ FarHears(Head(queue)) /\ queue' = Tail(queue)
  /\ UNCHANGED <<p, payload, mapping, state, rest, filling, padded>>

SendFill ==
  /\ left > 0 /\ filling /\ left' = left - 1
  /\ padded' = padded + 1
  /\ UNCHANGED <<p, payload, mapping, state, queue, rest, filling, far, errors>>

\* produce_data_pcmu.
Produce ==
  /\ left > 0 /\ state = "data" /\ ~filling /\ rest = <<>>
  /\ EncodeRaw(DataFrames, LAMBDA out : rest' = out)
  /\ UNCHANGED <<p, payload, state, queue, left, filling, line>>
SendData ==
  /\ left > 0 /\ state = "data" /\ rest # <<>> /\ left' = left - 1
  /\ FarHears(Head(rest)) /\ rest' = Tail(rest)
  /\ UNCHANGED <<p, payload, mapping, state, queue, filling, padded>>

Next ==
  \/ HearS \/ HearCPt \/ StartEd
  \/ BeginPacket \/ Advance \/ SendQueued \/ SendFill \/ Produce \/ SendData

Spec == Init /\ [][Next]_vars

-----------------------------------------------------------------------------
(* Properties. *)

\* The far end gets every frame it was given, in order, whatever the shaper
\* chooses and however deep it looks ahead: through the end of DIL at any
\* symbol, the late start of the stream, the joints of TRN2d, MP, Ed and data,
\* and the cutting into packets.  The mapper's memories are not zero when the
\* first frame is mapped, so the signs of two frames may be wrong; fill is
\* not counted (see DataOnGrid).  With S = 6 and ld > 0, which CPt can ask
\* for, magnitudes are late and signs are not.
FramesDecode == (p.S = 6 => p.ld = 0) => errors \subseteq {1, 2}

\* "the strict 6-sample downstream PCM data framing boundary"
\* (live_modem.cpp:1430): data begins a whole number of frames after B1d.
DataOnGrid == state = "data" /\ ~filling => padded % 6 = 0
=============================================================================
