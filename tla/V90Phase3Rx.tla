---------------------------- MODULE V90Phase3Rx ----------------------------
(***************************************************************************)
(* V90Phase3AnalogueRx, from the end of the caller's TRN to CP': the bits  *)
(* of Ja, CPt, CP and CP' in the caller's scrambled stream, which arrives  *)
(* piece by piece; with what LiveModem does when one is found.             *)
(*                                                                         *)
(* Carrier, clock, equalizer and decisions are the data pump's: its bits   *)
(* are right but for single errors on the line, which the descrambler      *)
(* makes three.  A wrong rotation or conjugation gives noise, which is not *)
(* modelled.  Positions are bits since the first symbol of TRN that is     *)
(* looked at; the registers are all zeros there.                           *)
(***************************************************************************)
EXTENDS V90Frames

CONSTANTS
  Calls,       \* what a caller may send: a DIL descriptor, parameters, fill bits of CP;
               \* and (a bound) where in a frame its line may flip a bit
  None,
  Chunk,       \* bits between two analyses when a CPt is looked for; else twice as many
  Lag,         \* bits the filters hold back
  Skip,        \* and those before the first one that is decided
  MinWindow,   \* no CPt is looked for in less
  MaxWindow,   \* nor further back
  MaxTrouble,  \* bound: flips, and frames said again when the caller may go on
  MaxBits      \* bound: what a caller sends

ASSUME Windows == /\ Chunk \in Nat \ {0} /\ Lag \in Nat /\ Skip \in Nat
                  /\ MinWindow \in Nat /\ MaxWindow \in Nat
                  /\ MaxTrouble \in Nat /\ MaxBits \in Nat

VARIABLES
  call,        \* what this caller sends
  caller,      \* what it is sending
  trouble,
  reg,         \* its scrambler's register, the oldest bit first
  line, plain, \* the bits received, before and after a descrambler that never stops
  log, flips,  \* history: the frames sent and where they began, the bits that flipped
  heard,       \* samples_, counted in bits
  stage,       \* LiveModem's state_: Train is Sd to DIL, Exchange TRN2d and MP
  descriptor,  \* dil_descriptor_
  jaSearched,  \* last_ja_search_symbol_
  armed, scan, \* cpt_armed_, cpt_scan_sample_
  took,        \* the last CPt or CP that was accepted
  mpAck        \* v90_mp_acknowledge_

callerVars == <<call, caller, trouble, reg, line, plain, log, flips>>
rxVars == <<heard, stage, descriptor, jaSearched, armed, scan, took, mpAck>>
vars == <<callerVars, rxVars>>

-----------------------------------------------------------------------------
(* The caller: every sequence goes through its GPA scrambler. *)

Const(b, n) == [i \in 1 .. n |-> b]
Lsb(value, n) == [i \in 1 .. n |-> (value \div 2 ^ (i - 1)) % 2]
\* Joined[n] is the first n pieces, each behind a start bit.
Grouped(pieces) ==
  LET joined[n \in 0 .. Len(pieces)] ==
        IF n = 0 THEN <<>> ELSE joined[n - 1] \o <<0>> \o pieces[n]
  IN  joined[Len(pieces)]
Information(pieces) ==
  LET joined[n \in 0 .. Len(pieces)] == IF n = 0 THEN <<>> ELSE joined[n - 1] \o pieces[n]
  IN  joined[Len(pieces)]
Sequenced(pieces, fill) ==
  Const(1, 17) \o Grouped(Append(pieces, Crc(Information(pieces)))) \o Const(0, fill)

PatternPieces(bits) ==
  [k \in 1 .. Blocks(Len(bits)) |->
     [i \in 1 .. 16 |-> IF 16 * (k - 1) + i <= Len(bits) THEN bits[16 * (k - 1) + i] ELSE 0]]
SevenPieces(values) ==
  LET Seven(i) == IF i <= Len(values) THEN Lsb(values[i], 8) ELSE Const(0, 8)
  IN  [k \in 1 .. (Len(values) + 1) \div 2 |-> Seven(2 * k - 1) \o Seven(2 * k)]
JaFrame(d) ==
  LET pieces == <<Lsb(Len(d.ucodes), 8) \o Const(0, 8),
                  Lsb(Len(d.sp) - 1, 8) \o Lsb(Len(d.tp) - 1, 8)>>
                \o PatternPieces(d.sp) \o PatternPieces(d.tp)
                \o SevenPieces(d.h) \o SevenPieces(d.ref) \o SevenPieces(d.ucodes)
  IN  Sequenced(pieces, 2 - (Len(pieces) % 2))

MaskPieces(points) ==
  [c \in 1 .. 8 |-> [i \in 1 .. 16 |-> IF 16 * (c - 1) + i - 1 \in points THEN 1 ELSE 0]]
Collection(masks) ==
  LET joined[n \in 0 .. Len(masks)] == IF n = 0 THEN <<>> ELSE joined[n - 1] \o MaskPieces(masks[n])
  IN  joined[Len(masks)]
\* c.codec holds the constellations behind the codec, if they are others.
CpFrame(c, ordinary, ack, fill) ==
  LET B(x) == <<IF x THEN 1 ELSE 0>>
      pieces == <<<<0>> \o B(ordinary) \o Lsb(c.drn, 5) \o Const(0, 6) \o Lsb(6 - c.S, 2) \o B(ack),
                  Const(0, 14) \o Lsb(c.ld, 2), Const(0, 16),
                  Lsb(c.a1 % 256, 8) \o Lsb(c.a2 % 256, 8), Lsb(c.b1 % 256, 8) \o Lsb(c.b2 % 256, 8),
                  Lsb(c.index[0], 4) \o Lsb(c.index[1], 4) \o Lsb(c.index[2], 4) \o Lsb(c.index[3], 4),
                  Lsb(c.index[4], 4) \o Lsb(c.index[5], 4) \o B(c.codec # <<>>) \o Const(0, 7)>>
                \o Collection(c.masks) \o Collection(c.codec)
  IN  Sequenced(pieces, fill)

Framed == {"ja", "cpt", "cp", "cpAck"}
Kinds == Framed \cup {"trn", "scr"}
Frames ==
  [c \in Calls |-> [kind \in Kinds |->
     CASE kind \in {"trn", "scr"} -> Const(1, 64)   \* S, which ends SCR, is left out
       [] kind = "ja" -> JaFrame(c.ja)
       [] kind = "cpt" -> CpFrame(c.cp, FALSE, FALSE, c.fill)
       [] kind = "cp" -> CpFrame(c.cp, TRUE, FALSE, c.fill)
       [] kind = "cpAck" -> CpFrame(c.cp, TRUE, TRUE, c.fill)]]
Sequence(kind) == Frames[call][kind]

\* GPA = 1 + x^-5 + x^-23: what was sent, with bits behind it.
RECURSIVE Sent(_, _)
Sent(past, bits) ==
  LET n == Len(past)
      half == Len(bits) \div 2
  IN  IF Len(bits) <= 5 THEN past \o [j \in DOMAIN bits |-> (bits[j] + past[n + j - 5] + past[n + j - 23]) % 2]
      ELSE Only({Sent(first, SubSeq(bits, half + 1, Len(bits))) : first \in {Sent(past, SubSeq(bits, 1, half))}})

After == [trn |-> "ja", ja |-> "scr", scr |-> "cpt", cpt |-> "cp", cp |-> "cpAck"]
\* What the caller waits for: Sd, Ri, Ri-bar, MP'.
MayGoOn ==
  CASE caller = "trn" -> TRUE
    [] caller = "ja" -> stage # "WaitAnalogue"
    [] caller = "scr" -> stage \notin {"WaitAnalogue", "Train"}
    [] caller = "cpt" -> stage \in {"Exchange", "SendEd"}
    [] caller = "cp" -> mpAck
    [] caller = "cpAck" -> FALSE
\* DIL lasts as long as the caller lets it, the others until it hears the answer.
MayWait == ~MayGoOn /\ caller # "scr"
Step == IF armed THEN Chunk ELSE 2 * Chunk
Room(kind) == Len(plain) - heard < Step /\ Len(plain) + Len(Sequence(kind)) <= MaxBits
Entry(kind) == [kind |-> kind, at |-> Len(plain), length |-> Len(Sequence(kind))]

Say(kind, cost) ==
  LET bits == Sequence(kind)
      sent == Sent(reg, bits)
      n == Len(line)
  IN  /\ Room(kind) /\ caller' = kind
      /\ \E e \in {{}} \cup {{c} : c \in {c \in call.clicks : kind \in Framed /\ c < Len(bits)}} :
           /\ trouble + cost + Cardinality(e) <= MaxTrouble
           /\ trouble' = trouble + cost + Cardinality(e)
           /\ line' = line \o [i \in DOMAIN bits |-> (sent[23 + i] + (IF i - 1 \in e THEN 1 ELSE 0)) % 2]
           /\ flips' = flips \cup {Len(plain) + c : c \in e}
      /\ plain' = plain \o [i \in DOMAIN bits |-> (line'[n + i] + line'[n + i - 5] + line'[n + i - 23]) % 2]
      /\ reg' = SubSeq(sent, Len(bits) + 1, Len(bits) + 23)
      /\ log' = Append(log, Entry(kind))
      /\ UNCHANGED <<call, rxVars>>

SayAgain == Say(caller, IF MayWait THEN 0 ELSE 1)
SayNext == MayGoOn /\ Say(After[caller], 0)

-----------------------------------------------------------------------------
(* The bits of the window that begins at w and ends before n, if the       *)
(* descrambler's register held past before it.                             *)

\* line begins with the 23 zeros of the register.
OnLine(p) == line[p + 24]
Window(w, n, Past(_)) ==
  LET Seen(p) == IF p >= w THEN OnLine(p) ELSE Past(p)
  IN  [i \in 1 .. 23 |-> LET p == w + i - 1 IN (OnLine(p) + Seen(p - 5) + Seen(p - 23)) % 2]
        \o SubSeq(plain, w + 24, n)

\* The scrambler's output while TRN goes on.
Trn == Sent(Const(0, 23), Const(1, MaxBits))

-----------------------------------------------------------------------------
(* try_detect_ja *)

\* From a symbol boundary, as if TRN had lasted until there; each is tried once.
JaAtTrnEnd(n) ==
  LET Past(p) == Trn[p + 24]
  IN  {<<Window(2 * s, n, Past), 0>> : s \in {s \in jaSearched .. n \div 2 - 26 :
         LET bits == Window(2 * s, n, Past) IN JaOk(bits, 0) /\ Len(bits) > JaLayout(bits, 0).length}}
\* Anywhere, once the register has settled.
JaSelfSynchronized(n) ==
  LET bits == Window(0, n, LAMBDA p : 0)
      at == {o \in 23 .. n - 52 : JaOk(bits, o)}
  IN  IF at = {} THEN {} ELSE {<<bits, Lowest(at)>>}

TryDetectJa(n) ==
  /\ jaSearched' = IF n < 248 THEN jaSearched ELSE n \div 2 - 26
  /\ LET found == IF n < 248 THEN {}
                  ELSE IF JaAtTrnEnd(n) # {} THEN JaAtTrnEnd(n) ELSE JaSelfSynchronized(n)
     IN  IF found = {} THEN UNCHANGED <<stage, descriptor>>
         ELSE LET f == CHOOSE f \in found : TRUE
              IN  descriptor' = JaRead(f[1], f[2]) /\ stage' = "Train"
  /\ UNCHANGED <<armed, scan, took, mpAck>>

-----------------------------------------------------------------------------
(* try_detect_cpt *)

\* The majority of the copies that follow each other from o on; a tie is a one.
Majority(bits, o, length) ==
  LET copies == (Len(bits) - o) \div length
  IN  [i \in 1 .. length |->
         IF 2 * Cardinality({c \in 0 .. copies - 1 : Bit(bits, o + c * length + i - 1) = 1}) >= copies
         THEN 1 ELSE 0]

\* A frame at o, whole or put together from several copies: at most one.
CpAt(bits, o, ordinary) ==
  LET l == CpLayout(bits, o, ordinary)
      \* Is the bit after the first fill bit the next preamble's?
      nextSync == l.s + l.crc + 18 < Len(bits) /\ Bit(bits, l.s + l.crc + 18) = 1
      Length(short) == l.length - (IF short THEN 2 ELSE 0)
      Whole(short) == CpOk(bits, o, l, short)
      Combined(short) ==
        LET m == Majority(bits, o, Length(short))
        IN  /\ (Len(bits) - o) \div Length(short) >= 2
            /\ Announced(m, 0, ordinary)
            /\ LET k == CpLayout(m, 0, ordinary)
               IN  CpOk(m, 0, k, short) /\ k.length = l.length
      First(Ok(_)) == IF Ok(nextSync) THEN {nextSync} ELSE IF Ok(~nextSync) THEN {~nextSync} ELSE {}
      Taken(b, at, short, copies) ==
        [read |-> CpRead(b, at, ordinary), ack |-> Acknowledges(b, at), ordinary |-> ordinary,
         short |-> short, copies |-> copies, at |-> l.s]
  IN  IF First(Whole) # {} THEN {Taken(bits, l.s, short, 1) : short \in First(Whole)}
      ELSE {LET m == Majority(bits, o, Length(short))
            IN  Taken(m, CpLayout(m, 0, ordinary).s, short, (Len(bits) - o) \div Length(short)) :
              short \in First(Combined)}

\* V90Phase4DigitalTx is valid.
Emittable(r) ==
  LET product[i \in 0 .. 6] == IF i = 0 THEN 1 ELSE product[i - 1] * Cardinality(r.ucodes[i - 1])
  IN  r.alaw = 0 /\ r.K \in 1 .. 56 /\ product[6] >= 2 ^ r.K

\* arm_for_cp
Arm == armed' = TRUE /\ scan' = heard'
Disarm == armed' = FALSE /\ scan' = scan

\* LiveModem::receive_pcm on cpt_detected_new.
Accepted(f) ==
  /\ took' = f
  /\ \/ ~f.ordinary /\ Emittable(f.read) /\ stage' = "Exchange" /\ mpAck' = FALSE /\ Arm
     \/ ~f.ordinary /\ ~Emittable(f.read) /\ stage' = "Fallback" /\ mpAck' = mpAck /\ Disarm
     \/ f.ordinary /\ ~f.ack /\ mpAck' = TRUE /\ stage' = stage /\ Arm
     \/ f.ordinary /\ f.ack /\ stage' = "SendEd" /\ mpAck' = mpAck /\ Disarm

TryDetectCp(n) ==
  LET ordinary == stage = "Exchange"
      begin == IF n + Lag - scan > MaxWindow THEN n + Lag - MaxWindow ELSE scan
      bits == Window(begin + Skip, n, LAMBDA p : 0)
      frames == IF n + Lag - begin < MinWindow THEN {}
                ELSE {o \in 0 .. Len(bits) - 280 : Announced(bits, o, ordinary) /\ CpAt(bits, o, ordinary) # {}}
  IN  /\ IF frames = {} THEN UNCHANGED <<stage, armed, scan, took, mpAck>>
         ELSE \E f \in CpAt(bits, Lowest(frames), ordinary) :
                Accepted([f EXCEPT !.at = begin + Skip + f.at])
      /\ UNCHANGED <<descriptor, jaSearched>>

Hear == Len(plain) - heard >= Step /\ heard' = heard + Step
Feed ==
  /\ Hear
  /\ IF stage = "WaitAnalogue" /\ heard' > Lag THEN TryDetectJa(heard' - Lag)
     ELSE IF armed THEN TryDetectCp(heard' - Lag)
     ELSE UNCHANGED <<stage, descriptor, jaSearched, armed, scan, took, mpAck>>
  /\ UNCHANGED callerVars

\* The caller's S, at the end of SCR: arm_for_cpt.
\* Mutant: S counts only where a CPt is already looked for.
EndOfDilIfArmed ==
  /\ caller = "scr" /\ stage = "Train" /\ armed
  /\ stage' = "WaitCPt" /\ armed' = TRUE /\ scan' = heard
  /\ UNCHANGED <<callerVars, heard, descriptor, jaSearched, took, mpAck>>
EndOfDil ==
  /\ caller = "scr" /\ stage = "Train"
  /\ stage' = "WaitCPt" /\ armed' = TRUE /\ scan' = heard
  /\ UNCHANGED <<callerVars, heard, descriptor, jaSearched, took, mpAck>>

-----------------------------------------------------------------------------
Init ==
  /\ call \in Calls /\ caller = "trn" /\ trouble = 0
  /\ line = Sent(Const(0, 23), Const(1, 64)) /\ plain = Const(1, 64)
  /\ reg = SubSeq(line, 65, 87)
  /\ log = <<>> /\ flips = {}
  /\ heard = 0 /\ stage = "WaitAnalogue" /\ descriptor = None /\ jaSearched = 0
  /\ armed = FALSE /\ scan = 0 /\ took = None /\ mpAck = FALSE

Next == SayAgain \/ SayNext \/ Feed \/ EndOfDil

\* Audio keeps coming, the caller speaks, and DIL ends.  The parts of Feed and
\* Say that are named here are enabled when the actions are.
Spec == /\ Init /\ [][Next]_vars
        /\ WF_heard(Hear)
        /\ WF_caller(MayGoOn /\ Room(After[caller]) /\ caller' = After[caller])
        /\ WF_log(MayWait /\ Room(caller) /\ log' = Append(log, Entry(caller)))
        /\ WF_vars(EndOfDil)

-----------------------------------------------------------------------------
(* Properties. *)

\* What CpRead makes of the caller's parameters.
Asked(ordinary) ==
  LET c == call.cp
  IN  [S |-> c.S, ld |-> c.ld, alaw |-> 0, a1 |-> c.a1, a2 |-> c.a2, b1 |-> c.b1, b2 |-> c.b2,
       K |-> (IF c.drn < 22 THEN c.drn ELSE 22) + (IF ordinary THEN 20 ELSE 8) - c.S,
       ucodes |-> [frame \in 0 .. 5 |-> c.masks[c.index[frame] + 1]]]

\* The indices of frames 4 and 5 are read one bit early, over a start bit
\* (v90_phase3_rx.cpp:374-376), and come out twice as large: right if both are 0.
IndicesAsRead(c) == c.index[4] = 0 /\ c.index[5] = 0
\* The constellations of the others are right in any case.
AsAsked(f) ==
  LET asked == Asked(f.ordinary)
  IN  /\ [f.read EXCEPT !.ucodes = <<>>] = [asked EXCEPT !.ucodes = <<>>]
      /\ \A frame \in 0 .. IF IndicesAsRead(call.cp) THEN 5 ELSE 3 :
           f.read.ucodes[frame] = asked.ucodes[frame]

\* The descriptor parse_ja_descriptor returns is the caller's, and what
\* try_detect_cpt accepts is a frame the caller did send, at the place where it
\* began, with its parameters and its acknowledge bit; what it accepts as CPt is
\* a CPt.  No shifted reading, no majority over two kinds of frames and no
\* flipped bit passes.  That what it accepts as CP is a CP is not claimed:
\* line 360 compares the discriminator for CPt only.
FramesAsSent ==
  /\ descriptor # None => descriptor = call.ja
  /\ took # None =>
       \E i \in DOMAIN log : /\ log[i].at + 17 = took.at
                             /\ ~took.ordinary => log[i].kind = "cpt"
                             /\ took.ack <=> log[i].kind = "cpAck"
                             /\ AsAsked(took)

\* A frame none of whose bits, as the descrambler gives them, is wrong.
Intact(f) == \A p \in flips : p + 23 < f.at \/ f.at + f.length <= p
Awaited == CASE stage = "WaitAnalogue" -> {"ja"} [] stage = "WaitCPt" -> {"cpt"}
             [] stage = "Exchange" -> {"cp", "cpAck"} [] OTHER -> {}
Searching == IF stage = "WaitAnalogue" THEN heard - Lag >= 248 ELSE armed /\ heard - scan >= MinWindow
\* Nothing waited for is overlooked, unless it is a frame whose indices are not
\* read as they were sent: while a detector of feed() searches, no other intact
\* frame of the kind it looks for has come in whole since the descrambler
\* settled, whatever was sent around it.
Legible(f) == f.kind = "ja" \/ IndicesAsRead(call.cp)
IntactCopyFound ==
  Searching =>
    \A i \in DOMAIN log :
      LET f == log[i]
      IN  /\ f.kind \in Awaited /\ Intact(f) /\ Legible(f)
          /\ f.at >= (IF armed THEN scan + Skip ELSE 0) + 23
          => heard - Lag < f.at + f.length

\* Ja, CPt, CP and CP' are found one after the other, each side waiting for the
\* other's answer, and receive_pcm sends Ed in the end; or it falls back when the
\* CPt asks for what V90Phase4DigitalTx cannot send.  (LiveModem's time-outs are
\* not reached.)  A caller whose indices are misread may repeat its CPt for ever.
ExchangeEnds ==
  IndicesAsRead(call.cp) => <>(stage = IF Emittable(Asked(FALSE)) THEN "SendEd" ELSE "Fallback")
=============================================================================
