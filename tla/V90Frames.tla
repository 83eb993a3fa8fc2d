----------------------------- MODULE V90Frames -----------------------------
(***************************************************************************)
(* The two sequences a V.90 caller sends upstream, bit by bit: Ja, which   *)
(* asks for a DIL, and CPt/CP, the parameters of the downstream.  Both     *)
(* begin with ones and a start bit, have a start bit before every 16 bits, *)
(* and end with a CRC.  The receiver finds them in a stream of bits by     *)
(* trying every offset.                                                    *)
(*                                                                         *)
(* Offsets and positions count from 0, as in the code: position p of a     *)
(* frame at offset o is Bit(bits, o + p).                                  *)
(***************************************************************************)
EXTENDS Integers, Sequences, FiniteSets

Bit(bits, p) == bits[p + 1]
Zero(bits, positions) == \A p \in positions : Bit(bits, p) = 0
Wrong(bits, positions, b) == Cardinality({p \in positions : p < Len(bits) /\ Bit(bits, p) # b})
Shifted(positions, o) == {o + p : p \in positions}
Lowest(S) == CHOOSE x \in S : \A y \in S : x <= y
Highest(S) == CHOOSE x \in S : \A y \in S : y <= x

Only(S) == CHOOSE x \in S : TRUE   \* of a set of one; TLC evaluates it first

\* get_uint_lsb
Uint(bits, at, count) ==
  LET v[i \in 0 .. count] == IF i = 0 THEN 0 ELSE v[i - 1] + Bit(bits, at + i - 1) * 2 ^ (i - 1)
  IN  v[count]

-----------------------------------------------------------------------------
(* v34_info_crc: x^16 + x^12 + x^5 + 1, from all ones; register bit 0 goes *)
(* first.                                                                  *)

Toggled(c, bit) == IF (c \div 2 ^ bit) % 2 = 0 THEN c + 2 ^ bit ELSE c - 2 ^ bit
RECURSIVE Register(_, _)
Register(c, info) ==
  LET half == Len(info) \div 2
  IN  IF info = <<>> THEN c
      ELSE IF half > 0
      THEN Only({Register(first, SubSeq(info, half + 1, Len(info))) : first \in {Register(c, SubSeq(info, 1, half))}})
      ELSE IF (c + info[1]) % 2 = 0 THEN c \div 2
      ELSE Toggled(Toggled(Toggled(c \div 2, 15), 10), 3)
Crc(info) == LET c == Register(65535, info) IN [i \in 1 .. 16 |-> (c \div 2 ^ (i - 1)) % 2]

\* What the CRC covers, from position first on: all but the start bits.
\* Mutant: the start bits inside a frame are covered, too.
CoveredAll(first, crc) == [i \in 1 .. crc - first |-> first + i - 1]
Covered(first, crc) ==
  SelectSeq([i \in 1 .. crc - first |-> first + i - 1], LAMBDA p : (p - first) % 17 # 16)
CrcOk(bits, o, first, crc) ==
  LET positions == Covered(first, crc)
  IN  SubSeq(bits, o + crc + 2, o + crc + 17) = Crc([i \in DOMAIN positions |-> Bit(bits, o + positions[i])])

-----------------------------------------------------------------------------
(* Ja (Table 12). *)

Blocks(n) == (n + 15) \div 16

\* fixed_ja_header_ok
JaHeader(bits, o) ==
  /\ o + 52 <= Len(bits) /\ Bit(bits, o + 17) = 0
  /\ Zero(bits, (o + 26 .. o + 34) \cup {o + 42, o + 50, o + 51})
  /\ Wrong(bits, o .. o + 16, 1) <= 1

\* Where the parts of the frame are that its header announces.
JaLayout(bits, o) ==
  LET n == Uint(bits, o + 18, 8)
      lsp == Uint(bits, o + 35, 7) + 1
      ltp == Uint(bits, o + 43, 7) + 1
      tp == 51 + 17 * Blocks(lsp)
      params == tp + 17 * Blocks(ltp)
      ucodes == params + 136
      crc == ucodes + 17 * ((n + 1) \div 2)
  IN  [n |-> n, lsp |-> lsp, ltp |-> ltp, tp |-> tp, params |-> params,
       ucodes |-> ucodes, crc |-> crc,
       \* One fill bit, and another if that makes the length even.
       length |-> crc + 18 + (crc % 2)]

\* ja_descriptor_size # 0
JaAnnounced(bits, o) ==
  JaHeader(bits, o) /\ LET l == JaLayout(bits, o) IN l.n = 0 => l.lsp = 1 /\ l.ltp = 1

Pattern(at, length) == [i \in 1 .. length |-> at + 1 + 17 * ((i - 1) \div 16) + ((i - 1) % 16)]
\* Start bits, reserved bits, padding and fill.
JaFixed(l) ==
  LET Padding(at, length) ==
        {at + 1 + 17 * (i \div 16) + (i % 16) : i \in length .. 16 * Blocks(length) - 1}
      Group(g) == l.ucodes + 17 * g
      groups == 0 .. (l.n + 1) \div 2 - 1
  IN  {p \in 51 .. l.crc : p % 17 = 0}
        \cup Padding(51, l.lsp) \cup Padding(l.tp, l.ltp)
        \cup {l.params + 17 * g + 8 : g \in 0 .. 7} \cup {l.params + 17 * g + 16 : g \in 0 .. 7}
        \cup {Group(g) + 8 : g \in groups} \cup {Group(g) + 16 : g \in groups}
        \cup {p \in l.ucodes .. l.crc - 1 : l.n % 2 = 1 /\ p >= l.crc - 9}
        \cup (l.crc + 17 .. l.length - 1)

\* complete_ja_descriptor_ok
JaOk(bits, o) ==
  /\ JaAnnounced(bits, o)
  /\ LET l == JaLayout(bits, o)
     IN  /\ o + l.length <= Len(bits)
         /\ Zero(bits, Shifted(JaFixed(l), o))
         /\ CrcOk(bits, o, 18, l.crc)

\* parse_ja_descriptor
JaRead(bits, o) ==
  LET l == JaLayout(bits, o)
      Bits(positions) == [i \in DOMAIN positions |-> Bit(bits, o + positions[i])]
      Sevens(at, count) ==
        [i \in 1 .. count |-> Uint(bits, o + at + 17 * ((i - 1) \div 2) + 1 + 8 * ((i - 1) % 2), 7)]
  IN  [sp |-> Bits(Pattern(51, l.lsp)), tp |-> Bits(Pattern(l.tp, l.ltp)),
       h |-> Sevens(l.params, 8), ref |-> Sevens(l.params + 68, 8),
       ucodes |-> Sevens(l.ucodes, l.n)]

-----------------------------------------------------------------------------
(* CPt and CP (Table 14).  Positions below count from the start bit. *)

Indices(bits, s) == [frame \in 0 .. 5 |-> Uint(bits, s + 86 + 4 * frame, 4)]

\* Ones in front of the start bit, 17 as a rule; the code tries 16 and 14, too.
\* The discriminator is 0 for CPt.
Preamble(bits, o, sync, ordinary) ==
  LET s == o + sync
  IN  /\ o + 120 <= Len(bits) /\ s + 115 <= Len(bits)
      /\ Bit(bits, s) = 0 /\ Bit(bits, s + 1) = 0
      /\ ~ordinary => Bit(bits, s + 2) = 0
      /\ Wrong(bits, {s + 17 * k : k \in 1 .. 6}, 0) <= 2
      /\ Wrong(bits, o .. s - 1, 1) <= 2
      /\ \A frame \in 0 .. 5 : Uint(bits, s + 86 + 4 * frame, 4) <= 5
Announced(bits, o, ordinary) == \E sync \in {17, 16, 14} : Preamble(bits, o, sync, ordinary)

\* cpt_sequence_size and what follows from it; s is the start bit.
CpLayout(bits, o, ordinary) ==
  LET sync == Highest({k \in {17, 16, 14} : Preamble(bits, o, k, ordinary)})
      s == o + sync
      g == 136 * Highest({Indices(bits, s)[frame] : frame \in 0 .. 5})
      d == IF s + 111 < Len(bits) /\ Bit(bits, s + 111) = 1 THEN 2 * g + 136 ELSE g
  IN  [s |-> s, crc |-> 255 + d, length |-> sync + 275 + d]

\* complete_cpt_sequence_ok: short frames lack two fill bits.
CpOk(bits, o, l, short) ==
  LET length == l.length - (IF short THEN 2 ELSE 0)
      fixed == {p \in 119 .. l.crc : p % 17 = 0} \cup l.crc + 17 .. l.crc + (IF short THEN 17 ELSE 19)
  IN  /\ o + length <= Len(bits)
      /\ Wrong(bits, Shifted(fixed, l.s), 0) <= 3
      /\ CrcOk(bits, l.s, 1, l.crc)

Mask(bits, s, base) == {u \in 0 .. 127 : Bit(bits, s + base + 17 * (u \div 16) + 1 + (u % 16)) = 1}
\* Mutant: the constellations behind the codec, if there are any.
CodecUcodes(bits, s) ==
  LET most == Highest({Indices(bits, s)[frame] : frame \in 0 .. 5})
  IN  [frame \in 0 .. 5 |->
         Mask(bits, s, 119 + 136 * (Indices(bits, s)[frame] + Bit(bits, s + 111) * (most + 1)))]
Ucodes(bits, s) == [frame \in 0 .. 5 |-> Mask(bits, s, 119 + 136 * Indices(bits, s)[frame])]
CpRead(bits, s, ordinary) ==
  LET S == 6 - Uint(bits, s + 14, 2)
      drn == Uint(bits, s + 3, 5)
      Signed(at) == LET u == Uint(bits, s + at, 8) IN IF u < 128 THEN u ELSE u - 256
  IN  [S |-> S, ld |-> Uint(bits, s + 32, 2), alaw |-> Bit(bits, s + 18),
       K |-> (IF drn < 22 THEN drn ELSE 22) + (IF ordinary THEN 20 ELSE 8) - S,
       a1 |-> Signed(52), a2 |-> Signed(60), b1 |-> Signed(69), b2 |-> Signed(77),
       ucodes |-> Ucodes(bits, s)]
Acknowledges(bits, s) == Bit(bits, s + 16) = 1
=============================================================================
