----------------------------- MODULE NxtFormats -----------------------------
(***************************************************************************)
(* The file formats of a brick (libanxt_file): sounds (RSO), pictures       *)
(* (RIC), melodies (RMD), calibrations and the settings byte, as functions  *)
(* between values and sequences of bytes.  A byte has Bits bits (8 in the   *)
(* code), so that small instances have words that overflow.                *)
(***************************************************************************)
EXTENDS Integers, Sequences

CONSTANTS Bits,             \* of a byte
          RateMin, RateMax, \* samples per second that a brick plays
          Unset               \* what is in a byte that nobody has set

PowerOf2[n \in Nat] == IF n = 0 THEN 1 ELSE 2 * PowerOf2[n - 1]
Base == PowerOf2[Bits]
Word == Base * Base

ASSUME FormatsAssumption ==
  /\ Bits \in Nat /\ Bits >= 4
  /\ RateMin \in Nat \ {0} /\ RateMax \in Nat /\ RateMin <= RateMax /\ RateMax < Word
  /\ Unset \notin Int

\* C divides towards zero, and an assignment keeps the low bits.
High(v) == (IF v < 0 THEN -((-v) \div Base) ELSE v \div Base) % Base
LITTLEENDIAN_SET_WORD(v) == <<v % Base, High(v)>>
BIGENDIAN_SET_WORD(v) == <<High(v), v % Base>>
LITTLEENDIAN_GET_WORD(s, i) == s[i + 1] * Base + s[i]
BIGENDIAN_GET_WORD(s, i) == s[i] * Base + s[i + 1]

\* Behind the end of a file there is memory that nobody has set.
At(s, i) == IF i \in 1 .. Len(s) THEN s[i] ELSE Unset

(* Sounds *)

RsoHead == 8
NoSound == [rate |-> Unset, data |-> <<>>]

rso_encode(samplerate, data) ==
  IF samplerate > RateMax \/ samplerate < RateMin THEN <<>>
  ELSE LITTLEENDIAN_SET_WORD(1) \o BIGENDIAN_SET_WORD(Len(data))
         \o BIGENDIAN_SET_WORD(samplerate) \o <<Unset, Unset>> \o data

rso_decode(s) ==
  IF LITTLEENDIAN_GET_WORD(s, 1) = 1
  THEN [rate |-> BIGENDIAN_GET_WORD(s, 5),
        data |-> [i \in 1 .. BIGENDIAN_GET_WORD(s, 3) |-> At(s, RsoHead + i)]]
  ELSE NoSound

(* Melodies: notes of four bytes *)

rmd_encode(notes, src) ==
  LITTLEENDIAN_SET_WORD(6) \o BIGENDIAN_SET_WORD(4 * notes) \o <<0, 0, 0, 0>> \o src

\* The macro indexes the words of the structure as if they were bytes: the
\* upper byte of the format is the whole next word.
rmd_decode(s) ==
  LET format == LITTLEENDIAN_GET_WORD(s, 1)
      datalen == LITTLEENDIAN_GET_WORD(s, 3)
  IN IF datalen * Base + format = 6 THEN datalen \div 4 ELSE 0

(* Calibrations *)

cal_encode(min, max) == LITTLEENDIAN_SET_WORD(min) \o LITTLEENDIAN_SET_WORD(max)

\* The same macro: min is made of both words, max of the second and of the
\* word behind the structure.
cal_decode(s, behind) ==
  LET first == LITTLEENDIAN_GET_WORD(s, 1)
      second == LITTLEENDIAN_GET_WORD(s, 3)
  IN [min |-> second * Base + first, max |-> behind * Base + second]

(* The settings byte: fields of 3, 1, 3 and 1 bits, the first one lowest *)

nvconfig_set(sleep, volume) == (sleep % 8) + 8 + 16 * (volume % 8) + 128
nvconfig_get(b) == [sleep |-> b % 8, volume |-> (b \div 16) % 8]

(* Pictures: a description, a sprite with the bits, a command to copy it *)

DESCRIPTION == 0
SPRITE == 1
COPYBITS == 3

MAKE_EVEN(x) == x + (x % 2)
RowBytes(width) == (width - 1) \div Bits + 1
Dark(gray) == gray < Base \div 2

\* A byte with the bits of the function f, the first one highest.
Packed(f) ==
  LET upto[n \in 0 .. Bits] ==
        IF n = 0 THEN 0 ELSE 2 * upto[n - 1] + (IF f[n - 1] THEN 1 ELSE 0)
  IN upto[Bits]
BitSet(b, n) == (b \div PowerOf2[Bits - 1 - n]) % 2 = 1

Words(s) ==
  [i \in 1 .. (2 * Len(s)) |->
     LITTLEENDIAN_SET_WORD(s[(i + 1) \div 2])[IF i % 2 = 1 THEN 1 ELSE 2]]

SpriteData(width, height, bitmap) ==
  LET row == RowBytes(width)
  IN [i \in 1 .. MAKE_EVEN(row * height) |->
        IF i > row * height THEN 0
        ELSE LET y == (i - 1) \div row
                 x(n) == ((i - 1) % row) * Bits + n
             IN Packed([n \in 0 .. (Bits - 1) |->
                          x(n) < width /\ Dark(bitmap[x(n) + y * width + 1])])]

ric_encode(width, height, bitmap) ==
  LET data == SpriteData(width, height, bitmap)
  IN Words(<<8, DESCRIPTION, 0, width, height>>)
       \o Words(<<8 + Len(data), SPRITE, 1, height, RowBytes(width)>>) \o data
       \o Words(<<18, COPYBITS, 0, 1, 0, 0, width, height, 0, 0>>)

\* Where the commands of a file begin
Commands(s) ==
  LET start[n \in Nat] ==
        IF n = 0 THEN 1
        ELSE LET p == start[n - 1]
             IN IF p > Len(s) THEN p ELSE p + LITTLEENDIAN_GET_WORD(s, p) + 2
  IN {start[n] : n \in 0 .. (Len(s) \div 2)} \cap (1 .. Len(s))
\* The first and the last of a set of positions
First(ps) == CHOOSE p \in ps : \A q \in ps : p <= q
Last(ps) == CHOOSE p \in ps : \A q \in ps : q <= p

\* ric_decode stops at the first command at which it has seen both kinds, and
\* takes the last of each kind before that.
NoPicture == [width |-> Unset, height |-> Unset, data |-> <<>>]
ric_decode(s) ==
  LET commands == Commands(s)
      of(opcode) == {p \in commands : LITTLEENDIAN_GET_WORD(s, p + 2) = opcode}
      sprites == of(SPRITE)
      copies == of(COPYBITS)
  IN IF sprites = {} \/ copies = {} THEN NoPicture
     ELSE
      LET end == IF First(sprites) < First(copies) THEN First(copies) ELSE First(sprites)
          sprite == Last({p \in sprites : p <= end})
          copy == Last({p \in copies : p <= end})
      row == LITTLEENDIAN_GET_WORD(s, sprite + 8)
      w == LITTLEENDIAN_GET_WORD(s, copy + 12)
      h == LITTLEENDIAN_GET_WORD(s, copy + 14)
      byte(x, y) == s[sprite + 10 + y * row + x \div Bits]
  IN [width |-> w, height |-> h,
      data |-> [i \in 1 .. (w * h) |->
                  IF BitSet(byte((i - 1) % w, (i - 1) \div w), ((i - 1) % w) % Bits)
                  THEN 0 ELSE Base - 1]]
=============================================================================
