------------------------ MODULE NxtConvertProperties ------------------------
(***************************************************************************)
(* What a file that was made from another one still holds.                 *)
(***************************************************************************)
EXTENDS NxtConvert

\* What is heard: the levels of the first channel with the precision of a byte,
\* as a signed number, and how many of them a second.
Signed(v) == IF v < Word \div 2 THEN v ELSE v - Word
Played(file) ==
  IF file.form = "wav"
  THEN [rate |-> file.head[1],
        levels |-> [i \in 1 .. (Len(file.data) \div file.head[2]) |->
                      Signed(file.data[(i - 1) * file.head[2] + 1]) \div Base]]
  ELSE LET sound == rso_decode(file.data)
       IN [rate |-> sound.rate,
           levels |-> [i \in DOMAIN sound.data |-> sound.data[i] - Base \div 2]]

\* A length is stored in one word: more samples are lost.
Fitting(s) == SubSeq(s, 1, Len(s) % Word)
SameSound(file, original) ==
  LET is == Played(file)
      was == Played(original)
  IN is.rate = was.rate /\ is.levels \in {was.levels, Fitting(was.levels)}

\* What is seen: which dots are dark.
Seen(file) ==
  IF file.form \in Images
  THEN [size |-> file.head, dots |-> [i \in DOMAIN file.data |-> Dark(Gray(file.data[i]))]]
  ELSE LET picture == ric_decode(file.data)
       IN [size |-> <<picture.width, picture.height>>,
           dots |-> [i \in DOMAIN picture.data |-> Dark(picture.data[i])]]
SameSize(file, original) == Seen(file).size = Seen(original).size
SamePicture(file, original, invert) ==
  LET is == Seen(file)
      was == Seen(original)
  IN /\ SameSize(file, original)
     /\ is.dots = [i \in DOMAIN was.dots |-> was.dots[i] # invert]

IsSound(file) == file.form = "wav" \/ (file.form = "bytes" /\ Starts(file.data, Magic["rso"]))
IsPicture(file) == file.form \in Images \/ (file.form = "bytes" /\ Starts(file.data, Magic["ric"]))

\* The values that calibrate got, each while the sensor gave raw ones, are in
\* the file, the port is off and no handle is open.
Calibrated(got) ==
  /\ stored = LITTLEENDIAN_SET_WORD(got[1][1]) \o LITTLEENDIAN_SET_WORD(got[2][1])
  /\ \A i \in 1 .. 2 : got[i][1] >= 0 /\ got[i][2] = "raw"
  /\ port = "none" /\ held = 0

\* However often it is converted from one format to the other, a sound keeps
\* its rate and its levels, those of the first channel when there are more, and
\* a picture its size and, unless it was once a JPEG of too low a quality for
\* its dots, which of them are dark, exchanged when it was inverted an odd
\* number of times; a sound of a word's worth of samples or more is cut.  When
\* calibrate returns 0, or no telegram has failed, the values are on the brick,
\* unless a telegram failed in a way that an exit status does not show: with
\* no number, or because the connection was lost, which is number 256.
Kept ==
  /\ \A f \in Name : source[f] # None =>
       LET original == Originals[source[f]]
       IN /\ IsSound(original) =>
               IsSound(disk[f]) /\ SameSound(disk[f], original)
          /\ IsPicture(original) =>
               /\ IsPicture(disk[f]) /\ SameSize(disk[f], original)
               /\ blurred[f] \/ SamePicture(disk[f], original, inverted[f])
  /\ exit # NoExit /\ mute = 0 /\ (exit.code = 0 \/ trouble = 0) => Calibrated(exit.got)
=============================================================================
