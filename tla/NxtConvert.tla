----------------------------- MODULE NxtConvert -----------------------------
(***************************************************************************)
(* The programs that make and read the files of NxtFormats: rsoc, ricc and  *)
(* rmdc, which convert a file of the PC into another one, and calibrate,    *)
(* which reads a sensor and stores two values in a file of the brick.       *)
(*                                                                         *)
(* A file has a form, a head (rate and channels, or width and height) and   *)
(* data: 16-bit samples, colours, or bytes of NxtFormats.  The libraries    *)
(* that read and write WAV, PNG, JPEG and GIF are external.  One program    *)
(* runs at a time, but the files may be changed under it.                   *)
(***************************************************************************)
EXTENDS NxtFormats

CONSTANTS Name,      \* of files on the PC
          Originals, \* the files that users have, by name
          Readings,  \* values of a sensor
          Uses,      \* sets of programs that a user may run
          Losses,    \* sets of dots that a JPEG shows wrong, by its quality
          NumHandle, \* handles of the brick
          MaxTrouble \* bound: telegrams of calibrate that fail

File(form, head, data) == [form |-> form, head |-> head, data |-> data]
Missing == File("missing", <<>>, <<>>)
Empty == File("empty", <<>>, <<>>)
Garbage == File("garbage", <<>>, <<>>)
None == "none"
NoFile == <<>>

Images == {"png", "jpg", "gif"}
Magic == [rso |-> <<1, 0>>, rmd |-> <<6, 0>>, ric |-> <<8, 0, 0, 0, 0, 0>>]
Starts(s, magic) == Len(s) >= Len(magic) /\ SubSeq(s, 1, Len(magic)) = magic

\* A picture whose size, which is signed there, and length a RIC file can tell.
Fits(width, height) ==
  /\ {width, height} \subseteq 1 .. (Word \div 2 - 1)
  /\ 8 + MAKE_EVEN(RowBytes(width) * height) < Word

\* What users have are whole files, and their pictures fit.
Whole(file) ==
  CASE file.form = "wav" -> /\ file.head \in Nat \X (Nat \ {0})
                            /\ file.data \in Seq(0 .. (Word - 1))
    [] file.form \in Images ->
         /\ file.head \in Nat \X Nat /\ Fits(file.head[1], file.head[2])
         /\ file.data \in [1 .. (file.head[1] * file.head[2]) -> [1 .. 3 -> 0 .. (Base - 1)]]
    [] file.form = "bytes" ->
         LET picture == ric_decode(file.data)
         IN /\ file.data \in Seq(0 .. (Base - 1))
            /\ Starts(file.data, Magic["rso"]) =>
                 /\ RsoHead <= Len(file.data)
                 /\ RsoHead + BIGENDIAN_GET_WORD(file.data, 3) <= Len(file.data)
            /\ Starts(file.data, Magic["ric"]) =>
                 picture = NoPicture \/ Fits(picture.width, picture.height)
    [] OTHER -> TRUE

ASSUME ConvertAssumption ==
  /\ \A o \in DOMAIN Originals : Whole(Originals[o])
  /\ {} \in Losses /\ Losses \subseteq SUBSET Nat
  /\ Readings \subseteq Nat /\ {NumHandle, MaxTrouble} \subseteq Nat \ {0}

VARIABLES disk,     \* contents by name
          source,   \* for the properties: the original a file was made from,
          inverted, \*   whether an odd number of times inverted,
          blurred,  \*   and whether through a JPEG that showed dots wrong
          tools,    \* the programs that the user runs
          prog,     \* the one that runs
          exit,     \* calibrate: what it got, what main returned
          port,     \* brick: mode of the sensor's port
          stored,   \*   the calibration file, or NoFile
          held,     \*   open handles
          min, max, \* calibrate: the values it got,
          err,      \*   nxt->error,
          trouble, mute \* for the properties: telegrams that failed, and those
                        \*   of them whose number is 0 as an exit status

diskVars == <<disk, source, inverted, blurred>>
brickVars == <<port, stored, held>>
calVars == <<min, max, err, trouble, mute>>
convertVars == <<diskVars, tools, prog, exit, brickVars, calVars>>

Idle == [tool |-> None]
NoExit == [got |-> <<>>]

ConvertInit ==
  /\ disk = [f \in Name |-> Missing]
  /\ source = [f \in Name |-> None]
  /\ inverted = [f \in Name |-> FALSE] /\ blurred = [f \in Name |-> FALSE]
  /\ prog = Idle /\ exit = NoExit /\ tools \in Uses
  /\ port = "none" /\ stored = NoFile /\ held = 0
  /\ min = 0 /\ max = 0 /\ err = 0 /\ trouble = 0 /\ mute = 0

(* The files of the PC *)

Knows == [rsoc |-> {"wav", "rso"}, ricc |-> Images \cup {"ric"}, rmdc |-> {"mid", "rmd"}]

\* recognize_format compares what it has read, and on an empty file what was
\* in the buffer before.
recognize_format(tool, file) ==
  CASE file.form \in {"empty", "garbage"} -> Knows[tool] \cup {None}
    [] file.form = "bytes" ->
         LET fits == {k \in Knows[tool] \cap DOMAIN Magic : Starts(file.data, Magic[k])}
         IN IF fits = {} THEN {None} ELSE fits
    [] OTHER -> {k \in {file.form} : k \in Knows[tool]} \cup
                (IF file.form \in Knows[tool] THEN {} ELSE {None})

\* A user puts a file where it is wanted, empties it or removes it, also while
\* a program reads it.
Place(f, file, from) ==
  /\ disk' = [disk EXCEPT ![f] = file]
  /\ source' = [source EXCEPT ![f] = from]
  /\ inverted' = [inverted EXCEPT ![f] = FALSE] /\ blurred' = [blurred EXCEPT ![f] = FALSE]
Change(f) ==
  /\ \/ \E o \in DOMAIN Originals : Place(f, Originals[o], o)
     \/ \E file \in {Missing, Empty} : file # disk[f] /\ Place(f, file, None)
  /\ tools # {"calibrate"} /\ UNCHANGED <<tools, prog, exit, brickVars, calVars>>

\* main: what the input is, and whether it says what to make of it.
Run(tool, f, g) ==
  /\ prog = Idle /\ tool \in tools
  /\ \E kind \in recognize_format(tool, disk[f]) \ {None},
        invert \in IF tool = "ricc" THEN BOOLEAN ELSE {FALSE} :
       \E to \in IF kind = "ric" THEN Images ELSE {None} :
         prog' = [tool |-> tool, at |-> "open", in |-> f, out |-> g, kind |-> kind,
                  to |-> to, invert |-> invert]
  /\ UNCHANGED <<diskVars, tools, exit, brickVars, calVars>>

\* main: fopen of both; that of the output empties it.
Open ==
  /\ prog # Idle /\ prog.tool # "calibrate" /\ prog.at = "open"
  /\ IF disk[prog.in].form = "missing"
     THEN prog' = Idle /\ UNCHANGED diskVars
     ELSE Place(prog.out, Empty, None) /\ prog' = [prog EXCEPT !.at = "convert"]
  /\ UNCHANGED <<tools, exit, brickVars, calVars>>

\* Faulty: as if there were one channel
InPlaceMono(frames, channels, samples) ==
  [i \in 1 .. frames |-> (samples[i] \div Base - Base \div 2) % Base]

\* The loop of wav2rso over samples and samples8, which are one memory.
InPlace(frames, channels, samples) ==
  LET after[i \in 0 .. frames] ==
        IF i = 0 THEN Words(samples)
        ELSE LET m == after[i - 1]
                 sample == LITTLEENDIAN_GET_WORD(m, 2 * (i - 1) * channels + 1)
             IN [m EXCEPT ![i] = (sample \div Base - Base \div 2) % Base]
  IN SubSeq(after[frames], 1, frames)

InvertOf(p, gray) == IF p.invert THEN Base - 1 - gray ELSE gray
Gray(c) == (c[1] + c[2] + c[3]) \div 3

\* The output is written, with the origin of what was read.
Output(file, blurs) ==
  /\ disk' = [disk EXCEPT ![prog.out] = file]
  /\ source' = [source EXCEPT ![prog.out] = source[prog.in]]
  /\ inverted' = [inverted EXCEPT ![prog.out] = inverted[prog.in] # prog.invert]
  /\ blurred' = [blurred EXCEPT ![prog.out] = blurred[prog.in] \/ blurs]
\* Memory that nobody has set is taken for the input: anything may come out.
Anything == \E file \in {Empty, Garbage} : Place(prog.out, file, None)

Converting(kind) ==
  /\ prog # Idle /\ prog.tool # "calibrate" /\ prog.at = "convert" /\ prog.kind = kind
  /\ prog' = Idle /\ UNCHANGED <<tools, exit, brickVars, calVars>>
In == disk[prog.in]
Readable(form) == In.form = form

\* sf_open_fd fails on anything but a sound; the output stays empty.
Wav2Rso ==
  /\ Converting("wav")
  /\ IF ~ Readable("wav") \/ In.head[1] < RateMin \/ In.head[1] > RateMax
     THEN UNCHANGED diskVars
     ELSE LET frames == Len(In.data) \div In.head[2]
          IN Output(File("bytes", <<>>,
               rso_encode(In.head[1], InPlace(frames, In.head[2], In.data))), FALSE)

\* What is not a sound decodes to nothing, with any rate.
Rso2Wav ==
  /\ Converting("rso")
  /\ LET sound == rso_decode(In.data)
     IN IF Readable("bytes") /\ sound # NoSound
        THEN Output(File("wav", <<sound.rate, 1>>,
               [i \in 1 .. Len(sound.data) |->
                  ((sound.data[i] + Base \div 2) * Base) % Word]), FALSE)
        ELSE Anything

\* The program crashes when the library cannot read the image.
Img2Ric ==
  /\ \E format \in Images : Converting(format)
  /\ IF Readable(prog.kind)
     THEN Output(File("bytes", <<>>, ric_encode(In.head[1], In.head[2],
            [i \in DOMAIN In.data |-> InvertOf(prog, Gray(In.data[i]))])), FALSE)
     ELSE UNCHANGED diskVars

\* The result of ric_decode is ignored.  JPEG changes colours a little, and
\* with a low quality (-q) also which dots are dark.
Ric2Img ==
  /\ Converting("ric")
  /\ LET picture == ric_decode(In.data)
     IN IF Readable("bytes") /\ Starts(In.data, Magic["ric"]) /\ picture # NoPicture
        THEN \E loss \in IF prog.to = "jpg" THEN {0, 1} ELSE {0},
                wrong \in IF prog.to = "jpg" THEN Losses ELSE {{}} :
               Output(File(prog.to, <<picture.width, picture.height>>,
                 [i \in DOMAIN picture.data |->
                    [c \in 1 .. 3 |->
                       IF Dark(InvertOf(prog, picture.data[i])) <=> i \notin wrong THEN loss
                       ELSE Base - 1 - loss]]), wrong # {})
        ELSE Anything

\* Both directions are to be implemented: only the output has been emptied.
Rmdc == (\E kind \in Knows["rmdc"] : Converting(kind)) /\ UNCHANGED diskVars

(* calibrate *)

NXT_ERR_CONNECTION == 256
NXT_ERR_FILE_NOT_FOUND == 135
NXT_ERR_FILE_IS_BUSY == 139 \* or what else the brick may say

\* How a telegram may end: whether the brick has done it, whether the program
\* got the answer, what is in nxt->error then.  An answer to another telegram
\* is a failure that has no number.
Refused == [done |-> FALSE, ok |-> FALSE, err |-> NXT_ERR_FILE_IS_BUSY]
Ways == {[done |-> TRUE, ok |-> TRUE, err |-> 0], Refused}
        \cup [done : BOOLEAN, ok : {FALSE}, err : {NXT_ERR_CONNECTION, 0}]

Reached(step) == prog # Idle /\ prog.tool = "calibrate" /\ prog.at = step
GoTo(step) == prog' = [prog EXCEPT !.at = step] /\ UNCHANGED exit

\* The shell sees eight bits of what main returns.
Status(code) == code % 256

\* Nothing goes wrong when the brick refuses what it cannot do.
Telegram(w, can) ==
  /\ w.done => can
  /\ w.ok \/ w = Refused \/ trouble < MaxTrouble
  /\ err' = IF w.err = 0 THEN err ELSE w.err
  /\ trouble' = IF w.ok \/ (w = Refused /\ ~ can) \/ trouble = MaxTrouble
                THEN trouble ELSE trouble + 1
  /\ mute' = IF w.ok \/ Status(w.err) # 0 THEN mute ELSE mute + 1

Calibrate ==
  /\ prog = Idle /\ "calibrate" \in tools
  /\ prog' = [tool |-> "calibrate", at |-> "mode", got |-> <<>>]
  /\ exit' = NoExit
  /\ min' = 0 /\ max' = 0 /\ err' = 0 /\ mute' = 0
  /\ trouble' = IF held = 0 THEN 0 ELSE 1 \* not this program's
  /\ UNCHANGED <<diskVars, tools, brickVars>>

SetMode(step, mode, next) ==
  /\ Reached(step)
  /\ \E w \in Ways : Telegram(w, TRUE) /\ port' = IF w.done THEN mode ELSE port
  /\ GoTo(next) /\ UNCHANGED <<diskVars, tools, stored, held, min, max>>

\* nxt_get_sensor; -1 when it fails.
GetSensor(v) ==
  /\ \E w \in Ways : Telegram(w, TRUE) /\ v' \in IF w.ok THEN Readings ELSE {-1}
  /\ prog' = [prog EXCEPT !.at = IF prog.at = "min" THEN "max" ELSE "off",
                          !.got = Append(@, <<v', port>>)]
  /\ UNCHANGED <<diskVars, tools, exit, brickVars>>
GetMin == Reached("min") /\ GetSensor(min) /\ UNCHANGED max
GetMax == Reached("max") /\ GetSensor(max) /\ UNCHANGED min

\* nxt_file_open with NXT_OWOVER looks for the old file, closes the handle
\* that comes with it, removes the file and opens a new one.
NotFound ==
  /\ stored = NoFile /\ err' = NXT_ERR_FILE_NOT_FOUND /\ GoTo("open")
  /\ UNCHANGED <<held, trouble, mute>>
FindOld ==
  /\ Reached("find")
  /\ \/ NotFound
     \/ \E w \in Ways : /\ Telegram(w, stored # NoFile /\ held < NumHandle)
                        /\ held' = IF w.done THEN held + 1 ELSE held
                        /\ GoTo(IF w.ok THEN "close found" ELSE "open")
  /\ UNCHANGED <<diskVars, tools, port, stored, min, max>>

CloseHandle(step, next) ==
  /\ Reached(step)
  /\ \E w \in Ways : Telegram(w, TRUE) /\ held' = IF w.done THEN held - 1 ELSE held
  /\ next /\ UNCHANGED <<diskVars, tools, port, stored, min, max>>
CloseFound == CloseHandle("close found", GoTo("remove"))

\* The brick does not remove a file that is open.
RemoveOld ==
  /\ Reached("remove")
  /\ \E w \in Ways : /\ Telegram(w, held = 0)
                     /\ stored' = IF w.done THEN NoFile ELSE stored
  /\ GoTo("open") /\ UNCHANGED <<diskVars, tools, port, held, min, max>>

\* The brick does not open for writing what exists.
OpenNew ==
  /\ Reached("open")
  /\ \E w \in Ways : /\ Telegram(w, stored = NoFile /\ held < NumHandle)
                     /\ held' = IF w.done THEN held + 1 ELSE held
                     /\ stored' = IF w.done THEN <<Unset, Unset, Unset, Unset>> ELSE stored
                     /\ GoTo(IF w.ok THEN "write" ELSE "end")
  /\ UNCHANGED <<diskVars, tools, port, min, max>>

\* The result of nxt_file_write is ignored.
Write ==
  /\ Reached("write")
  /\ \E w \in Ways : Telegram(w, TRUE) /\ stored' = IF w.done THEN cal_encode(min, max) ELSE stored
  /\ GoTo("close") /\ UNCHANGED <<diskVars, tools, port, held, min, max>>
CloseNew == CloseHandle("close", GoTo("end"))

EndCalibrate ==
  /\ Reached("end")
  /\ prog' = Idle
  /\ exit' = [got |-> prog.got, code |-> Status(err)]
  /\ UNCHANGED <<diskVars, tools, brickVars, calVars>>

\* Another program of the user closes what is left open and removes the file.
CleanUp ==
  /\ prog = Idle /\ (held > 0 \/ port # "none")
  /\ held' = 0 /\ port' = "none" /\ stored' = NoFile /\ exit' = NoExit
  /\ UNCHANGED <<diskVars, tools, prog, calVars>>

ConvertNext ==
  \/ \E f \in Name : Change(f)
  \/ \E tool \in DOMAIN Knows, f, g \in Name : Run(tool, f, g)
  \/ Open \/ Wav2Rso \/ Rso2Wav \/ Img2Ric \/ Ric2Img \/ Rmdc
  \/ Calibrate \/ SetMode("mode", "raw", "min") \/ GetMin \/ GetMax
  \/ SetMode("off", "none", "find")
  \/ FindOld \/ CloseFound \/ RemoveOld \/ OpenNew \/ Write \/ CloseNew
  \/ EndCalibrate \/ CleanUp

ConvertSpec == ConvertInit /\ [][ConvertNext]_convertVars
=============================================================================
