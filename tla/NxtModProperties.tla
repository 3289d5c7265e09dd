-------------------------- MODULE NxtModProperties --------------------------
(***************************************************************************)
(* What must be true of modules, their I/O maps and the display.           *)
(***************************************************************************)
EXTENDS NxtMod

Bytes == Byte \cup {Junk}
Places == {"idle", "call", "return", "find", "found", "list", "next", "next_close",
           "listed", "list_close", "get", "put"}

\* The variables have their types.  A piece with the head of its telegram is
\* no longer than the 64 bytes a brick takes, and nothing outside of a map is
\* counted as moved.
TypeOK ==
  /\ open \in [Handle -> Seq(Mods)]
  /\ \A m \in Mods : maps[m] \in [Watched[m] -> Bytes]
  /\ pc \in [Client -> Places] /\ went \in [Client -> {"well", "unfound", "broken"}]
  /\ last \in [Client -> Handle \cup {NoHandle}] /\ new \in [Client -> Handle \cup {NoHandle}]
  /\ \A c \in Client : found[c] \in Seq(Mods)
  /\ screen \in [Client -> [Watched["display"] -> Bytes]]
  /\ missed \in 0 .. MaxMissed /\ calm \in BOOLEAN /\ dirty \in [Client -> BOOLEAN]
  /\ \A c \in Client : pc[c] \in {"get", "put"} =>
       10 + Piece(c) <= 64 /\ at[c] <= MapSize[Target(c)]

\* The byte is in its place, or somebody else has written there meanwhile.
InPlace(c, m, o, v) == maps[m][o] = v \/ <<m, o>> \in since[c]

\* Listing takes two handles at a time.  Files of modfs are those of a mounted
\* file system, and a list of no modules, which ends with an error, is the
\* end of its program; a program that flushes always shows the display's own
\* picture again, as screenshot does.
ASSUME OrderAssumption ==
  /\ NumHandle > 1
  /\ \A c \in Client : \A p \in Programs[c] : \A i \in DOMAIN p :
       /\ p[i] \in FsCalls \cup FsLists => p[1] = "mount"
       /\ p[i] = "lsmod_none" => i = Len(p)
       /\ p[i] = "flush_always" =>
            /\ p[1] = "display_open" /\ p[2] = "refresh"
            /\ \A j \in DOMAIN p : p[j] \in Shows \ {"draw"}

\* One program after the other, with every telegram answered and no modfs
\* before: every function succeeds, all modules are listed, no handle of the brick
\* stays open, and a screenshot leaves the display as it was, except where the
\* brick has drawn meanwhile.  A second program during nxt_mod_get_id, or a
\* handle that modfs or a lost reply left open, makes it fail, because only
\* handle 0 is taken.
AloneWorks ==
  missed = 0 /\ calm =>
    /\ (\A c \in Client : pc[c] = "idle") => \A h \in Handle : open[h] = <<>>
    /\ \A c \in Client : pc[c] = "call" /\ fn[c] # None =>
         /\ res[c] = 0
         /\ fn[c] = "lsmod" => found[c] = Modules
         /\ fn[c] # "lsmod_none" => err[c] = None
         /\ fn[c] = "flush_always" =>
              \A o \in Watched["display"] : InPlace(c, "display", o, before[c][o])

\* The end of a function whose telegrams were all answered in full.
Returning(c) == pc[c] = "return" /\ went[c] = "well" /\ fine[c] /\ at[c] > 0
Settings == [set_volume |-> NXT_UI_VOLUME, set_button |-> NXT_UI_BUTTON,
             turn_off |-> NXT_UI_TURNOFF, fs_write |-> NXT_UI_VOLUME]
Getters == [refresh |-> "display", screenshot |-> "display", get_volume |-> "ui",
            fs_read |-> "ui", fs_read_end |-> "ui"]

\* A function whose telegrams were answered has written every byte where it
\* belongs, and read every byte from there, except where somebody else wrote
\* meanwhile: the brick shows what is flushed, the local copy is what the
\* brick shows, and files of modfs have the size that is told.  As long as
\* every telegram is answered no bytes that nobody has set come to the brick.
MapsExact ==
  /\ missed = 0 => \A m \in Mods : \A o \in Watched[m] : maps[m][o] # Junk
  /\ \A c \in Client : Returning(c) =>
       /\ fn[c] \in {"flush", "flush_always"} =>
            \A o \in Watched["display"] : InPlace(c, "display", o, screen[c][o])
       /\ fn[c] \in DOMAIN Settings => InPlace(c, "ui", Settings[fn[c]], 1)
       /\ fn[c] \in DOMAIN Getters =>
            \A o \in DOMAIN buf[c] : buf[c][o] # Junk => InPlace(c, Getters[fn[c]], o, buf[c][o])
       /\ fn[c] \in {"refresh", "screenshot"} /\ missed = 0 =>
            \A o \in DOMAIN buf[c] : buf[c][o] # Junk
       /\ fn[c] = "fs_read" => moved[c] = MapSize["ui"]
       /\ fn[c] = "fs_read_end" => moved[c] = MapSize["ui"] - 30
=============================================================================
