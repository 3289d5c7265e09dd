------------------------------ MODULE MCNxtMod ------------------------------
EXTENDS NxtModProperties, TLC

CONSTANTS c1, c2

MCModules == <<"display", "ui">>
\* The bitmap of the display is the last of what is known of its map.
MCMapSize == [ui |-> 60, display |-> 219]
\* The bytes of the settings, and the first byte of the bitmap and its last.
MCWatched == [ui |-> {28, 36, 39}, display |-> {119, 218}]
MCPrograms ==
  c1 :> {<<"display_open", "refresh", "flush_always">>,
         <<"display_open", "draw", "flush", "flush">>,
         <<"mount", "fs_readdir", "fs_read", "fs_write", "fs_read_end">>,
         <<"get_volume">>}
  @@ c2 :> {<<"lsmod">>, <<"lsmod_none">>}
=============================================================================
