---------------------------- MODULE MCNxtConvert ----------------------------
EXTENDS NxtConvertProperties, TLC

Wav(rate, channels, samples) == File("wav", <<rate, channels>>, samples)
Image(form, width, height, data) == File(form, <<width, height>>, data)
Grays(s) == [i \in DOMAIN s |-> <<s[i], s[i], s[i]>>]

\* A picture of two sprites, of which the command shows a corner of the last
\* one before it.
TwoSprites ==
  Words(<<8, 0, 0, 2, 1>>)
    \o Words(<<10, 1, 1, 1, 1>>) \o <<5, 0>>
    \o Words(<<10, 1, 2, 1, 1>>) \o <<10, 0>>
    \o Words(<<18, 3, 0, 2, 0, 0, 2, 1, 0, 0>>)
    \o Words(<<10, 1, 3, 1, 1>>) \o <<4, 0>>

\* Two channels, loud and quiet; a word and one sample; too fast.  Pictures
\* wider than a byte and with an odd number of bytes.
MCOriginals ==
  [stereo |-> Wav(21, 2, <<0, 255, 127, 1, 128, 2, 255, 3, 20, 4>>),
   long   |-> Wav(160, 1, [i \in 1 .. 257 |-> (7 * i) % 256]),
   fast   |-> Wav(161, 1, <<1>>),
   wide   |-> Image("png", 5, 3, Grays(<<7, 8, 0, 15, 7, 9, 2, 8, 8, 1, 0, 7, 15, 15, 6>>)),
   dot    |-> Image("gif", 1, 1, << <<8, 8, 7>> >>),
   sprites |-> File("bytes", <<>>, TwoSprites),
   headless |-> File("bytes", <<>>, Words(<<8, 0, 0, 2, 1>>)),
   song   |-> File("bytes", <<>>, rmd_encode(1, <<1, 2, 3, 4>>)),
   midi   |-> File("mid", <<>>, <<>>)]
\* A single dot, or all but the first.
MCLosses == {{}, {1}, 2 .. 15}
\* calibrate shares nothing with the others.
MCUses == {{"rsoc", "ricc", "rmdc"}, {"calibrate"}}
=============================================================================
