------------------------------ MODULE NxtDrive ------------------------------
(***************************************************************************)
(* What the motor functions of libanxt promise for one motor: a call that   *)
(* changes settings changes all of them at once, on the brick with one      *)
(* telegram, and succeeds only when the brick has all of them.  With        *)
(* autoset off the settings are remembered for later.  Overlook is where    *)
(* the functions do not keep that promise.                                  *)
(***************************************************************************)
CONSTANTS Changes,         \* what a call may ask for: settings and their values
          Overlooked,      \* those of which a part is refused and nobody looks
          Starts,          \* settings and state of the brick at the start
          Encode(_),       \* settings as the brick gets them
          Observe(_, _),   \* settings after reading the state of the brick
          Put(_, _),       \* settings with a change
          Accepts(_, _),   \* whether a setting takes its value of a change
          Alone(_)         \* what a motor may become by itself

VARIABLES want,     \* settings, as the program knows them
          has,      \* those of the brick
          auto,     \* every change is sent
          asked,    \* the change that the call under way asks for
          answer    \* of the last call: ok, fail, or a setting it has read

driveVars == <<want, has, auto, asked, answer>>

Nothing == <<>>
Legal(change) == \A f \in DOMAIN change : Accepts(f, change)
LegalPart(change) == [f \in {g \in DOMAIN change : Accepts(g, change)} |-> change[f]]

DriveInit == /\ <<want, has>> \in Starts
             /\ auto = TRUE /\ asked = Nothing /\ answer = "ok"

\* Whether a telegram that failed has reached the brick is not known.
Telegram == \/ has' = Encode(want') /\ answer' \in {"ok", "fail"}
            \/ has' = has /\ answer' = "fail"

Ask(change) == /\ asked = Nothing /\ asked' = change
               /\ UNCHANGED <<want, has, auto, answer>>

Take(change) == /\ want' = Put(change, want) /\ asked' = Nothing
                /\ IF auto THEN Telegram ELSE has' = has /\ answer' = "ok"
                /\ UNCHANGED auto

Set == asked # Nothing /\ Legal(asked) /\ Take(asked)

Refuse == /\ asked # Nothing /\ ~Legal(asked) /\ asked' = Nothing
          /\ answer' = "fail" /\ UNCHANGED <<want, has, auto>>

\* The fault: a motor runs with settings of this call and of an earlier one,
\* and the call succeeds.
Overlook == asked \in Overlooked /\ Take(LegalPart(asked))

Send == asked = Nothing /\ Telegram /\ UNCHANGED <<want, auto, asked>>

\* A failure to read is not reported when a setting is asked for.
Look == /\ asked = Nothing
        /\ \/ want' = Observe(want, has) /\ answer' \in {"ok", "value"}
           \/ want' = want /\ answer' \in {"fail", "value"}
        /\ UNCHANGED <<has, auto, asked>>

Switch == /\ asked = Nothing /\ auto' \in BOOLEAN /\ answer' = "ok"
          /\ UNCHANGED <<want, has, asked>>

Turn == has' \in Alone(has) /\ UNCHANGED <<want, auto, asked, answer>>

DriveNext == \/ \E change \in Changes : Ask(change)
             \/ Set \/ Refuse \/ Overlook
             \/ Send \/ Look \/ Switch \/ Turn

DriveSpec == DriveInit /\ [][DriveNext]_driveVars
=============================================================================
