------------------------- MODULE NxtMotorProperties -------------------------
(***************************************************************************)
(* What must be true of the motor functions.                               *)
(***************************************************************************)
EXTENDS NxtMotor

Settings == [power : Int, ratio : -100 .. 255, regmode : 0 .. 2, on : BOOLEAN,
             brake : BOOLEAN, runstate : RunState, limit : Nat]
Telegrams == [power : 0 .. 255, ratio : 0 .. 255, regmode : 0 .. 2,
              on : BOOLEAN, brake : BOOLEAN, regulated : BOOLEAN,
              runstate : RunState, limit : Nat]

\* What a call asks for: a setter for one setting, the others for several.
Setters == UNION {[{f} -> Values[f]] : f \in DOMAIN Values}
Rotates == [power : Power, limit : Rotation, runstate : {"running"}, on : {TRUE}]
Stops == [power : {0}, brake : BOOLEAN, runstate : {"idle"}, on : {FALSE}]
Syncs == [ratio : Ratio, regmode : {SYNC}]
Changes == Setters \cup Rotates \cup Stops \cup Syncs

TypeOK ==
  /\ cache \in Settings /\ before \in Settings /\ drive \in Telegrams
  /\ autoset \in BOOLEAN /\ autoget \in BOOLEAN /\ saved \in BOOLEAN
  /\ pc \in {"idle", "change", "send", "look"}
  /\ call \in {"none", "set", "rotate", "stop", "sync", "state", "value"}
  /\ asked \in Changes \cup {<<>>} /\ todo \in Seq(DOMAIN Values)
  /\ ret \in {"ok", "fail", "value"} /\ apart \in BOOLEAN

\* Unless something failed, was not sent or changed by itself, the settings
\* in the nxt_t are those of the brick: bytes that come back unsigned and
\* flags that are never cleared do no harm then.
InStep == ~apart /\ pc \in {"idle", "look"} => drive = Telegram(cache)

\* A call changes all the settings it asks for at once, on the brick with one
\* telegram, and succeeds only when the brick has all of them; one that a setter
\* refuses changes nothing and fails.  The code breaks this in one case, which
\* NxtDrive names Overlook: nxt_motor_rotate with a rotation below 0 and
\* nxt_motor_sync with a ratio out of range do the rest and succeed.
Accepts(f, change) == Valid(f, change[f])
Overlooked == {r \in Rotates : r.limit < 0}
                \cup {s \in Syncs : s.ratio \notin -100 .. 100}
Put(change, c) == [f \in DOMAIN c |-> IF f \in DOMAIN change THEN change[f] ELSE c[f]]

Starts == {<<c, Telegram(d)>> : c \in {Resting}, d \in {Resting, Running}}
            \cup {<<Known(Resting, Telegram(d)), Telegram(d)>> : d \in {Resting, Running}}

Drive == INSTANCE NxtDrive WITH
  Encode <- Telegram, Observe <- Known, Alone <- Itself,
  want <- before, has <- drive, auto <- saved, answer <- ret
IsDrive == Drive!DriveSpec
=============================================================================
