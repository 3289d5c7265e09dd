------------------------------ MODULE NxtMotor ------------------------------
(***************************************************************************)
(* One of the three motors of a brick as libanxt/motor.c sees it: settings  *)
(* are kept in the nxt_t and sent to the brick after each change, unless    *)
(* autoset is off, and the state of the brick is read into them before each *)
(* question, unless autoget is off.  The convenience functions call the     *)
(* others with autoset off and send once.  The settings of one motor do not *)
(* depend on those of another.                                              *)
(***************************************************************************)
EXTENDS Integers, Sequences

CONSTANTS Power, Ratio, Rotation, RegMode,   \* what programs ask for
          RunState                  \* RAMPUP, RUNNING, RAMPDOWN and IDLE

ASSUME MotorAssumption ==
  /\ Power \subseteq Int /\ Ratio \subseteq Int /\ Rotation \subseteq Int
  /\ RegMode \subseteq 0 .. 2 /\ 2 \in RegMode   \* nxt_motor_sync asks for SYNC
  /\ {"idle", "running"} \subseteq RunState

VARIABLES cache,     \* the settings in nxt->motors[motor]
          autoset, autoget,
          drive,     \* the state of the motor on the brick
          pc,        \* idle, or what the function under way does next
          call,      \* that function: set, or several of those at once
          asked,     \* what it is to change: the new value of each setting
          todo,      \* those of these settings that it has still to change
          saved,     \* autoset as the program has set it
          ret,       \* of the last function: ok, fail or a value
          before,    \* for the properties: settings when the last call ended
          apart      \* for the properties: the settings may differ from the
                     \*   brick's, as something failed or was not sent or the
                     \*   motor changed by itself

callVars == <<pc, call, asked, todo, saved, ret>>
vars == <<cache, autoset, autoget, drive, callVars, before, apart>>

NONE == 0   \* NXT_MOTOR_REGMODE_NONE
SYNC == 2   \* NXT_MOTOR_REGMODE_SYNC
Regulation == {1, SYNC}

Resting == [power |-> 0, on |-> FALSE, brake |-> FALSE, regmode |-> NONE,
            ratio |-> 0, runstate |-> "idle", limit |-> 0]

\* Faulty: the sign is not lost.
ByteSigned(n) == n
Byte(n) == n % 256

\* nxt_motor_set_state: numbers are sent as unsigned bytes.
Telegram(c) ==
  [power |-> Byte(c.power), ratio |-> Byte(c.ratio), regmode |-> c.regmode,
   on |-> c.on, brake |-> c.brake, regulated |-> c.regmode # NONE,
   runstate |-> c.runstate, limit |-> c.limit]

\* Faulty: the fields are read in another order than they are sent.
KnownSwapped(c, d) ==
  [power |-> d.ratio, ratio |-> d.power, regmode |-> d.regmode,
   on |-> c.on \/ d.on, brake |-> c.brake \/ d.brake,
   runstate |-> d.runstate, limit |-> d.limit]
\* nxt_motor_get_state: bytes are read as unsigned, flags that are not set
\* are not cleared.
Known(c, d) ==
  [power |-> d.power, ratio |-> d.ratio, regmode |-> d.regmode,
   on |-> c.on \/ d.on, brake |-> c.brake \/ d.brake,
   runstate |-> d.runstate, limit |-> d.limit]

\* What programs give the setters
Values == [power |-> Power \cup {0}, ratio |-> Ratio, limit |-> Rotation,
           regmode |-> RegMode, runstate |-> RunState, on |-> BOOLEAN,
           brake |-> BOOLEAN]

\* What the setters check; that of the power looks at the motor instead.
Valid(f, v) == /\ f = "ratio" => v \in -100 .. 100
               /\ f = "limit" => v >= 0
               /\ f = "regmode" => v \in Regulation

\* A motor that was left running with power -50, or one at rest.
Running == [Resting EXCEPT !.power = -50, !.on = TRUE, !.runstate = "running"]
Init == /\ drive \in {Telegram(Resting), Telegram(Running)}
        /\ cache \in {Resting, Known(Resting, drive)}
        /\ autoset = TRUE /\ autoget = TRUE
        /\ pc = "idle" /\ call = "none" /\ saved = TRUE
        /\ asked = <<>> /\ todo = <<>>
        /\ ret = "ok"
        /\ before = cache /\ apart = (Telegram(cache) # drive)

-----------------------------------------------------------------------------
Begin(c, change, steps, next) ==
  /\ pc = "idle" /\ pc' = next
  /\ call' = c /\ asked' = change /\ todo' = steps
  /\ UNCHANGED <<cache, autoget, drive, saved, ret, before, apart>>

Return(r) == /\ pc' = "idle" /\ call' = "none" /\ asked' = <<>> /\ ret' = r
             /\ before' = cache'
GoOn == UNCHANGED <<call, asked, ret, before>>

Setter(f, v) == Begin("set", [g \in {f} |-> v], <<f>>, "change") /\ UNCHANGED autoset

\* Faulty: autoset stays on while the settings are changed.
ConvenienceSending(name, change, steps) ==
  Begin(name, change, steps, "change") /\ UNCHANGED autoset
\* The settings are changed with autoset off.
Convenience(name, change, steps) ==
  Begin(name, change, steps, "change") /\ autoset' = FALSE

Rotate(rotation, power) == Convenience("rotate",
  [power |-> power, limit |-> rotation, runstate |-> "running", on |-> TRUE],
  <<"power", "limit", "runstate", "on">>)
Stop(brake) == Convenience("stop",
  [power |-> 0, brake |-> brake, runstate |-> "idle", on |-> FALSE],
  <<"power", "brake", "runstate", "on">>)
Sync(ratio) == Convenience("sync", [ratio |-> ratio, regmode |-> SYNC],
                           <<"ratio", "regmode">>)

SetState == Begin("set", <<>>, <<>>, "send") /\ UNCHANGED autoset

\* nxt_motor_get_state
GetState == Begin("state", <<>>, <<>>, "look") /\ UNCHANGED autoset

\* A setting is asked for; the tacho functions read the state in any case.
Get == /\ autoget /\ Begin("value", <<>>, <<>>, "look") /\ UNCHANGED autoset
GetKnown == /\ pc = "idle" /\ ~autoget /\ ret' = "value"
            /\ UNCHANGED <<cache, autoset, autoget, drive, pc, call, asked, todo,
                           saved, before, apart>>
GetTacho == Begin("value", <<>>, <<>>, "look") /\ UNCHANGED autoset

EnableAutoset(e) ==
  /\ pc = "idle" /\ autoset' = e /\ saved' = e /\ ret' = "ok"
  /\ UNCHANGED <<cache, autoget, drive, pc, call, asked, todo, before, apart>>
EnableAutoget(e) ==
  /\ pc = "idle" /\ autoget' = e /\ ret' = "ok"
  /\ UNCHANGED <<cache, autoset, drive, pc, call, asked, todo, saved, before,
                 apart>>

-----------------------------------------------------------------------------
\* A setter: checks, changes the setting, and sends it if autoset is on.
Refused ==
  /\ pc = "change" /\ todo # <<>> /\ ~Valid(Head(todo), asked[Head(todo)])
  /\ todo' = Tail(todo)
  /\ UNCHANGED <<cache, autoset, autoget, drive, saved, apart>>
  /\ IF call = "set" THEN Return("fail") ELSE GoOn /\ UNCHANGED pc

Change ==
  /\ pc = "change" /\ todo # <<>> /\ Valid(Head(todo), asked[Head(todo)])
  /\ cache' = [cache EXCEPT ![Head(todo)] = asked[Head(todo)]]
  /\ todo' = Tail(todo)
  /\ IF autoset THEN pc' = "send" /\ GoOn /\ UNCHANGED apart
     ELSE /\ apart' = TRUE
          /\ IF call = "set" THEN Return("ok") ELSE GoOn /\ UNCHANGED pc
  /\ UNCHANGED <<autoset, autoget, drive, saved>>

\* The end of a convenience function, which sends if autoset was on.
Restore ==
  /\ pc = "change" /\ todo = <<>>
  /\ autoset' = saved
  /\ UNCHANGED <<cache, autoget, drive, todo, saved, apart>>
  /\ IF saved THEN pc' = "send" /\ call' = "set" /\ UNCHANGED <<asked, ret, before>>
     ELSE Return("ok")

\* The telegram with all settings, and what becomes of it.
Sent(reached, r) ==
  /\ pc = "send" /\ (r = "ok" => reached)
  /\ drive' = (IF reached THEN Telegram(cache) ELSE drive)
  /\ apart' = (r = "fail")
  /\ UNCHANGED <<cache, autoset, autoget, todo, saved>>
  /\ IF call = "set" THEN Return(r) ELSE pc' = "change" /\ GoOn

\* The reply with the state, or none.
Look == /\ pc = "look"
        /\ UNCHANGED <<autoset, autoget, drive, todo, saved, apart>>
Answered(r) == Return(IF call = "value" THEN "value" ELSE r)
Seen == Look /\ cache' = Known(cache, drive) /\ Answered("ok")
NotSeen == Look /\ UNCHANGED cache /\ Answered("fail")

\* A motor that reaches its limit stops; a program on the brick that ends
\* stops all motors.
Itself(d) == (IF d.runstate = "running" /\ d.limit # 0
              THEN {[d EXCEPT !.runstate = "idle"]} ELSE {})
               \cup {Telegram(Resting)}
Alone == /\ drive' \in Itself(drive) /\ drive' # drive
         /\ apart' = TRUE
         /\ UNCHANGED <<cache, autoset, autoget, callVars, before>>

Next == \/ \E f \in DOMAIN Values : \E v \in Values[f] : Setter(f, v)
        \/ \E r \in Rotation, p \in Power : Rotate(r, p)
        \/ \E b \in BOOLEAN : Stop(b) \/ EnableAutoset(b) \/ EnableAutoget(b)
        \/ \E t \in Ratio : Sync(t)
        \/ SetState \/ GetState \/ Get \/ GetKnown \/ GetTacho
        \/ Refused \/ Change \/ Restore
        \/ \E reached \in BOOLEAN, r \in {"ok", "fail"} : Sent(reached, r)
        \/ Seen \/ NotSeen
        \/ Alone

Spec == Init /\ [][Next]_vars
=============================================================================
