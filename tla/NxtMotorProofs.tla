---------------------------- MODULE NxtMotorProofs ----------------------------
(***************************************************************************)
(* Proofs about the motor functions, for all powers, ratios, rotations and  *)
(* modes that programs ask for.  MInv, the types and InStep everywhere but  *)
(* before a telegram, is inductive.                                        *)
(***************************************************************************)
EXTENDS NxtMotorProperties, TLAPS

\* Except when a telegram is about to be sent, the settings are the brick's:
\* a setter that refuses, and a convenience function that is done, return
\* without one.
Synced == ~apart /\ pc # "send" => drive = Telegram(cache)
\* The settings to come are among those the call asks for.
Wanted == pc \in {"change", "send"} =>
  \A i \in DOMAIN todo : todo[i] \in DOMAIN asked
MInv == TypeOK /\ Synced /\ Wanted

Fields == {"power", "ratio", "limit", "regmode", "runstate", "on", "brake"}

-----------------------------------------------------------------------------
(* The settings and the telegram.                                          *)

\* A byte is in its range, and a byte of a byte is the same.
LEMMA ByteRange ==
  ASSUME NEW n \in Int PROVE Byte(n) \in 0 .. 255 /\ Byte(Byte(n)) = Byte(n)
BY DEF Byte

\* What nxt_motor_set_state sends is a telegram.
LEMMA TelegramType == ASSUME NEW c \in Settings PROVE Telegram(c) \in Telegrams
<1>1. c.power \in Int /\ c.ratio \in Int
  BY DEF Settings
<1>2. Byte(c.power) \in 0 .. 255 /\ Byte(c.ratio) \in 0 .. 255
  BY <1>1, ByteRange
<1>3. /\ c.regmode \in 0 .. 2 /\ c.limit \in Nat /\ c.runstate \in RunState
      /\ c.on \in BOOLEAN /\ c.brake \in BOOLEAN /\ (c.regmode # NONE) \in BOOLEAN
  BY DEF Settings
<1> QED BY <1>2, <1>3, SMT DEF Telegrams, Telegram

\* Both states that a motor may be in when a program starts are settings.
LEMMA StartType == Resting \in Settings /\ Running \in Settings
<1>1. /\ 0 \in Int /\ -50 \in Int /\ 0 \in -100 .. 255 /\ 0 \in 0 .. 2 /\ 0 \in Nat
  OBVIOUS
<1>2. "idle" \in RunState /\ "running" \in RunState
  BY MotorAssumption
<1>3. Resting \in Settings
  BY <1>1, <1>2 DEF Resting, Settings, NONE
<1>4. [Resting EXCEPT !.power = -50] \in Settings
  BY <1>1, <1>3 DEF Settings
<1>5. [[Resting EXCEPT !.power = -50] EXCEPT !.on = TRUE] \in Settings
  BY <1>4 DEF Settings
<1>6. Running \in Settings
  BY <1>2, <1>5 DEF Running, Settings
<1> QED BY <1>3, <1>6

\* What nxt_motor_get_state reads are settings again, although bytes come back
\* unsigned.
LEMMA KnownType ==
  ASSUME NEW c \in Settings, NEW d \in Telegrams PROVE Known(c, d) \in Settings
BY DEF Settings, Telegrams, Known

\* A telegram that is read back into the settings it was made of is sent again
\* as the same telegram.
LEMMA ReadBack ==
  ASSUME NEW c \in Settings PROVE Telegram(Known(c, Telegram(c))) = Telegram(c)
<1>1. c.power \in Int /\ c.ratio \in Int
  BY DEF Settings
<1>2. Byte(Byte(c.power)) = Byte(c.power) /\ Byte(Byte(c.ratio)) = Byte(c.ratio)
  BY <1>1, ByteRange
<1> QED BY <1>2 DEF Telegram, Known, Settings

\* What programs give to the setters, by setting
LEMMA ValuesType ==
  /\ DOMAIN Values = Fields
  /\ Values["power"] \subseteq Int /\ Values["ratio"] \subseteq Int
  /\ Values["limit"] \subseteq Int /\ Values["regmode"] \subseteq 0 .. 2
  /\ Values["runstate"] = RunState
  /\ Values["on"] = BOOLEAN /\ Values["brake"] = BOOLEAN
<1>1. DOMAIN Values = Fields
  BY DEF Values, Fields
<1> QED BY <1>1, MotorAssumption DEF Values

\* A call asks for settings and gives each one of its values.
LEMMA ChangeType ==
  ASSUME NEW a \in Changes
  PROVE  DOMAIN a \subseteq Fields /\ \A f \in DOMAIN a : a[f] \in Values[f]
<1>0. /\ Values["power"] = Power \cup {0} /\ Values["ratio"] = Ratio
      /\ Values["limit"] = Rotation /\ Values["regmode"] = RegMode
      /\ Values["runstate"] = RunState /\ Values["on"] = BOOLEAN
      /\ Values["brake"] = BOOLEAN /\ DOMAIN Values = Fields
  BY DEF Values, Fields
<1>1. SYNC \in RegMode /\ {"idle", "running"} \subseteq RunState
  BY MotorAssumption DEF SYNC
<1>2. CASE a \in Setters
  <2>1. PICK f \in DOMAIN Values : a \in [{f} -> Values[f]]
    BY <1>2 DEF Setters
  <2> QED BY <1>0, <2>1
<1>3. CASE a \in Rotates
  <2>1. DOMAIN a = {"power", "limit", "runstate", "on"}
    BY <1>3 DEF Rotates
  <2>2. /\ a["power"] \in Power /\ a["limit"] \in Rotation
        /\ a["runstate"] = "running" /\ a["on"] = TRUE
    BY <1>3 DEF Rotates
  <2> QED BY <1>0, <1>1, <2>1, <2>2 DEF Fields
<1>4. CASE a \in Stops
  <2>1. DOMAIN a = {"power", "brake", "runstate", "on"}
    BY <1>4 DEF Stops
  <2>2. /\ a["power"] = 0 /\ a["brake"] \in BOOLEAN
        /\ a["runstate"] = "idle" /\ a["on"] = FALSE
    BY <1>4 DEF Stops
  <2> QED BY <1>0, <1>1, <2>1, <2>2 DEF Fields
<1>5. CASE a \in Syncs
  <2>1. DOMAIN a = {"ratio", "regmode"}
    BY <1>5 DEF Syncs
  <2>2. a["ratio"] \in Ratio /\ a["regmode"] = SYNC
    BY <1>5 DEF Syncs
  <2> QED BY <1>0, <1>1, <2>1, <2>2 DEF Fields
<1> QED BY <1>2, <1>3, <1>4, <1>5 DEF Changes

\* A setter whose value is checked leaves settings behind.
LEMMA PutType ==
  ASSUME NEW c \in Settings, NEW f \in Fields, NEW v \in Values[f], Valid(f, v)
  PROVE  [c EXCEPT ![f] = v] \in Settings
<1>1. /\ f = "power" => v \in Int
      /\ f = "ratio" => v \in -100 .. 255
      /\ f = "limit" => v \in Nat
      /\ f = "regmode" => v \in 0 .. 2
      /\ f = "runstate" => v \in RunState
      /\ f \in {"on", "brake"} => v \in BOOLEAN
  BY ValuesType DEF Valid
<1>2. /\ c.power \in Int /\ c.ratio \in -100 .. 255 /\ c.regmode \in 0 .. 2
      /\ c.on \in BOOLEAN /\ c.brake \in BOOLEAN /\ c.runstate \in RunState
      /\ c.limit \in Nat
  BY DEF Settings
<1> QED BY <1>1, <1>2 DEF Settings, Fields

-----------------------------------------------------------------------------
(* The invariant.                                                          *)

\* A program starts with MInv.
LEMMA InitMInv == Init => MInv
<1> SUFFICES ASSUME Init PROVE MInv
  OBVIOUS
<1>1. Telegram(Resting) \in Telegrams /\ Telegram(Running) \in Telegrams
  BY StartType, TelegramType
<1>2. drive \in Telegrams
  BY <1>1 DEF Init
<1>3. cache \in Settings
  BY <1>2, StartType, KnownType DEF Init
<1>4. apart = (Telegram(cache) # drive) /\ apart \in BOOLEAN
  BY DEF Init
<1>5. Synced
  BY <1>4 DEF Synced
<1>6. /\ before \in Settings /\ autoset \in BOOLEAN /\ autoget \in BOOLEAN
      /\ saved \in BOOLEAN /\ pc = "idle" /\ call = "none" /\ ret = "ok"
      /\ todo \in Seq(DOMAIN Values) /\ asked = <<>> /\ Wanted
  BY <1>3 DEF Init, Wanted
<1> QED BY <1>2, <1>3, <1>4, <1>5, <1>6 DEF MInv, TypeOK

\* A setting to come is a setting, and so are those after it.
LEMMA TodoType ==
  ASSUME MInv, pc = "change", todo # <<>>
  PROVE  /\ Head(todo) \in Fields /\ Head(todo) \in DOMAIN asked
         /\ asked[Head(todo)] \in Values[Head(todo)]
         /\ Tail(todo) \in Seq(DOMAIN Values)
         /\ \A i \in DOMAIN Tail(todo) : Tail(todo)[i] \in DOMAIN asked
<1>1. todo \in Seq(DOMAIN Values) /\ DOMAIN Values = Fields
  BY ValuesType DEF MInv, TypeOK
<1>2. /\ 1 \in DOMAIN todo /\ Head(todo) = todo[1] /\ Tail(todo) \in Seq(DOMAIN Values)
      /\ \A i \in DOMAIN Tail(todo) : i + 1 \in DOMAIN todo /\ Tail(todo)[i] = todo[i + 1]
  BY <1>1
<1>3. \A i \in DOMAIN todo : todo[i] \in DOMAIN asked
  BY DEF MInv, Wanted
<1>4. asked # <<>>
  BY <1>2, <1>3
<1>5. asked \in Changes
  BY <1>4 DEF MInv, TypeOK
<1> QED BY <1>1, <1>2, <1>3, <1>5, ChangeType

\* What the functions ask for, and the settings that they change in turn.
LEMMA AskType ==
  /\ \A f \in DOMAIN Values : \A v \in Values[f] :
       /\ [g \in {f} |-> v] \in Changes /\ <<f>> \in Seq(DOMAIN Values)
       /\ \A i \in DOMAIN <<f>> : <<f>>[i] \in DOMAIN [g \in {f} |-> v]
  /\ \A r \in Rotation, p \in Power :
       [power |-> p, limit |-> r, runstate |-> "running", on |-> TRUE] \in Rotates
  /\ \A b \in BOOLEAN :
       [power |-> 0, brake |-> b, runstate |-> "idle", on |-> FALSE] \in Stops
  /\ \A t \in Ratio : [ratio |-> t, regmode |-> SYNC] \in Syncs
  /\ <<"power", "limit", "runstate", "on">> \in Seq(DOMAIN Values)
  /\ <<"power", "brake", "runstate", "on">> \in Seq(DOMAIN Values)
  /\ <<"ratio", "regmode">> \in Seq(DOMAIN Values)
<1>1. ASSUME NEW f \in DOMAIN Values, NEW v \in Values[f]
      PROVE  /\ [g \in {f} |-> v] \in Changes /\ <<f>> \in Seq(DOMAIN Values)
             /\ \A i \in DOMAIN <<f>> : <<f>>[i] \in DOMAIN [g \in {f} |-> v]
  <2>1. [g \in {f} |-> v] \in Setters
    BY DEF Setters
  <2> QED BY <2>1 DEF Changes
<1>2. ASSUME NEW r \in Rotation, NEW p \in Power
      PROVE  [power |-> p, limit |-> r, runstate |-> "running", on |-> TRUE] \in Rotates
  BY DEF Rotates
<1>3. ASSUME NEW b \in BOOLEAN
      PROVE  [power |-> 0, brake |-> b, runstate |-> "idle", on |-> FALSE] \in Stops
  BY DEF Stops
<1>4. ASSUME NEW t \in Ratio PROVE [ratio |-> t, regmode |-> SYNC] \in Syncs
  BY DEF Syncs
<1>5. /\ <<"power", "limit", "runstate", "on">> \in Seq(DOMAIN Values)
      /\ <<"power", "brake", "runstate", "on">> \in Seq(DOMAIN Values)
      /\ <<"ratio", "regmode">> \in Seq(DOMAIN Values)
  BY ValuesType DEF Fields
<1> QED BY <1>1, <1>2, <1>3, <1>4, <1>5

\* A function that begins leaves the settings alone.
LEMMA BeginMInv ==
  ASSUME MInv, NEW c \in {"none", "set", "rotate", "stop", "sync", "state", "value"},
         NEW a \in Changes \cup {<<>>}, NEW steps \in Seq(DOMAIN Values),
         \A i \in DOMAIN steps : steps[i] \in DOMAIN a,
         NEW next \in {"change", "send", "look"},
         Begin(c, a, steps, next), autoset' \in BOOLEAN
  PROVE  MInv'
BY DEF MInv, TypeOK, Synced, Wanted, Begin

\* Every step keeps MInv.
LEMMA NextMInv == MInv /\ [Next]_vars => MInv'
<1> SUFFICES ASSUME MInv, [Next]_vars PROVE MInv'
  OBVIOUS
<1>0. <<>> \in Seq(DOMAIN Values) /\ DOMAIN <<>> = {}
  OBVIOUS
<1>1. ASSUME NEW f \in DOMAIN Values, NEW v \in Values[f], Setter(f, v) PROVE MInv'
  <2>1. /\ [g \in {f} |-> v] \in Changes /\ <<f>> \in Seq(DOMAIN Values)
        /\ \A i \in DOMAIN <<f>> : <<f>>[i] \in DOMAIN [g \in {f} |-> v]
    BY AskType
  <2>2. autoset' \in BOOLEAN /\ Begin("set", [g \in {f} |-> v], <<f>>, "change")
    BY <1>1 DEF Setter, MInv, TypeOK
  <2> DEFINE a == [g \in {f} |-> v]
  <2> HIDE DEF a
  <2> QED BY <2>1, <2>2, BeginMInv DEF a
<1>2. ASSUME NEW r \in Rotation, NEW p \in Power, Rotate(r, p) PROVE MInv'
  <2> DEFINE a == [power |-> p, limit |-> r, runstate |-> "running", on |-> TRUE]
             t == <<"power", "limit", "runstate", "on">>
  <2>1. a \in Changes /\ t \in Seq(DOMAIN Values)
    BY AskType DEF Changes
  <2>2. \A i \in DOMAIN t : t[i] \in DOMAIN a
    OBVIOUS
  <2>3. Begin("rotate", a, t, "change") /\ autoset' \in BOOLEAN
    BY <1>2 DEF Rotate, Convenience
  <2> HIDE DEF a, t
  <2> QED BY <2>1, <2>2, <2>3, BeginMInv
<1>3. ASSUME NEW b \in BOOLEAN, Stop(b) PROVE MInv'
  <2> DEFINE a == [power |-> 0, brake |-> b, runstate |-> "idle", on |-> FALSE]
             t == <<"power", "brake", "runstate", "on">>
  <2>1. a \in Changes /\ t \in Seq(DOMAIN Values)
    BY AskType DEF Changes
  <2>2. \A i \in DOMAIN t : t[i] \in DOMAIN a
    OBVIOUS
  <2>3. Begin("stop", a, t, "change") /\ autoset' \in BOOLEAN
    BY <1>3 DEF Stop, Convenience
  <2> HIDE DEF a, t
  <2> QED BY <2>1, <2>2, <2>3, BeginMInv
<1>4. ASSUME NEW n \in Ratio, Sync(n) PROVE MInv'
  <2> DEFINE a == [ratio |-> n, regmode |-> SYNC]
             t == <<"ratio", "regmode">>
  <2>1. a \in Changes /\ t \in Seq(DOMAIN Values)
    BY AskType DEF Changes
  <2>2. \A i \in DOMAIN t : t[i] \in DOMAIN a
    OBVIOUS
  <2>3. Begin("sync", a, t, "change") /\ autoset' \in BOOLEAN
    BY <1>4 DEF Sync, Convenience
  <2> HIDE DEF a, t
  <2> QED BY <2>1, <2>2, <2>3, BeginMInv
<1>5. CASE SetState
  BY <1>0, <1>5, BeginMInv DEF SetState, MInv, TypeOK
<1>6. CASE GetState \/ Get \/ GetTacho
  BY <1>0, <1>6, BeginMInv DEF GetState, Get, GetTacho, MInv, TypeOK
<1>7. CASE GetKnown
  BY <1>7 DEF GetKnown, MInv, TypeOK, Synced, Wanted
<1>8. ASSUME NEW b \in BOOLEAN, EnableAutoset(b) \/ EnableAutoget(b) PROVE MInv'
  BY <1>8 DEF EnableAutoset, EnableAutoget, MInv, TypeOK, Synced, Wanted
<1>9. CASE Refused
  <2>1. todo' \in Seq(DOMAIN Values) /\ \A i \in DOMAIN todo' : todo'[i] \in DOMAIN asked
    BY <1>9, TodoType DEF Refused
  <2>2. \/ pc' = "idle" /\ asked' = <<>> /\ call' = "none" /\ ret' = "fail" /\ before' = cache'
        \/ pc' = "change" /\ UNCHANGED <<asked, call, ret, before>>
    BY <1>9 DEF Refused, Return, GoOn
  <2>3. UNCHANGED <<cache, autoset, autoget, drive, saved, apart>> /\ pc = "change"
    BY <1>9 DEF Refused
  <2> QED BY <2>1, <2>2, <2>3 DEF MInv, TypeOK, Synced, Wanted, Telegram
<1>10. CASE Change
  <2>1. /\ todo' \in Seq(DOMAIN Values) /\ pc = "change"
        /\ \A i \in DOMAIN todo' : todo'[i] \in DOMAIN asked
    BY <1>10, TodoType DEF Change
  <2>2. cache' \in Settings
    <3>1. /\ Head(todo) \in Fields /\ asked[Head(todo)] \in Values[Head(todo)]
          /\ cache \in Settings
      BY <1>10, TodoType DEF Change, MInv, TypeOK
    <3>2. /\ Valid(Head(todo), asked[Head(todo)])
          /\ cache' = [cache EXCEPT ![Head(todo)] = asked[Head(todo)]]
      BY <1>10 DEF Change
    <3> QED BY <3>1, <3>2, PutType
  <2>3. /\ pc' \in {"idle", "change", "send"} /\ (apart' \/ pc' = "send")
        /\ apart' \in BOOLEAN
        /\ ret' \in {"ok", "fail", "value"} /\ before' \in Settings
        /\ call' \in {"none", "set", "rotate", "stop", "sync", "state", "value"}
        /\ \/ asked' = asked
           \/ asked' = <<>> /\ pc' = "idle"
    BY <1>10, <2>2 DEF Change, Return, GoOn, MInv, TypeOK
  <2>4. /\ drive' \in Telegrams /\ autoset' \in BOOLEAN /\ autoget' \in BOOLEAN
        /\ saved' \in BOOLEAN
    BY <1>10 DEF Change, MInv, TypeOK
  <2>5. Wanted'
    BY <2>1, <2>3 DEF Wanted
  <2>6. asked' \in Changes \cup {<<>>}
    BY <2>3 DEF MInv, TypeOK
  <2> QED BY <2>1, <2>2, <2>3, <2>4, <2>5, <2>6 DEF MInv, TypeOK, Synced
<1>11. CASE Restore
  BY <1>11 DEF Restore, Return, MInv, TypeOK, Synced, Wanted
<1>12. ASSUME NEW reached \in BOOLEAN, NEW r \in {"ok", "fail"}, Sent(reached, r)
       PROVE  MInv'
  <2>1. cache \in Settings /\ cache' = cache /\ drive \in Telegrams
    BY <1>12 DEF Sent, MInv, TypeOK
  <2>2. drive' \in Telegrams
    BY <1>12, <2>1, TelegramType DEF Sent
  <2>3. apart' = (r = "fail") /\ apart' \in BOOLEAN
    BY <1>12 DEF Sent
  <2>4. Synced'
    BY <1>12, <2>1, <2>3 DEF Sent, Synced, Telegram
  <2>5. /\ pc' \in {"idle", "change"} /\ ret' \in {"ok", "fail", "value"}
        /\ before' \in Settings
        /\ call' \in {"none", "set", "rotate", "stop", "sync", "state", "value"}
    BY <1>12, <2>1 DEF Sent, Return, GoOn, MInv, TypeOK
  <2>6. /\ autoset' \in BOOLEAN /\ autoget' \in BOOLEAN /\ saved' \in BOOLEAN
        /\ todo' \in Seq(DOMAIN Values) /\ asked' \in Changes \cup {<<>>} /\ Wanted'
    BY <1>12 DEF Sent, Return, GoOn, MInv, TypeOK, Wanted
  <2> QED BY <2>1, <2>2, <2>3, <2>4, <2>5, <2>6 DEF MInv, TypeOK
<1>13. CASE Seen
  <2>1. cache' \in Settings
    BY <1>13, KnownType DEF Seen, MInv, TypeOK
  <2>2. cache \in Settings /\ drive' = drive /\ apart' = apart /\ pc = "look"
    BY <1>13 DEF Seen, Look, MInv, TypeOK
  <2>3. drive = Telegram(cache) => Telegram(cache') = drive'
    BY <1>13, <2>2, ReadBack DEF Seen
  <2>4. Synced'
    BY <2>2, <2>3 DEF MInv, Synced
  <2> QED BY <1>13, <2>1, <2>4 DEF Seen, Look, Answered, Return, MInv, TypeOK, Wanted
<1>14. CASE NotSeen
  BY <1>14 DEF NotSeen, Look, Answered, Return, MInv, TypeOK, Synced, Wanted
<1>15. CASE Alone
  <2>1. \A d \in Telegrams : [d EXCEPT !.runstate = "idle"] \in Telegrams
    BY MotorAssumption DEF Telegrams
  <2>2. Telegram(Resting) \in Telegrams
    BY StartType, TelegramType
  <2>3. drive' \in Telegrams
    BY <1>15, <2>1, <2>2 DEF Alone, Itself, MInv, TypeOK
  <2> QED BY <1>15, <2>3 DEF Alone, callVars, MInv, TypeOK, Synced, Wanted
<1>16. CASE UNCHANGED vars
  BY <1>16 DEF vars, callVars, MInv, TypeOK, Synced, Wanted, Telegram
<1> QED BY <1>1, <1>2, <1>3, <1>4, <1>5, <1>6, <1>7, <1>8, <1>9, <1>10, <1>11,
           <1>12, <1>13, <1>14, <1>15, <1>16 DEF Next

\* Every reachable state satisfies MInv.
LEMMA AlwaysMInv == Spec => []MInv
BY InitMInv, NextMInv, PTL DEF Spec

\* TypeOK: settings keep the ranges that the setters check and that bytes have,
\* whatever programs ask for and whatever the motor does by itself.
THEOREM MotorTypes == Spec => []TypeOK
<1>1. MInv => TypeOK
  BY DEF MInv
<1> QED BY <1>1, AlwaysMInv, PTL

\* InStep: unless a telegram failed or was not sent, or the motor changed by
\* itself, the settings kept in the nxt_t (motor.c) are those of the brick
\* whenever no function is under way and when a state is about to be read.
THEOREM SettingsInStep == Spec => []InStep
<1>1. MInv => InStep
  BY DEF MInv, Synced, InStep
<1> QED BY <1>1, AlwaysMInv, PTL
-----------------------------------------------------------------------------
(* The motor functions implement NxtDrive.                                 *)

\* Whether a setting is still to be changed.
Coming(f, t) == \E i \in DOMAIN t : t[i] = f

\* Of the change a, to the settings b that were there when the last call ended,
\* all but the settings t to come are done, where their setters took them.
Partway(c, b, a, t) ==
  /\ c = [f \in Fields |-> IF f \in DOMAIN a /\ ~Coming(f, t) /\ Valid(f, a[f])
                           THEN a[f] ELSE b[f]]
  /\ \A i, j \in DOMAIN t : i # j => t[i] # t[j]

\* The change a is done, but for what was refused; who asked is told of that
\* unless NxtDrive says otherwise.
Done(c, b, a) ==
  /\ a # <<>> /\ c = Put(Drive!LegalPart(a), b)
  /\ (Drive!Legal(a) /\ a \in Changes) \/ a \in Overlooked

\* What a call has done to the settings since the last one ended.
DInv ==
  /\ pc \in {"idle", "look"} => cache = before /\ autoset = saved /\ asked = <<>>
  /\ pc = "look" => call \in {"state", "value"}
  /\ pc = "change" =>
       \/ /\ call = "set" /\ autoset = saved /\ cache = before
          /\ \E f \in Fields : \E v \in Values[f] : todo = <<f>> /\ asked = [g \in {f} |-> v]
       \/ /\ call \in {"rotate", "stop", "sync"} /\ ~autoset
          /\ asked \in Rotates \cup Stops \cup Syncs
          /\ Partway(cache, before, asked, todo)
  /\ pc = "send" =>
       /\ call = "set" /\ autoset = saved
       /\ \/ cache = before /\ asked = <<>>
          \/ saved /\ Done(cache, before, asked)

\* Settings have the fields that a program may set.
LEMMA FieldsOf == ASSUME NEW c \in Settings PROVE DOMAIN c = Fields /\ c = [f \in Fields |-> c[f]]
BY DEF Settings, Fields

\* A convenience function begins with nothing done.
LEMMA Begun ==
  ASSUME NEW c \in Settings, NEW a, NEW t,
         \A f \in DOMAIN a : Coming(f, t),
         \A i, j \in DOMAIN t : i # j => t[i] # t[j]
  PROVE  Partway(c, c, a, t)
BY FieldsOf DEF Partway

\* The next setter changes its setting or refuses it.
LEMMA PartwayTail ==
  ASSUME MInv, Partway(cache, before, asked, todo), pc = "change",
         todo # <<>>, todo' = Tail(todo), before' = before, asked' = asked,
         IF Valid(Head(todo), asked[Head(todo)])
         THEN cache' = [cache EXCEPT ![Head(todo)] = asked[Head(todo)]]
         ELSE cache' = cache
  PROVE  Partway(cache', before', asked', todo')
<1> DEFINE h == Head(todo)
<1>1. /\ 1 \in DOMAIN todo /\ h = todo[1]
      /\ \A i \in DOMAIN todo' : i + 1 \in DOMAIN todo /\ todo'[i] = todo[i + 1]
      /\ \A i \in DOMAIN todo : i = 1 \/ (i - 1 \in DOMAIN todo' /\ todo'[i - 1] = todo[i])
      /\ \A i, j \in DOMAIN todo' : i # j => i + 1 # j + 1
      /\ \A i \in DOMAIN todo' : i + 1 # 1
  BY DEF MInv, TypeOK
<1>2. cache \in Settings /\ before \in Settings
  BY DEF MInv, TypeOK
<1>3. /\ cache = [f \in Fields |-> IF f \in DOMAIN asked /\ ~Coming(f, todo)
                                      /\ Valid(f, asked[f])
                                   THEN asked[f] ELSE before[f]]
      /\ \A i, j \in DOMAIN todo : i # j => todo[i] # todo[j]
  BY DEF Partway
<1>4. h \in DOMAIN asked /\ h \in Fields
  BY TodoType
<1> HIDE DEF h
<1>5. \A f : Coming(f, todo) <=> Coming(f, todo') \/ f = h
  BY <1>1 DEF Coming
<1>6. ~Coming(h, todo')
  BY <1>1, <1>3 DEF Coming
<1>7. \A i, j \in DOMAIN todo' : i # j => todo'[i] # todo'[j]
  BY <1>1, <1>3
<1>8. cache' = [f \in Fields |-> IF f \in DOMAIN asked' /\ ~Coming(f, todo')
                                    /\ Valid(f, asked'[f])
                                 THEN asked'[f] ELSE before'[f]]
  <2>1. CASE Valid(h, asked[h])
    <3>1. cache' = [f \in Fields |-> IF f = h THEN asked[h] ELSE cache[f]]
      BY <1>2, <1>4, <2>1, FieldsOf DEF h
    <3> QED BY <1>3, <1>4, <1>5, <1>6, <2>1, <3>1
  <2>2. CASE ~Valid(h, asked[h])
    <3>1. cache' = cache
      BY <2>2 DEF h
    <3> QED BY <1>3, <1>5, <2>2, <3>1
  <2> QED BY <2>1, <2>2
<1> QED BY <1>7, <1>8 DEF Partway

\* With nothing to come the change is done, and it was legal or is one of those
\* that NxtDrive lists.
LEMMA PartwayDone ==
  ASSUME MInv, asked \in Rotates \cup Stops \cup Syncs,
         Partway(cache, before, asked, todo), todo = <<>>
  PROVE  Done(cache, before, asked)
<1>1. before \in Settings /\ DOMAIN before = Fields
  BY FieldsOf DEF MInv, TypeOK
<1>2. \A f : ~Coming(f, todo)
  BY DEF Coming
<1>3. cache = Put(Drive!LegalPart(asked), before)
  BY <1>1, <1>2 DEF Partway, Put, Drive!LegalPart, Accepts
<1>4. CASE asked \in Rotates
  <2>1. /\ DOMAIN asked = {"power", "limit", "runstate", "on"}
        /\ asked["limit"] = asked.limit
    BY <1>4 DEF Rotates
  <2>2. asked # <<>>
    BY <2>1
  <2>3. ~(asked.limit < 0) => asked.limit >= 0
    <3>1. asked.limit \in Int
      BY <1>4, MotorAssumption DEF Rotates
    <3>2. \A n \in Int : ~(n < 0) => n >= 0
      OBVIOUS
    <3> QED BY <3>1, <3>2
  <2>4. asked \in Overlooked \/ Drive!Legal(asked)
    BY <1>4, <2>1, <2>3 DEF Overlooked, Drive!Legal, Accepts, Valid
  <2> QED BY <1>3, <1>4, <2>2, <2>4 DEF Done, Changes
<1>5. CASE asked \in Stops
  <2>1. DOMAIN asked = {"power", "brake", "runstate", "on"}
    BY <1>5 DEF Stops
  <2>2. asked # <<>>
    BY <2>1
  <2>3. Drive!Legal(asked)
    BY <2>1 DEF Drive!Legal, Accepts, Valid
  <2> QED BY <1>3, <1>5, <2>2, <2>3 DEF Done, Changes
<1>6. CASE asked \in Syncs
  <2>1. /\ DOMAIN asked = {"ratio", "regmode"} /\ asked["ratio"] = asked.ratio
        /\ asked["regmode"] = SYNC
    BY <1>6 DEF Syncs
  <2>2. asked # <<>>
    BY <2>1
  <2>3. asked \in Overlooked \/ Drive!Legal(asked)
    BY <1>6, <2>1 DEF Overlooked, Drive!Legal, Accepts, Valid, Regulation
  <2> QED BY <1>3, <1>6, <2>2, <2>3 DEF Done, Changes
<1> QED BY <1>4, <1>5, <1>6

\* A setter that takes its value has done its change.
LEMMA SetterDone ==
  ASSUME MInv, NEW f \in Fields, NEW v \in Values[f], Valid(f, v), NEW a, NEW c,
         a = [g \in {f} |-> v], c = [before EXCEPT ![f] = v]
  PROVE  Done(c, before, a)
<1>1. before \in Settings /\ DOMAIN before = Fields
  BY FieldsOf DEF MInv, TypeOK
<1>2. DOMAIN a = {f} /\ a[f] = v /\ a # <<>>
  OBVIOUS
<1>3. Drive!Legal(a)
  BY <1>2 DEF Drive!Legal, Accepts
<1>4. Drive!LegalPart(a) = a
  BY <1>2 DEF Drive!LegalPart, Accepts
<1>5. c = Put(a, before)
  BY <1>1, <1>2 DEF Put
<1>6. a \in Changes
  BY AskType, ValuesType
<1> QED BY <1>2, <1>3, <1>4, <1>5, <1>6 DEF Done

\* A program starts with DInv, and every step keeps it.
LEMMA InitDInv == Init => DInv
BY DEF Init, DInv
LEMMA NextDInv == MInv /\ DInv /\ [Next]_vars => DInv'
<1> SUFFICES ASSUME MInv, DInv, [Next]_vars PROVE DInv'
  OBVIOUS
<1>0. /\ cache \in Settings /\ before \in Settings /\ saved \in BOOLEAN
      /\ autoset \in BOOLEAN /\ DOMAIN Values = Fields
  BY ValuesType DEF MInv, TypeOK
<1>1. ASSUME NEW f \in DOMAIN Values, NEW v \in Values[f], Setter(f, v) PROVE DInv'
  <2>1. /\ call' = "set" /\ pc' = "change" /\ asked' = [g \in {f} |-> v]
        /\ todo' = <<f>> /\ UNCHANGED <<autoset, saved, cache, before>> /\ pc = "idle"
    BY <1>1 DEF Setter, Begin
  <2> QED BY <1>0, <2>1 DEF DInv
<1>2. ASSUME NEW r \in Rotation, NEW p \in Power, Rotate(r, p) PROVE DInv'
  <2> DEFINE a == [power |-> p, limit |-> r, runstate |-> "running", on |-> TRUE]
             t == <<"power", "limit", "runstate", "on">>
  <2>1. /\ before' = cache /\ cache' = cache /\ call' = "rotate" /\ ~autoset'
        /\ pc' = "change" /\ asked' = a /\ todo' = t
    BY <1>2 DEF Rotate, Convenience, Begin, DInv
  <2>2. (\A f \in DOMAIN a : Coming(f, t)) /\ \A i, j \in DOMAIN t : i # j => t[i] # t[j]
    <3>1. DOMAIN a = {"power", "limit", "runstate", "on"} /\ DOMAIN t = 1 .. 4
      OBVIOUS
    <3>2. t[1] = "power" /\ t[2] = "limit" /\ t[3] = "runstate" /\ t[4] = "on"
      OBVIOUS
    <3> HIDE DEF a, t
    <3> QED BY <3>1, <3>2 DEF Coming
  <2>3. a \in Rotates
    BY AskType
  <2> HIDE DEF a, t
  <2>4. Partway(cache', before', asked', todo')
    BY <1>0, <2>1, <2>2, Begun
  <2> QED BY <2>1, <2>3, <2>4 DEF DInv
<1>3. ASSUME NEW b \in BOOLEAN, Stop(b) PROVE DInv'
  <2> DEFINE a == [power |-> 0, brake |-> b, runstate |-> "idle", on |-> FALSE]
             t == <<"power", "brake", "runstate", "on">>
  <2>1. /\ before' = cache /\ cache' = cache /\ call' = "stop" /\ ~autoset'
        /\ pc' = "change" /\ asked' = a /\ todo' = t
    BY <1>3 DEF Stop, Convenience, Begin, DInv
  <2>2. (\A f \in DOMAIN a : Coming(f, t)) /\ \A i, j \in DOMAIN t : i # j => t[i] # t[j]
    <3>1. DOMAIN a = {"power", "brake", "runstate", "on"} /\ DOMAIN t = 1 .. 4
      OBVIOUS
    <3>2. t[1] = "power" /\ t[2] = "brake" /\ t[3] = "runstate" /\ t[4] = "on"
      OBVIOUS
    <3> HIDE DEF a, t
    <3> QED BY <3>1, <3>2 DEF Coming
  <2>3. a \in Stops
    BY AskType
  <2> HIDE DEF a, t
  <2>4. Partway(cache', before', asked', todo')
    BY <1>0, <2>1, <2>2, Begun
  <2> QED BY <2>1, <2>3, <2>4 DEF DInv
<1>4. ASSUME NEW n \in Ratio, Sync(n) PROVE DInv'
  <2> DEFINE a == [ratio |-> n, regmode |-> SYNC]
             t == <<"ratio", "regmode">>
  <2>1. /\ before' = cache /\ cache' = cache /\ call' = "sync" /\ ~autoset'
        /\ pc' = "change" /\ asked' = a /\ todo' = t
    BY <1>4 DEF Sync, Convenience, Begin, DInv
  <2>2. (\A f \in DOMAIN a : Coming(f, t)) /\ \A i, j \in DOMAIN t : i # j => t[i] # t[j]
    <3>1. DOMAIN a = {"ratio", "regmode"} /\ DOMAIN t = 1 .. 2
      OBVIOUS
    <3>2. t[1] = "ratio" /\ t[2] = "regmode"
      OBVIOUS
    <3> HIDE DEF a, t
    <3> QED BY <3>1, <3>2 DEF Coming
  <2>3. a \in Syncs
    BY AskType
  <2> HIDE DEF a, t
  <2>4. Partway(cache', before', asked', todo')
    BY <1>0, <2>1, <2>2, Begun
  <2> QED BY <2>1, <2>3, <2>4 DEF DInv
<1>5. CASE SetState \/ GetState \/ Get \/ GetTacho
  BY <1>5 DEF SetState, GetState, Get, GetTacho, Begin, DInv
<1>6. CASE GetKnown
  BY <1>6 DEF GetKnown, DInv
<1>7. ASSUME NEW b \in BOOLEAN, EnableAutoset(b) \/ EnableAutoget(b) PROVE DInv'
  BY <1>7 DEF EnableAutoset, EnableAutoget, DInv
<1>8. CASE Refused /\ call = "set"
  BY <1>8 DEF Refused, Return, DInv
<1>9. CASE Refused /\ call # "set"
  <2>1. /\ Partway(cache, before, asked, todo) /\ asked \in Rotates \cup Stops \cup Syncs
        /\ call \in {"rotate", "stop", "sync"} /\ ~autoset /\ pc = "change"
    BY <1>9 DEF Refused, DInv
  <2>2. /\ UNCHANGED <<asked, call, before, autoset, cache>> /\ pc' = "change"
        /\ todo # <<>> /\ todo' = Tail(todo) /\ ~Valid(Head(todo), asked[Head(todo)])
    BY <1>9, <2>1 DEF Refused, GoOn
  <2>3. Partway(cache', before', asked', todo')
    BY <2>1, <2>2, PartwayTail
  <2> QED BY <2>1, <2>2, <2>3 DEF DInv
<1>10. CASE Change /\ call = "set"
  <2>1. PICK f \in Fields : \E v \in Values[f] : todo = <<f>> /\ asked = [g \in {f} |-> v]
    BY <1>10 DEF Change, DInv
  <2>2. PICK v \in Values[f] : todo = <<f>> /\ asked = [g \in {f} |-> v]
    BY <2>1
  <2>3. cache = before /\ autoset = saved
    BY <1>10 DEF Change, DInv
  <2>4. Head(todo) = f /\ asked[f] = v
    BY <2>2
  <2>5. Valid(f, v) /\ cache' = [before EXCEPT ![f] = v] /\ saved' = saved /\ autoset' = autoset
    BY <1>10, <2>3, <2>4 DEF Change
  <2>6. Done(cache', before, asked)
    BY <2>2, <2>5, SetterDone
  <2>7. \/ autoset /\ pc' = "send" /\ UNCHANGED <<call, asked, before>>
        \/ ~autoset /\ pc' = "idle" /\ asked' = <<>> /\ before' = cache'
    BY <1>10 DEF Change, Return, GoOn
  <2> QED BY <1>10, <2>3, <2>5, <2>6, <2>7 DEF DInv
<1>11. CASE Change /\ call # "set"
  <2>1. /\ Partway(cache, before, asked, todo) /\ asked \in Rotates \cup Stops \cup Syncs
        /\ call \in {"rotate", "stop", "sync"} /\ ~autoset /\ pc = "change"
    BY <1>11 DEF Change, DInv
  <2>2. /\ UNCHANGED <<asked, call, before, autoset>> /\ pc' = "change"
        /\ todo # <<>> /\ todo' = Tail(todo) /\ Valid(Head(todo), asked[Head(todo)])
        /\ cache' = [cache EXCEPT ![Head(todo)] = asked[Head(todo)]]
    BY <1>11, <2>1 DEF Change, GoOn
  <2>3. Partway(cache', before', asked', todo')
    BY <2>1, <2>2, PartwayTail
  <2> QED BY <2>1, <2>2, <2>3 DEF DInv
<1>12. CASE Restore
  <2>1. /\ Partway(cache, before, asked, todo) /\ asked \in Rotates \cup Stops \cup Syncs
        /\ todo = <<>>
    BY <1>12 DEF Restore, DInv
  <2>2. Done(cache, before, asked)
    BY <2>1, PartwayDone
  <2> QED BY <1>12, <2>2 DEF Restore, Return, DInv
<1>13. ASSUME NEW reached \in BOOLEAN, NEW r \in {"ok", "fail"}, Sent(reached, r)
       PROVE  DInv'
  BY <1>13 DEF Sent, Return, DInv
<1>14. CASE Seen \/ NotSeen
  BY <1>14 DEF Seen, NotSeen, Look, Answered, Return, DInv
<1>15. CASE Alone \/ UNCHANGED vars
  <2>1. UNCHANGED <<cache, before, autoset, saved, pc, call, asked, todo>>
    BY <1>15 DEF Alone, vars, callVars
  <2> QED BY <2>1 DEF DInv, Partway, Done, Put, Drive!LegalPart, Drive!Legal
<1> QED BY <1>1, <1>2, <1>3, <1>4, <1>5, <1>6, <1>7, <1>8, <1>9, <1>10, <1>11,
           <1>12, <1>13, <1>14, <1>15 DEF Next

\* A change that is done is one that NxtDrive takes.
LEMMA DoneRefines ==
  ASSUME Done(before', before, asked), asked' = <<>>, saved' = saved,
         IF saved THEN Drive!Telegram ELSE drive' = drive /\ ret' = "ok"
  PROVE  Drive!Set \/ Drive!Overlook
<1>1. Drive!Take(Drive!LegalPart(asked))
  BY DEF Done, Drive!Take, Drive!Nothing
<1>2. CASE Drive!Legal(asked) /\ asked \in Changes
  <2>1. asked = [f \in DOMAIN asked |-> asked[f]]
    BY <1>2 DEF Changes, Setters, Rotates, Stops, Syncs
  <2>2. Drive!LegalPart(asked) = asked
    BY <1>2, <2>1 DEF Drive!LegalPart, Drive!Legal
  <2> QED BY <1>1, <1>2, <2>2 DEF Done, Drive!Set, Drive!Nothing
<1>3. CASE asked \in Overlooked
  BY <1>1, <1>3 DEF Drive!Overlook
<1> QED BY <1>2, <1>3 DEF Done

\* A step of the motor functions is one of NxtDrive, or changes nothing there.
LEMMA StepRefines == MInv /\ DInv /\ [Next]_vars => [Drive!DriveNext]_(Drive!driveVars)
<1> SUFFICES ASSUME MInv, DInv, [Next]_vars
             PROVE  Drive!DriveNext \/ UNCHANGED Drive!driveVars
  OBVIOUS
<1> USE DEF Drive!DriveNext, Drive!driveVars
<1>1. ASSUME NEW c \in {"none", "set", "rotate", "stop", "sync", "state", "value"},
             NEW a \in Changes \cup {<<>>}, NEW steps, NEW next, Begin(c, a, steps, next)
      PROVE  Drive!DriveNext \/ UNCHANGED Drive!driveVars
  <2>1. /\ UNCHANGED <<before, drive, saved, ret>> /\ asked' = a /\ asked = <<>>
    BY <1>1 DEF Begin, DInv
  <2>2. CASE a \in Changes
    <3>1. Drive!Ask(a)
      BY <2>1 DEF Drive!Ask, Drive!Nothing
    <3> QED BY <2>2, <3>1
  <2>3. CASE a = <<>>
    BY <2>1, <2>3
  <2> QED BY <2>2, <2>3
<1>2. CASE \/ \E f \in DOMAIN Values : \E v \in Values[f] : Setter(f, v)
           \/ \E r \in Rotation, p \in Power : Rotate(r, p)
           \/ \E b \in BOOLEAN : Stop(b)
           \/ \E t \in Ratio : Sync(t)
           \/ SetState \/ GetState \/ Get \/ GetTacho
  <2>1. PICK c \in {"none", "set", "rotate", "stop", "sync", "state", "value"},
             a \in Changes \cup {<<>>} :
          \E steps : \E next : Begin(c, a, steps, next)
    <3>1. ASSUME NEW f \in DOMAIN Values, NEW v \in Values[f], Setter(f, v)
          PROVE  \E a \in Changes : \E steps : Begin("set", a, steps, "change")
      <4>1. [g \in {f} |-> v] \in Changes
        BY AskType
      <4> QED BY <3>1, <4>1 DEF Setter
    <3>2. ASSUME NEW r \in Rotation, NEW p \in Power, Rotate(r, p)
          PROVE  \E a \in Changes : \E steps : Begin("rotate", a, steps, "change")
      <4>1. [power |-> p, limit |-> r, runstate |-> "running", on |-> TRUE] \in Changes
        BY AskType DEF Changes
      <4> QED BY <3>2, <4>1, Zenon DEF Rotate, Convenience
    <3>3. ASSUME NEW b \in BOOLEAN, Stop(b)
          PROVE  \E a \in Changes : \E steps : Begin("stop", a, steps, "change")
      <4>1. [power |-> 0, brake |-> b, runstate |-> "idle", on |-> FALSE] \in Changes
        BY AskType DEF Changes
      <4> QED BY <3>3, <4>1, Zenon DEF Stop, Convenience
    <3>4. ASSUME NEW t \in Ratio, Sync(t)
          PROVE  \E a \in Changes : \E steps : Begin("sync", a, steps, "change")
      <4>1. [ratio |-> t, regmode |-> SYNC] \in Changes
        BY AskType DEF Changes
      <4> QED BY <3>4, <4>1, Zenon DEF Sync, Convenience
    <3>5. SetState \/ GetState \/ Get \/ GetTacho =>
            \E c \in {"set", "state", "value"} : \E next : Begin(c, <<>>, <<>>, next)
      BY Zenon DEF SetState, GetState, Get, GetTacho
    <3> QED BY <1>2, <3>1, <3>2, <3>3, <3>4, <3>5, Zenon
  <2> QED BY <1>1, <2>1, Zenon
<1>3. CASE GetKnown
  BY <1>3 DEF GetKnown, DInv, Drive!Look, Drive!Nothing
<1>4. ASSUME NEW b \in BOOLEAN, EnableAutoset(b) \/ EnableAutoget(b) PROVE Drive!DriveNext
  BY <1>4 DEF EnableAutoset, EnableAutoget, DInv, Drive!Switch, Drive!Nothing, MInv, TypeOK
<1>5. CASE Refused
  <2>1. CASE call = "set"
    <3>1. PICK f \in Fields : \E v \in Values[f] : todo = <<f>> /\ asked = [g \in {f} |-> v]
      BY <1>5, <2>1 DEF Refused, DInv
    <3>2. PICK v \in Values[f] : todo = <<f>> /\ asked = [g \in {f} |-> v]
      BY <3>1
    <3>3. Head(todo) = f /\ asked[f] = v /\ DOMAIN asked = {f} /\ asked # <<>>
      BY <3>2
    <3>4. /\ ~Valid(f, v) /\ asked' = <<>> /\ ret' = "fail" /\ drive' = drive
          /\ saved' = saved /\ before' = before
      BY <1>5, <2>1, <3>3 DEF Refused, Return, DInv
    <3>5. ~Drive!Legal(asked)
      BY <3>3, <3>4 DEF Drive!Legal, Accepts
    <3>6. Drive!Refuse
      BY <3>3, <3>4, <3>5 DEF Drive!Refuse, Drive!Nothing
    <3> QED BY <3>6
  <2>2. CASE call # "set"
    BY <1>5, <2>2 DEF Refused, GoOn
  <2> QED BY <2>1, <2>2
<1>6. CASE Change
  <2>1. CASE call = "set" /\ ~autoset
    <3>1. PICK f \in Fields : \E v \in Values[f] : todo = <<f>> /\ asked = [g \in {f} |-> v]
      BY <1>6, <2>1 DEF Change, DInv
    <3>2. PICK v \in Values[f] : todo = <<f>> /\ asked = [g \in {f} |-> v]
      BY <3>1
    <3>3. Head(todo) = f /\ asked[f] = v /\ cache = before /\ autoset = saved
      BY <1>6, <2>1, <3>2 DEF Change, DInv
    <3>4. /\ Valid(f, v) /\ before' = [before EXCEPT ![f] = v] /\ ret' = "ok"
          /\ drive' = drive /\ saved' = saved /\ ~saved /\ asked' = <<>>
      BY <1>6, <2>1, <3>3 DEF Change, Return
    <3>5. Done(before', before, asked)
      BY <3>2, <3>4, SetterDone
    <3> QED BY <3>4, <3>5, DoneRefines
  <2>2. CASE ~(call = "set" /\ ~autoset)
    BY <1>6, <2>2 DEF Change, GoOn
  <2> QED BY <2>1, <2>2
<1>7. CASE Restore
  <2>1. CASE saved
    BY <1>7, <2>1 DEF Restore
  <2>2. CASE ~saved
    <3>1. /\ Partway(cache, before, asked, todo) /\ asked \in Rotates \cup Stops \cup Syncs
          /\ todo = <<>>
      BY <1>7 DEF Restore, DInv
    <3>2. Done(cache, before, asked)
      BY <3>1, PartwayDone
    <3>3. /\ before' = cache /\ asked' = <<>> /\ saved' = saved /\ drive' = drive
          /\ ret' = "ok"
      BY <1>7, <2>2 DEF Restore, Return
    <3> QED BY <2>2, <3>2, <3>3, DoneRefines
  <2> QED BY <2>1, <2>2
<1>8. ASSUME NEW reached \in BOOLEAN, NEW r \in {"ok", "fail"}, Sent(reached, r)
      PROVE  Drive!DriveNext
  <2>1. /\ before' = cache /\ ret' = r /\ saved' = saved /\ asked' = <<>>
        /\ drive' = IF reached THEN Telegram(cache) ELSE drive
        /\ r = "ok" => reached
    BY <1>8 DEF Sent, Return, DInv
  <2>2. Drive!Telegram
    BY <2>1 DEF Drive!Telegram
  <2>3. \/ cache = before /\ asked = <<>>
        \/ saved /\ Done(cache, before, asked)
    BY <1>8 DEF Sent, DInv
  <2>4. CASE cache = before /\ asked = <<>>
    BY <2>1, <2>2, <2>4 DEF Drive!Send, Drive!Nothing
  <2>5. CASE saved /\ Done(cache, before, asked)
    BY <2>1, <2>2, <2>5, DoneRefines
  <2> QED BY <2>3, <2>4, <2>5
<1>9. CASE Seen \/ NotSeen
  BY <1>9 DEF Seen, NotSeen, Look, Answered, Return, DInv, Drive!Look, Drive!Nothing
<1>10. CASE Alone
  BY <1>10 DEF Alone, callVars, Drive!Turn
<1>11. CASE UNCHANGED vars
  BY <1>11 DEF vars, callVars
<1> QED BY <1>2, <1>3, <1>4, <1>5, <1>6, <1>7, <1>8, <1>9, <1>10, <1>11 DEF Next

\* IsDrive: whatever fails, a call of motor.c changes all the settings it asks
\* for at once, on the brick with one telegram, and succeeds only when the brick
\* has them all; but a rotation or a ratio that a convenience function has had
\* refused is overlooked, as NxtDrive says.
THEOREM MotorRefinement == Spec => IsDrive
<1>1. Init => Drive!DriveInit
  BY DEF Init, Drive!DriveInit, Drive!Nothing, Starts
<1> QED BY <1>1, AlwaysMInv, InitDInv, NextDInv, StepRefines, PTL
        DEF Spec, IsDrive, Drive!DriveSpec
=============================================================================
