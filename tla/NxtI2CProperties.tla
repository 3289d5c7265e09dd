-------------------------- MODULE NxtI2CProperties --------------------------
(***************************************************************************)
(* What must be true of transfers with I2C sensors.                        *)
(***************************************************************************)
EXTENDS NxtI2C

Registers == 0 .. 255
Requests == [addr : 0 .. 255, reg : Registers, data : Seq(0 .. 255), rx : 0 .. 16]

\* The variables have their types, and no piece of a transfer is longer than
\* the sixteen bytes that go through the brick.
TypeOK ==
  /\ pc \in {"idle", "write", "poll", "fetch"}
  /\ pc \in {"poll", "fetch"} => todo # <<>> /\ Step.kind = "read"
  /\ done \in Nat /\ (todo # <<>> => done = 0 \/ done < Step.n)
  /\ {ok, clean, broken} \subseteq BOOLEAN /\ lock \in 0 .. 3
  /\ Sending => Fits(Request)
  /\ req \in Requests /\ (req.rx = 0 \/ req.data = <<>>)
  /\ at \in 0 .. 255 /\ regs \in [Live \cup Kept -> 0 .. 255]
  /\ Len(inbuf) <= 16

\* What a function asks for: registers from 0 to 255, at most one read, which
\* must not fail or is that of accel_get_sensity, and no data in the register of
\* commands.  (A sensor whose address is the first byte of the sequence that
\* changes it, and that has already got the sequence, takes that byte for its
\* new address, and keeps it.)
Setters == [us_set_meas_interval |-> UsByte.us_get_meas_interval,
            us_set_actual_zero |-> UsByte.us_get_actual_zero,
            us_set_actual_scale_factor |-> UsByte.us_get_actual_scale_factor]
Transfers == [reg : Registers, data : Seq(0 .. 255), n : Nat, needed : BOOLEAN,
              kind : {"read", "write", "cmd", "refuse"}]
Sound(t) ==
  /\ t.reg + t.n <= 256
  /\ t.kind = "read" => t.data = <<>>
  /\ t.kind \in {"write", "cmd"} => t.n = Len(t.data)
  /\ t.kind = "write" => CmdRegister \notin t.reg .. (t.reg + t.n - 1)
  /\ t.kind = "cmd" => t.reg = CmdRegister /\ t.n = 1
  /\ t.kind = "refuse" => t.n = 0
Proper(c) ==
  /\ c.addr \in 0 .. 255 /\ c.steps \in Seq(Transfers)
  /\ \A i \in DOMAIN c.steps : Sound(c.steps[i])
  /\ \A i, j \in DOMAIN c.steps : {c.steps[i].kind, c.steps[j].kind} = {"read"} => i = j
  /\ \A i \in DOMAIN c.steps :
       c.steps[i].kind = "read" => c.steps[i].needed \/ c.name = "accel_get_sensity"
  /\ c.name = "set_i2caddr" =>
       \E new \in 0 .. 255 : c.steps = ChangeAddress(c.addr, new).steps /\ c.addr # 160
  /\ c.name \in DOMAIN Setters =>
       /\ Setters[c.name] \in Kept
       /\ \E b \in 0 .. 255 : c.steps = <<Write(Setters[c.name], <<b>>)>>
ASSUME CallsAssumption == \A c \in Calls : Proper(c)

Finished == pc = "write" /\ todo = <<>> /\ call # None
Steps(k) == {i \in DOMAIN call.steps : call.steps[i].kind = k}

\* A function that has read registers, piece by piece, has for each of them a
\* byte that was in that register during the call, unless a request of the
\* call was refused or lost or a wait given up, which nxt_i2c_read_low does not
\* tell.  Only then are late bytes of an earlier call taken for its own.
OwnBytes ==
  Finished /\ ok /\ clean /\ ~broken =>
    \A i \in Steps("read") :
      /\ Len(buf) = call.steps[i].n
      /\ \A j \in 1 .. Len(buf) :
           LET r == call.steps[i].reg + j - 1
           IN r \in DOMAIN regs => \E s \in seen : buf[j] = s[r]

\* A function that has written registers, was told so and looks at the result
\* (nxt_hid_send_str does not) has written all of them, once the bus is free
\* again and if no request has failed there; a sensor has the address that was
\* set; and what a setter of the ultrasonic sensor has set is what the getter of
\* that name reads, except for the divisor.
Written ==
  Finished /\ ok /\ ~broken /\ req = NoRequest =>
    /\ \A i \in Steps("write") : \A j \in 1 .. call.steps[i].n :
         LET r == call.steps[i].reg + j - 1
         IN r \in Kept /\ call.steps[i].needed /\ (\A k \in Steps("write") : k <= i)
              => regs[r] = call.steps[i].data[j]
    /\ call.name = "set_i2caddr" => at = call.steps[4].data[1]
    /\ call.name \in DOMAIN Setters =>
         regs[Setters[call.name]] = call.steps[1].data[1]

\* Every function returns, also when the sensor does not answer.
FairSpec == Spec /\ WF_vars(Program)
CallEnds == pc # "idle" ~> pc = "idle"
=============================================================================
