----------------------------- MODULE NxtSensors -----------------------------
(***************************************************************************)
(* The functions of libanxt for sensors on the I2C bus: a function is a     *)
(* sequence of transfers with registers of the sensor.  How a transfer is   *)
(* done is NxtI2C.                                                         *)
(***************************************************************************)
EXTENDS Integers, Sequences

\* The transfers.  One that is not needed may fail without an effect on the
\* function; a function refuses some arguments before it sends anything.
Transfer(reg, data, kind, n) ==
  [reg |-> reg, data |-> data, kind |-> kind, n |-> n, needed |-> TRUE]
Read(reg, n) == Transfer(reg, <<>>, "read", n)
Write(reg, data) == Transfer(reg, data, "write", Len(data))
CmdRegister == 65
Cmd(c) == Transfer(CmdRegister, <<c>>, "cmd", 1)
Refuse == Transfer(0, <<>>, "refuse", 0)
Unneeded(t) == [t EXCEPT !.needed = FALSE]

Call(f, addr, steps) == [addr |-> addr, steps |-> steps, name |-> f]
None == Call("none", 0, <<>>)
Default == 2          \* nxt_us_i2c_addr and most others
HidAddress == 4

-----------------------------------------------------------------------------
\* Names that a sensor tells.
Names == [get_version |-> 0, get_vendorid |-> 8, get_deviceid |-> 16]
NameCalls(addresses) ==
  {Call(f, a, <<Read(Names[f], 8)>>) : f \in DOMAIN Names, a \in addresses}

\* nxt_i2c_set_i2caddr
ChangeAddress(a, new) ==
  Call("set_i2caddr", a, <<Cmd(160), Cmd(170), Cmd(165), Cmd(new)>>)

\* Ultrasonic sensor
UsByte ==
  [us_get_meas_interval |-> 64, us_get_actual_zero |-> 80,
   us_get_actual_scale_factor |-> 81, us_get_actual_scale_divisor |-> 82,
   us_get_factory_zero |-> 17, us_get_factory_scale_factor |-> 18,
   us_get_factory_scale_divisor |-> 19]
\* That of the divisor has the register of the interval.
UsSetting ==
  [us_set_meas_interval |-> 64, us_set_actual_zero |-> 80,
   us_set_actual_scale_factor |-> 81, us_set_actual_scale_divisor |-> 64]
UsMeasData(m1, nm) ==
  Call("us_get_meas_data", Default, <<IF m1 + nm > 8 THEN Refuse ELSE Read(66 + m1, nm)>>)
UsCommands == 0 .. 4
UsCalls(bytes, commands) ==
  {Call("us_cmd", Default, <<Cmd(c)>>) : c \in commands}
    \cup {Call(f, Default, <<Read(UsByte[f], 1)>>) : f \in DOMAIN UsByte}
    \cup {Call(f, Default, <<Write(UsSetting[f], <<b>>)>>) :
            f \in DOMAIN UsSetting, b \in bytes}
    \cup {UsMeasData(0, 8), UsMeasData(7, 2), Call("us_get_dist", Default, <<Read(66, 1)>>),
          Call("us_get_meas_units", Default, <<Read(20, 7)>>)}

\* Acceleration sensor.  Sensities are ten times those of the code; that of
\* a sensor is sent as a command from 0 to 3 and read as a digit from 1 to 4.
Sensities == <<25, 33, 67, 100>>
SetSensity(s) ==
  Call("accel_set_sensity", Default,
       IF \E i \in 1 .. 4 : Sensities[i] = s
       THEN <<Cmd((CHOOSE i \in 1 .. 4 : Sensities[i] = s) - 1)>> ELSE <<Refuse>>)
AccelCalls ==
  {Call("accel_get_sensity", Default, <<Unneeded(Read(25, 1))>>),
   SetSensity(67), SetSensity(1),
   Call("accel_get_tilt", Default, <<Read(66, 3)>>),
   Call("accel_get_accel", Default, <<Read(69, 6)>>)}

\* Playstation controller.  Both joysticks are read whichever was asked for.
PspCommands == {115, 65, 68, 69}
PspCalls(commands) ==
  {Call("psp_cmd", Default, <<Cmd(c)>>) : c \in commands} \cup
  {Call("psp_get_mode", Default, <<Read(65, 1)>>),
   Call("psp_get_buttons", Default, <<Read(66, 2)>>),
   Call("psp_get_joystick", Default, <<Read(68, 4)>>)}

\* Line sensor
LineByte == [line_get_steering |-> 66, line_get_average |-> 67,
             line_get_result |-> 68, line_get_setpoint |-> 69]
LineTriple == [line_get_pid |-> 70, line_get_divisor |-> 97]
LineCommands == {87, 66, 68, 80, 73, 82, 83, 65, 69, 85}
LineCalls(commands) ==
  {Call("line_cmd", Default, <<Cmd(c)>>) : c \in commands}
    \cup {Call(f, Default, <<Read(LineByte[f], 1)>>) : f \in DOMAIN LineByte}
    \cup {Call(f, Default, <<Read(LineTriple[f], 3)>>) : f \in DOMAIN LineTriple}
    \cup {Call("line_get_reading", Default, <<Read(73, 8)>>)}

\* Camera.  A colormap has 48 bytes; 8, the size of a pointer, are read, also
\* by the function that is to write it.
CamObjects(obj1, nobj) ==
  Call("cam_get_objects", Default,
       <<IF obj1 >= 8 THEN Refuse
         ELSE Read(67 + 5 * obj1, 5 * (IF obj1 + nobj > 8 THEN 8 - obj1 ELSE nobj))>>)
CamCommands == {68, 69, 66, 76, 82, 85, 88}
ColormapRead == Read(128, 8)
CamCalls(commands) ==
  {Call("cam_cmd", Default, <<Cmd(c)>>) : c \in commands} \cup
  {Call("cam_num_objects", Default, <<Read(66, 1)>>),
   CamObjects(0, 3), CamObjects(2, 8), CamObjects(8, 1), CamObjects(0, 0),
   Call("cam_get_colormap", Default, <<Unneeded(Cmd(71)), ColormapRead>>),
   Call("cam_set_colormap", Default, <<ColormapRead, Unneeded(Cmd(83))>>)}

\* Keyboard: a string is sent key by key and no failure is looked at.
HidKey(k) == Write(67, <<k>>)
HidTransmit == Cmd(84)
HidAscii == Cmd(65)
HidSend(keys) ==
  LET Key[i \in 0 .. Len(keys)] ==
        IF i = 0 THEN <<Unneeded(HidAscii)>>
        ELSE Key[i - 1] \o <<Unneeded(HidKey(keys[i])), Unneeded(HidTransmit)>>
  IN Call("hid_send_str", HidAddress, Key[Len(keys)])
HidCalls(bytes) ==
  {Call("hid_set_modifier", HidAddress, <<Write(66, <<b>>)>>) : b \in bytes}
    \cup {Call("hid_set_key", HidAddress, <<HidKey(b)>>) : b \in bytes}
    \cup {Call("hid_transmit", HidAddress, <<HidTransmit>>),
          Call("hid_set_mode", HidAddress, <<HidAscii>>), HidSend(<<97, 98>>)}

=============================================================================
