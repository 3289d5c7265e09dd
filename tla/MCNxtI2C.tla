------------------------------ MODULE MCNxtI2C ------------------------------
EXTENDS NxtI2CProperties

\* Calls of every kind: of one piece and more, of several transfers, refused,
\* and without anything to do; what is written differs from place to place.
\* Functions that differ in the register only have one representative.
Chosen == {"get_deviceid", "set_i2caddr", "us_set_meas_interval",
           "us_get_meas_interval", "us_set_actual_scale_divisor", "us_get_meas_data",
           "accel_get_sensity", "accel_set_sensity", "accel_get_accel", "psp_get_buttons",
           "line_get_reading", "cam_num_objects", "cam_get_objects", "cam_set_colormap",
           "hid_send_str"}
MCCalls ==
  {c \in NameCalls({3}) \cup {ChangeAddress(2, 3)}
      \cup UsCalls({7}, UsCommands) \cup AccelCalls \cup PspCalls(PspCommands)
      \cup LineCalls(LineCommands) \cup CamCalls(CamCommands) \cup HidCalls({7}) :
    c.name \in Chosen}
  \cup {Call("i2c_write", Default, <<Write(128, [i \in 1 .. 16 |-> i])>>)}
MCLive == (65 .. 69) \cup {92}
MCKept == {64, 82} \cup {128, 142}
=============================================================================
