------------------------------- MODULE NxtI2C -------------------------------
(***************************************************************************)
(* Transfers with an I2C sensor on one port of a brick (libanxt/ls.c and    *)
(* i2c.c).  The brick works as a postbox: a request is written to it and    *)
(* goes over the bus later, the status tells how many bytes have come, and  *)
(* they are fetched with a third command.  A read waits two seconds for its *)
(* bytes and then fetches what is there.  Long transfers are cut in pieces. *)
(* NxtSensors has the functions that programs call.                        *)
(***************************************************************************)
EXTENDS NxtSensors

CONSTANTS Calls,      \* the calls that programs make
          Addresses,  \* that the sensor may have
          Live, Kept, \* registers the sensor changes itself, and others
          Level       \* what it measures: the bytes in the registers Live

ASSUME I2CAssumption ==
  /\ Addresses \subseteq 0 .. 255 /\ Live \subseteq 0 .. 255 /\ Kept \subseteq 0 .. 255
  /\ Live \cap Kept = {} /\ Level \subseteq 0 .. 255 /\ Level # {}

VARIABLES
  call, todo,     \* the function under way and the transfers it has to do
  pc,             \* idle, write, poll or fetch
  done, buf,      \* registers of the first of them that are done, bytes read
  ok,             \* no needed transfer has failed
  req, inbuf,     \* the brick: request on the bus, bytes that have come
  at, regs, lock, \* the sensor: its address, registers, and how much of the
                  \*   sequence that changes the address it has got
  clean, broken,  \* for the properties: during the call every request was
                  \*   taken and no wait given up; a request has failed on the bus
  seen            \* for the properties: contents of the registers since the call

callVars == <<call, todo, pc, done, buf, ok>>
busVars == <<req, inbuf, at, regs, lock>>
vars == <<callVars, busVars, clean, broken, seen>>

\* nxt_i2c_read_low and nxt_i2c_write_low
PieceRead == 15
\* Faulty: address and register are forgotten.
PieceWriteLong == 16
PieceWrite == 14
Least(a, b) == IF a < b THEN a ELSE b

NoRequest == [addr |-> 0, reg |-> 0, data |-> <<>>, rx |-> 0]
Contents(r) == IF r \in DOMAIN regs THEN regs[r] ELSE 0
Pad(bytes, n) == [i \in 1 .. n |-> IF i <= Len(bytes) THEN bytes[i] ELSE 0]

\* What is measured differs from register to register.
Measured(v, r) == (v + r) % 256

Init ==
  /\ call = None /\ todo = <<>> /\ pc = "idle" /\ done = 0 /\ buf = <<>>
  /\ ok = TRUE
  /\ req = NoRequest /\ inbuf = <<>> /\ lock = 0
  /\ at \in Addresses
  /\ \E v \in Level : regs = [r \in Live \cup Kept |-> IF r \in Live THEN Measured(v, r) ELSE 0]
  /\ clean = TRUE /\ broken = FALSE /\ seen = {}

-----------------------------------------------------------------------------
Step == Head(todo)

Begin(c) ==
  /\ pc = "idle" /\ pc' = "write"
  /\ call' = c /\ todo' = c.steps /\ done' = 0 /\ buf' = <<>> /\ ok' = TRUE
  /\ clean' = TRUE /\ broken' = FALSE /\ seen' = {regs}
  /\ UNCHANGED busVars

\* The end of a function, which returns ok and what it makes of buf.
Return ==
  /\ pc = "write" /\ todo = <<>>
  /\ pc' = "idle" /\ call' = None /\ done' = 0 /\ buf' = <<>> /\ ok' = TRUE
  /\ clean' = TRUE /\ broken' = FALSE /\ seen' = {}
  /\ UNCHANGED <<todo, busVars>>

\* A transfer that has failed ends the function, or the next one is tried.
Abort == /\ pc' = "write" /\ done' = 0
         /\ todo' = (IF Step.needed THEN <<>> ELSE Tail(todo))
         /\ ok' = (ok /\ ~Step.needed /\ call.name # "accel_get_sensity")
         /\ UNCHANGED buf
\* n registers are done, and with them perhaps the transfer.
Advance(n, bytes) ==
  /\ pc' = "write"
  /\ IF done + n < Step.n THEN done' = done + n /\ UNCHANGED todo
     ELSE done' = 0 /\ todo' = Tail(todo)
  /\ buf' = buf \o bytes
  /\ UNCHANGED ok

\* Nothing is sent for a call with wrong arguments, or one that asks for no
\* registers.
Refused ==
  /\ pc = "write" /\ todo # <<>> /\ Step.kind = "refuse"
  /\ Abort /\ UNCHANGED <<call, busVars, clean, broken, seen>>
NothingToDo ==
  /\ pc = "write" /\ todo # <<>> /\ Step.kind # "refuse" /\ Step.n = 0
  /\ Advance(0, <<>>) /\ UNCHANGED <<call, busVars, clean, broken, seen>>

\* The request for the next piece.
Size == IF Step.kind = "read" THEN Least(Step.n - done, PieceRead)
        ELSE Least(Step.n - done, PieceWrite)
\* Faulty: the register is not moved on.
PlaceFirst == Step.reg
Place == Step.reg + done
Request ==
  [addr |-> call.addr, reg |-> Place,
   data |-> IF Step.kind = "read" THEN <<>> ELSE SubSeq(Step.data, done + 1, done + Size),
   rx |-> IF Step.kind = "read" THEN Size ELSE 0]

\* Faulty: a write does not look at the result either.
PieceWrittenAnyway(reply) == Advance(Size, <<>>)
PieceWritten(reply) == IF reply THEN Advance(Size, <<>>) ELSE Abort

\* nxt_ls_write refuses more than 16 bytes either way; address and register
\* come before the data.  The brick takes a request when the bus is free, and
\* forgets the bytes of an earlier one; its reply may get lost.  A read does
\* not look at the result.
Fits(r) == Len(r.data) + 2 <= 16 /\ r.rx <= 16
Sending == pc = "write" /\ todo # <<>> /\ Step.kind # "refuse" /\ Step.n > 0
LsWrite(taken, reply) ==
  /\ Sending
  /\ taken => Fits(Request) /\ req = NoRequest
  /\ reply => taken
  /\ IF taken THEN req' = Request /\ inbuf' = <<>> ELSE UNCHANGED <<req, inbuf>>
  /\ clean' = (clean /\ reply)
  /\ IF Step.kind = "read" THEN pc' = "poll" /\ UNCHANGED <<todo, done, buf, ok>>
     ELSE PieceWritten(reply)
  /\ UNCHANGED <<call, at, regs, lock, broken, seen>>

\* The wait ends when the status tells enough bytes, or after two seconds.
Ready ==
  /\ pc = "poll" /\ pc' = "fetch"
  /\ req = NoRequest /\ Len(inbuf) >= Size
  /\ UNCHANGED <<call, todo, done, buf, ok, busVars, clean, broken, seen>>
\* Faulty: the wait has no end.
GiveUpNever == FALSE /\ UNCHANGED vars
GiveUp ==
  /\ pc = "poll" /\ pc' = "fetch"
  /\ clean' = FALSE
  /\ UNCHANGED <<call, todo, done, buf, ok, busVars, broken, seen>>

\* nxt_ls_read copies as many bytes as were asked for, whatever has come, and
\* its size is not looked at.  With nothing there the brick may report an
\* error or no bytes; while a request is on the bus it reports an error.
LsRead ==
  /\ pc = "fetch" /\ req = NoRequest
  /\ inbuf' = <<>>
  /\ Advance(Size, Pad(inbuf, Size))
  /\ UNCHANGED <<call, req, at, regs, lock, clean, broken, seen>>
LsReadFails ==
  /\ pc = "fetch"
  /\ inbuf' \in {inbuf, IF req = NoRequest THEN <<>> ELSE inbuf}
  /\ Abort
  /\ UNCHANGED <<call, req, at, regs, lock, clean, broken, seen>>

-----------------------------------------------------------------------------
\* The bus carries out a request of an existing address, or fails.  A command
\* is a byte in a register of its own.
Sequence == <<160, 170, 165>>
CarryOut ==
  /\ req # NoRequest /\ req.addr = at /\ req' = NoRequest
  /\ inbuf' = [i \in 1 .. req.rx |-> Contents(req.reg + i - 1)]
  /\ IF req.reg = CmdRegister /\ req.data # <<>>
     THEN /\ UNCHANGED regs
          /\ IF lock = 3 THEN at' = req.data[1] /\ lock' = 0
             ELSE /\ lock' = (IF req.data[1] = Sequence[lock + 1] THEN lock + 1
                           ELSE IF req.data[1] = Sequence[1] THEN 1 ELSE 0)
                  /\ UNCHANGED at
     ELSE /\ regs' = [r \in DOMAIN regs |->
                        IF r - req.reg + 1 \in 1 .. Len(req.data)
                        THEN req.data[r - req.reg + 1] ELSE regs[r]]
          /\ lock' = (IF req.rx > 0 THEN lock ELSE 0) /\ UNCHANGED at
  /\ seen' = (IF pc = "idle" THEN {} ELSE seen \cup {regs'})
  /\ UNCHANGED <<callVars, clean, broken>>
BusFails ==
  /\ req # NoRequest /\ req' = NoRequest /\ inbuf' = <<>>
  /\ broken' = (pc # "idle")
  /\ UNCHANGED <<callVars, at, regs, lock, clean, seen>>

Measure(v) ==
  /\ regs' = [r \in DOMAIN regs |-> IF r \in Live THEN Measured(v, r) ELSE regs[r]]
  /\ regs' # regs
  /\ seen' = (IF pc = "idle" THEN {} ELSE seen \cup {regs'})
  /\ UNCHANGED <<callVars, req, inbuf, at, lock, clean, broken>>

Program == \/ Return \/ Refused \/ NothingToDo
           \/ \E taken, reply \in BOOLEAN : LsWrite(taken, reply)
           \/ Ready \/ GiveUp \/ LsRead \/ LsReadFails

Next == \/ \E c \in Calls : Begin(c)
        \/ Program
        \/ CarryOut \/ BusFails
        \/ \E v \in Level : Measure(v)

Spec == Init /\ [][Next]_vars
=============================================================================
