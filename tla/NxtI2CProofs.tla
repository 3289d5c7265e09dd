---------------------------- MODULE NxtI2CProofs ----------------------------
(***************************************************************************)
(* Proofs about transfers with an I2C sensor, for all functions that ask    *)
(* for registers as CallsAssumption says, all addresses and registers: the  *)
(* bytes that a function returns were in its registers during the call, and *)
(* what a function was told to have written is in the sensor.              *)
(***************************************************************************)
EXTENDS NxtI2CProperties, SequenceTheorems, TLAPS

-----------------------------------------------------------------------------
(* Types, and how far the function has got.                                *)

\* Transfers of the function that are over
Over == Len(call.steps) - Len(todo)

PlaceTypes ==
  /\ pc \in {"idle", "write", "poll", "fetch"}
  /\ pc = "idle" => todo = <<>>
  /\ pc \in {"poll", "fetch"} => todo # <<>> /\ Step.kind = "read" /\ done < Step.n
  /\ clean \in BOOLEAN /\ broken \in BOOLEAN /\ buf \in Seq(0 .. 255)
CallTypes ==
  /\ pc # "idle" =>
       /\ call \in Calls /\ todo \in Seq(Transfers) /\ Len(todo) <= Len(call.steps)
       /\ \A k \in 1 .. Len(todo) : todo[k] = call.steps[Over + k]
  /\ done \in Nat /\ (todo # <<>> => done = 0 \/ done < Step.n)
  /\ ok \in BOOLEAN
BusTypes ==
  /\ lock \in 0 .. 3 /\ req \in Requests /\ (req.rx = 0 \/ req.data = <<>>)
  /\ at \in 0 .. 255 /\ regs \in [Live \cup Kept -> 0 .. 255]
  /\ inbuf \in Seq(0 .. 255) /\ Len(inbuf) <= 16
Types == PlaceTypes /\ CallTypes /\ BusTypes

-----------------------------------------------------------------------------
(* Reads.                                                                  *)

\* Registers of a transfer that are done
Part(i) == IF i <= Over THEN call.steps[i].n ELSE IF i = Over + 1 THEN done ELSE 0

\* Bytes that were in these registers during the call
Own(bytes, reg) ==
  \A j \in 1 .. Len(bytes) :
    reg + j - 1 \in DOMAIN regs => \E s \in seen : bytes[j] = s[reg + j - 1]
Arrived == req = NoRequest /\ Len(inbuf) = Size /\ Own(inbuf, Place)

\* Unless something went wrong the request that a read waits for is on the
\* bus, or its bytes have come.
Reading ==
  /\ pc # "idle" => regs \in seen
  /\ pc # "idle" /\ ok /\ clean /\ ~broken =>
       /\ \A i \in Steps("read") : Len(buf) = Part(i) /\ Own(buf, call.steps[i].reg)
       /\ pc = "poll" => req = Request \/ Arrived
       /\ pc = "fetch" => Arrived

-----------------------------------------------------------------------------
(* Writes.                                                                 *)

\* The last write of a function, if the function looks at its result
Looked(i) == /\ i \in Steps("write") /\ call.steps[i].needed
             /\ \A k \in Steps("write") : k <= i

\* A request that changes no register, or puts data of transfer i where they
\* belong
Harmless == req.data = <<>> \/ req.reg = CmdRegister
Puts(i) == LET t == call.steps[i] IN
           /\ req.reg >= t.reg
           /\ \A k \in 1 .. Len(req.data) :
                LET j == req.reg - t.reg + k
                IN j <= t.n /\ req.data[k] = t.data[j]
OnBus(r) == ~Harmless /\ r - req.reg + 1 \in 1 .. Len(req.data)
Writing ==
  pc # "idle" /\ ok /\ ~broken =>
    \A i \in DOMAIN call.steps : Looked(i) /\ Part(i) > 0 =>
      /\ Harmless \/ Puts(i)
      /\ \A j \in 1 .. Part(i) :
           LET r == call.steps[i].reg + j - 1
           IN r \in Kept => regs[r] = call.steps[i].data[j] \/ OnBus(r)

\* The commands that change the address, one after the other
Carried == IF req = NoRequest THEN Over ELSE Over - 1
Addressing ==
  pc # "idle" /\ ok /\ ~broken /\ call.name = "set_i2caddr" /\ Over > 0 =>
    /\ req = NoRequest \/ (req.addr = call.addr /\ req.reg = CmdRegister
                           /\ req.data = call.steps[Over].data)
    /\ Carried = 1 => lock = 1 \/ at # call.addr
    /\ Carried \in {2, 3} => lock = Carried
    /\ Carried = 4 => at = call.steps[4].data[1]

TInv == Types /\ Reading /\ Writing /\ Addressing
-----------------------------------------------------------------------------
(* The transfer under way.                                                 *)

\* A transfer is under way.
Doing == pc # "idle" /\ todo # <<>>

\* A function has a shape that is proper.
LEMMA CallShape ==
  ASSUME Types, pc # "idle"
  PROVE  /\ Proper(call) /\ call.steps \in Seq(Transfers) /\ call.addr \in 0 .. 255
         /\ Over \in Nat /\ Len(call.steps) \in Nat /\ Over <= Len(call.steps)
         /\ DOMAIN call.steps = 1 .. Len(call.steps)
<1>1. Proper(call)
  BY CallsAssumption DEF Types, PlaceTypes, CallTypes, BusTypes
<1>2. call.steps \in Seq(Transfers) /\ call.addr \in 0 .. 255
  BY <1>1 DEF Proper
<1>3. Len(call.steps) \in Nat /\ Len(todo) \in Nat
  BY <1>2 DEF Types, PlaceTypes, CallTypes, BusTypes
<1> QED BY <1>1, <1>2, <1>3 DEF Types, PlaceTypes, CallTypes, BusTypes, Over

LEMMA StepShape ==
  ASSUME Types, Doing
  PROVE  /\ Over + 1 \in DOMAIN call.steps /\ Step = call.steps[Over + 1]
         /\ Step \in Transfers /\ Sound(Step)
<1>1. Len(todo) \in Nat \ {0} /\ Head(todo) = todo[1]
  BY DEF Types, PlaceTypes, CallTypes, BusTypes, Doing
<1>2. Over + 1 \in 1 .. Len(call.steps)
  BY <1>1, CallShape DEF Over, Doing
<1>3. todo[1] = call.steps[Over + 1]
  BY <1>1 DEF Types, PlaceTypes, CallTypes, BusTypes, Doing
<1>4. call.steps[Over + 1] \in Transfers /\ Sound(call.steps[Over + 1])
  <2>1. Over + 1 \in DOMAIN call.steps /\ call.steps \in Seq(Transfers)
    BY <1>2, CallShape DEF Doing
  <2>2. \A i \in DOMAIN call.steps : Sound(call.steps[i])
    BY CallShape DEF Proper, Doing
  <2> QED BY <2>1, <2>2
<1> QED BY <1>1, <1>2, <1>3, <1>4, CallShape DEF Step, Doing

\* A piece is within its transfer, and not too long.
LEMMA SizeFits ==
  ASSUME Types, Doing, Step.n > 0
  PROVE  /\ Size \in Nat \ {0} /\ done + Size <= Step.n /\ done < Step.n
         /\ Size <= IF Step.kind = "read" THEN 15 ELSE 14
<1>1. Step.n \in Nat /\ done \in Nat /\ done < Step.n
  BY StepShape DEF Types, PlaceTypes, CallTypes, BusTypes, Transfers, Doing
<1> QED BY <1>1 DEF Size, Least, PieceRead, PieceWrite

LEMMA RequestFits ==
  ASSUME Types, Doing, Step.n > 0, Step.kind # "refuse"
  PROVE  /\ Request \in Requests /\ Fits(Request)
         /\ Request.rx = 0 \/ Request.data = <<>>
         /\ Request.addr = call.addr /\ Request.reg = Step.reg + done
         /\ Step.kind = "read" => Request.data = <<>> /\ Request.rx = Size
         /\ Step.kind # "read" =>
              /\ Len(Request.data) = Size /\ Request.rx = 0 /\ Request.data # <<>>
              /\ Step.n = Len(Step.data)
              /\ \A k \in 1 .. Size : Request.data[k] = Step.data[done + k]
<1>1. /\ Step \in Transfers /\ Sound(Step) /\ call.addr \in 0 .. 255
  BY StepShape, CallShape DEF Doing
<1>2. /\ Step.reg \in 0 .. 255 /\ Step.data \in Seq(0 .. 255) /\ Step.n \in Nat
      /\ Step.reg + Step.n <= 256
      /\ Step.kind \in {"read", "write", "cmd", "refuse"}
      /\ Step.kind # "read" => Step.n = Len(Step.data)
  BY <1>1 DEF Transfers, Sound, Registers
<1>3. /\ Size \in Nat \ {0} /\ done + Size <= Step.n /\ done \in Nat
      /\ Size <= IF Step.kind = "read" THEN 15 ELSE 14
  BY SizeFits DEF Types, PlaceTypes, CallTypes, BusTypes
<1>4. Request.reg = Step.reg + done /\ Request.addr = call.addr /\ Step.reg + done \in 0 .. 255
  <2>1. Step.reg \in Nat /\ Step.n \in Nat /\ Step.reg + Step.n <= 256
    <3>1. Step.reg \in 0 .. 255 /\ Step.n \in Nat
      BY <1>1 DEF Transfers, Registers
    <3>2. Step.reg + Step.n <= 256
      BY <1>1 DEF Sound
    <3> QED BY <3>1, <3>2
  <2>2. done \in Nat /\ done < Step.n
    BY SizeFits DEF Types, PlaceTypes, CallTypes, BusTypes
  <2>3. Step.reg + done \in 0 .. 255
    <3> DEFINE r == Step.reg
               n == Step.n
    <3>1. r \in Nat /\ n \in Nat /\ r + n <= 256 /\ done < n
      BY <2>1, <2>2
    <3> HIDE DEF r, n
    <3>2. r + done \in 0 .. 255
      BY <2>2, <3>1
    <3> QED BY <3>2 DEF r
  <2> QED BY <2>3 DEF Request, Place
<1>5. CASE Step.kind = "read"
  <2>1. Request.data = <<>> /\ Request.rx = Size
    BY <1>5 DEF Request
  <2>2. <<>> \in Seq(0 .. 255) /\ Len(<<>>) = 0
    OBVIOUS
  <2>3. Request = [addr |-> call.addr, reg |-> Step.reg + done, data |-> <<>>, rx |-> Size]
    BY <1>5 DEF Request, Place
  <2> QED BY <1>1, <1>3, <1>4, <1>5, <2>1, <2>2, <2>3 DEF Requests, Registers, Fits
<1>6. CASE Step.kind # "read"
  <2> DEFINE d == SubSeq(Step.data, done + 1, done + Size)
  <2>1. /\ d \in Seq(0 .. 255) /\ Len(d) = Size
        /\ \A k \in 1 .. Size : d[k] = Step.data[done + k]
    <3>1. /\ done + 1 \in Int /\ done + Size \in Int
          /\ \A i \in done + 1 .. done + Size : Step.data[i] \in 0 .. 255
      <4>1. Step.data \in Seq(0 .. 255) /\ Len(Step.data) \in Nat /\ done + Size <= Len(Step.data)
        BY <1>2, <1>3, <1>6
      <4>2. \A i \in done + 1 .. done + Size : i \in 1 .. Len(Step.data)
        BY <1>3, <4>1
      <4>3. \A i \in 1 .. Len(Step.data) : Step.data[i] \in 0 .. 255
        BY <4>1, ElementOfSeq
      <4> QED BY <1>3, <4>2, <4>3
    <3>2. /\ d \in Seq(0 .. 255)
          /\ Len(d) = (done + Size) - (done + 1) + 1
          /\ \A k \in 1 .. (done + Size) - (done + 1) + 1 : d[k] = Step.data[(done + 1) + k - 1]
      BY <1>3, <3>1, SubSeqProperties
    <3>3. (done + Size) - (done + 1) + 1 = Size /\ \A k \in 1 .. Size : (done + 1) + k - 1 = done + k
      BY <1>3
    <3> QED BY <3>2, <3>3
  <2>2. Request.data = d /\ Request.rx = 0
    BY <1>6 DEF Request
  <2>3. Request = [addr |-> call.addr, reg |-> Step.reg + done, data |-> d, rx |-> 0]
    BY <1>6 DEF Request, Place
  <2>4. d # <<>>
    BY <1>3, <2>1
  <2> HIDE DEF d
  <2> QED BY <1>1, <1>2, <1>3, <1>4, <1>6, <2>1, <2>2, <2>3, <2>4 DEF Requests, Registers, Fits
<1> QED BY <1>5, <1>6

\* A transfer is over, or all are.
LEMMA TailOver ==
  ASSUME Types, Doing, call' = call, todo' = Tail(todo)
  PROVE  /\ Over' = Over + 1 /\ todo' \in Seq(Transfers) /\ Len(todo') <= Len(call'.steps)
         /\ \A k \in 1 .. Len(todo') : todo'[k] = call'.steps[Over' + k]
<1>1. todo \in Seq(Transfers) /\ todo # <<>> /\ Len(todo) <= Len(call.steps)
  BY DEF Types, PlaceTypes, CallTypes, BusTypes, Doing
<1>2. /\ Tail(todo) \in Seq(Transfers) /\ Len(Tail(todo)) = Len(todo) - 1
      /\ \A i \in 1 .. Len(Tail(todo)) : Tail(todo)[i] = todo[i + 1]
  BY <1>1, HeadTailProperties
<1>3. Len(todo) \in Nat /\ Len(call.steps) \in Nat
  BY <1>1, CallShape DEF Doing
<1>4. Over' = Over + 1
  BY <1>2, <1>3 DEF Over
<1>5. ASSUME NEW k \in 1 .. Len(todo') PROVE todo'[k] = call'.steps[Over' + k]
  <2>1. k + 1 \in 1 .. Len(todo) /\ todo'[k] = todo[k + 1]
    BY <1>2, <1>3, <1>5
  <2>2. todo[k + 1] = call.steps[Over + (k + 1)]
    BY <2>1 DEF Types, PlaceTypes, CallTypes, BusTypes, Doing
  <2>3. Over + (k + 1) = Over' + k
    <3>1. Over \in Nat /\ k \in Nat
      BY <1>3, CallShape DEF Doing
    <3> HIDE DEF Over
    <3> QED BY <1>4, <3>1
  <2> QED BY <2>1, <2>2, <2>3
<1> QED BY <1>1, <1>2, <1>3, <1>4, <1>5

LEMMA AllOver ==
  ASSUME Types, Doing, call' = call, todo' = <<>>
  PROVE  /\ Over' = Len(call.steps) /\ todo' \in Seq(Transfers) /\ Len(todo') <= Len(call'.steps)
         /\ \A k \in 1 .. Len(todo') : todo'[k] = call'.steps[Over' + k]
<1>1. Len(call.steps) \in Nat /\ Len(todo') = 0
  BY CallShape DEF Doing
<1> QED BY <1>1 DEF Over

LEMMA AbortTypes ==
  ASSUME Types, Doing, Abort, call' = call PROVE CallTypes'
<1>1. todo' = Tail(todo) \/ todo' = <<>>
  BY DEF Abort
<1>2. /\ todo' \in Seq(Transfers) /\ Len(todo') <= Len(call'.steps)
      /\ \A k \in 1 .. Len(todo') : todo'[k] = call'.steps[Over' + k]
  BY <1>1, TailOver, AllOver
<1>3. done' = 0
  BY DEF Abort
<1>4. ok' \in BOOLEAN
  BY Zenon DEF Abort
<1> QED BY <1>2, <1>3, <1>4 DEF Types, PlaceTypes, CallTypes, BusTypes, Doing

LEMMA AdvanceTypes ==
  ASSUME Types, Doing, NEW n \in Nat, NEW bytes \in Seq(0 .. 255), Advance(n, bytes), call' = call
  PROVE  CallTypes' /\ buf' \in Seq(0 .. 255)
<1>1. buf' \in Seq(0 .. 255) /\ ok' \in BOOLEAN
  BY DEF Advance, Types, PlaceTypes, CallTypes, BusTypes
<1>2. CASE done + n < Step.n
  <2>1. done' = done + n /\ todo' = todo /\ Step' = Step
    BY <1>2 DEF Advance, Step
  <2>2. done' \in Nat /\ done' < Step'.n
    BY <1>2, <2>1 DEF Types, PlaceTypes, CallTypes, BusTypes
  <2>3. Over' = Over /\ call \in Calls
    BY <2>1 DEF Over, Types, PlaceTypes, CallTypes, BusTypes, Doing
  <2> QED BY <1>1, <2>1, <2>2, <2>3 DEF Types, PlaceTypes, CallTypes, BusTypes, Doing
<1>3. CASE ~(done + n < Step.n)
  <2>1. done' = 0 /\ todo' = Tail(todo)
    BY <1>3 DEF Advance
  <2>2. /\ todo' \in Seq(Transfers) /\ Len(todo') <= Len(call'.steps)
        /\ \A k \in 1 .. Len(todo') : todo'[k] = call'.steps[Over' + k]
    BY <2>1, TailOver
  <2> QED BY <1>1, <2>1, <2>2 DEF Types, PlaceTypes, CallTypes, BusTypes, Doing
<1> QED BY <1>2, <1>3

\* Bytes that are registers, and data that a request brings
LEMMA MeasuredByte == \A v \in 0 .. 255, r \in 0 .. 255 : Measured(v, r) \in 0 .. 255
BY DEF Measured

LEMMA InitTypes == Init => Types
<1> SUFFICES ASSUME Init PROVE Types
  OBVIOUS
<1>1. <<>> \in Seq(0 .. 255) /\ Len(<<>>) = 0
  OBVIOUS
<1>2. req \in Requests /\ req.rx = 0
  BY <1>1 DEF Init, NoRequest, Requests, Registers
<1>3. regs \in [Live \cup Kept -> 0 .. 255]
  <2>1. PICK v \in Level : regs = [r \in Live \cup Kept |->
                                     IF r \in Live THEN Measured(v, r) ELSE 0]
    BY DEF Init
  <2>2. \A r \in Live : Measured(v, r) \in 0 .. 255
    BY MeasuredByte, I2CAssumption
  <2> QED BY <2>1, <2>2
<1>4. at \in 0 .. 255 /\ lock = 0 /\ inbuf = <<>>
  BY I2CAssumption DEF Init
<1>5. BusTypes
  BY <1>1, <1>2, <1>3, <1>4 DEF BusTypes
<1>6. CallTypes
  BY DEF Init, CallTypes
<1> QED BY <1>1, <1>5, <1>6 DEF Types, PlaceTypes, Init

LEMMA RequestFields ==
  ASSUME Types
  PROVE  /\ req \in Requests /\ req.rx \in 0 .. 16 /\ req.data \in Seq(0 .. 255)
         /\ req.reg \in Nat /\ req.addr \in 0 .. 255
<1>1. req \in Requests
  BY DEF Types, PlaceTypes, CallTypes, BusTypes
<1>2. req.rx \in 0 .. 16 /\ req.reg \in Nat /\ req.addr \in 0 .. 255
  <2>1. req.rx \in 0 .. 16 /\ req.reg \in 0 .. 255 /\ req.addr \in 0 .. 255
    BY <1>1 DEF Requests, Registers
  <2> QED BY <2>1
<1>3. req.data \in Seq(0 .. 255)
  BY <1>1 DEF Requests
<1> QED BY <1>1, <1>2, <1>3, Zenon

LEMMA FunctionSeq ==
  ASSUME NEW S, NEW n \in Nat, NEW f \in [1 .. n -> S] PROVE f \in Seq(S) /\ Len(f) = n
OBVIOUS

LEMMA CarryOutTypes ==
  ASSUME Types, CarryOut PROVE BusTypes'
<1>1. /\ req \in Requests /\ req.rx \in 0 .. 16 /\ req.data \in Seq(0 .. 255) /\ req.reg \in Nat
  BY RequestFields
<1>2. /\ <<>> \in Seq(0 .. 255) /\ Len(<<>>) = 0
  OBVIOUS
<1>3. \A r : Contents(r) \in 0 .. 255
  BY DEF Contents, Types, PlaceTypes, CallTypes, BusTypes
<1>4. req' = NoRequest /\ req' \in Requests /\ req'.rx = 0
  BY <1>2 DEF CarryOut, NoRequest, Requests, Registers
<1>5. inbuf' \in Seq(0 .. 255) /\ Len(inbuf') <= 16
  <2>1. inbuf' = [i \in 1 .. req.rx |-> Contents(req.reg + i - 1)]
    BY DEF CarryOut
  <2>2. inbuf' \in [1 .. req.rx -> 0 .. 255]
    BY <1>3, <2>1
  <2>3. req.rx \in Nat /\ req.rx <= 16
    BY <1>1
  <2> HIDE DEF Contents
  <2>4. inbuf' \in Seq(0 .. 255) /\ Len(inbuf') = req.rx
    BY <2>2, <2>3, FunctionSeq, Zenon
  <2> QED BY <2>3, <2>4
<1>6. CASE req.reg = CmdRegister /\ req.data # <<>>
  <2>1. req.data[1] \in 0 .. 255
    <3>1. 1 \in 1 .. Len(req.data)
      BY <1>1, <1>6, EmptySeq
    <3> QED BY <1>1, <3>1, ElementOfSeq
  <2>2. lock' \in 0 .. 3 /\ at' \in 0 .. 255 /\ regs' = regs
    <3>1. lock \in 0 .. 3 /\ at \in 0 .. 255
      BY DEF Types, PlaceTypes, CallTypes, BusTypes
    <3>2. regs' = regs /\ at' \in {at, req.data[1]}
      BY <1>6 DEF CarryOut
    <3>3. lock' \in {0, 1} \/ (lock # 3 /\ lock' = lock + 1)
      BY <1>6 DEF CarryOut
    <3> QED BY <2>1, <3>1, <3>2, <3>3
  <2> QED BY <1>4, <1>5, <2>2 DEF Types, PlaceTypes, CallTypes, BusTypes
<1>7. CASE ~(req.reg = CmdRegister /\ req.data # <<>>)
  <2>1. /\ regs' = [r \in DOMAIN regs |-> IF r - req.reg + 1 \in 1 .. Len(req.data)
                                         THEN req.data[r - req.reg + 1] ELSE regs[r]]
        /\ lock' \in {lock, 0} /\ at' = at
    BY <1>7 DEF CarryOut
  <2>2. \A k \in 1 .. Len(req.data) : req.data[k] \in 0 .. 255
    BY <1>1, ElementOfSeq
  <2>3. regs' \in [Live \cup Kept -> 0 .. 255]
    BY <2>1, <2>2 DEF Types, PlaceTypes, CallTypes, BusTypes
  <2>4. lock \in 0 .. 3 /\ at \in 0 .. 255
    BY DEF Types, PlaceTypes, CallTypes, BusTypes
  <2>5. lock' \in 0 .. 3 /\ at' \in 0 .. 255
    BY <2>1, <2>4
  <2> QED BY <1>4, <1>5, <2>3, <2>5, Zenon DEF BusTypes
<1> QED BY <1>6, <1>7

LEMMA PadBytes ==
  ASSUME NEW bytes \in Seq(0 .. 255), NEW n \in Nat
  PROVE  /\ Pad(bytes, n) \in Seq(0 .. 255) /\ Len(Pad(bytes, n)) = n
         /\ \A j \in 1 .. n : j <= Len(bytes) => Pad(bytes, n)[j] = bytes[j]
<1>1. Pad(bytes, n) \in [1 .. n -> 0 .. 255]
  <2>1. \A i \in 1 .. Len(bytes) : bytes[i] \in 0 .. 255
    BY ElementOfSeq
  <2>2. \A i \in 1 .. n : i <= Len(bytes) => i \in 1 .. Len(bytes)
    OBVIOUS
  <2> QED BY <2>1, <2>2 DEF Pad
<1>2. Pad(bytes, n) \in Seq(0 .. 255) /\ Len(Pad(bytes, n)) = n
  BY <1>1, FunctionSeq
<1> QED BY <1>2 DEF Pad

\* What a step on the bus leaves alone
LEMMA CallSame ==
  ASSUME Types, UNCHANGED <<call, todo, pc, done, buf, ok>>
  PROVE  /\ CallTypes' /\ Over' = Over
         /\ pc' \in {"idle", "write", "poll", "fetch"}
         /\ pc' = "idle" => todo' = <<>>
         /\ pc' \in {"poll", "fetch"} => todo' # <<>> /\ Step'.kind = "read" /\ done' < Step'.n
         /\ buf' \in Seq(0 .. 255)
<1>1. Over' = Over /\ Step' = Step
  BY DEF Over, Step
<1> QED BY <1>1 DEF Types, PlaceTypes, CallTypes, BusTypes

\* What a step of the function leaves alone
LEMMA BusSame ==
  ASSUME Types, UNCHANGED <<req, at, regs, lock>>, inbuf' \in {inbuf, <<>>} PROVE BusTypes'
<1>1. BusTypes
  BY DEF Types
<1>2. <<>> \in Seq(0 .. 255) /\ Len(<<>>) = 0
  BY EmptySeq
<1>3. inbuf' \in Seq(0 .. 255) /\ Len(inbuf') <= 16
  <2>1. CASE inbuf' = inbuf
    BY <1>1, <2>1 DEF BusTypes
  <2>2. CASE inbuf' = <<>>
    BY <1>2, <2>2
  <2> QED BY <2>1, <2>2
<1> QED BY <1>1, <1>3 DEF BusTypes

LEMMA LsWriteTypes ==
  ASSUME Types, NEW taken \in BOOLEAN, NEW reply \in BOOLEAN, LsWrite(taken, reply)
  PROVE  Types'
<1>1. /\ Doing /\ Step.kind # "refuse" /\ Step.n > 0 /\ pc = "write"
      /\ UNCHANGED <<call, at, regs, lock, broken>> /\ clean' = (clean /\ reply)
  BY DEF LsWrite, Sending, Doing
<1>2. Size \in Nat /\ done < Step.n
  BY <1>1, SizeFits
<1>3. Request \in Requests /\ (Request.rx = 0 \/ Request.data = <<>>)
  BY <1>1, RequestFits
<1>4. BusTypes'
  <2>1. CASE taken
    <3>1. req' = Request /\ inbuf' = <<>>
      BY <2>1 DEF LsWrite
    <3> QED BY <1>1, <1>3, <3>1, EmptySeq DEF Types, PlaceTypes, CallTypes, BusTypes
  <2>2. CASE ~taken
    <3>1. UNCHANGED <<req, inbuf>>
      BY <2>2 DEF LsWrite
    <3> QED BY <1>1, <3>1, BusSame
  <2> QED BY <2>1, <2>2
<1>5. clean' \in BOOLEAN /\ broken' \in BOOLEAN
  BY <1>1, Zenon DEF Types, PlaceTypes, CallTypes, BusTypes
<1>6. CASE Step.kind = "read"
  <2>1. pc' = "poll" /\ UNCHANGED <<todo, done, buf, ok>>
    BY <1>6 DEF LsWrite
  <2>2. Over' = Over /\ Step' = Step
    BY <1>1, <2>1 DEF Over, Step
  <2>3. CallTypes'
    BY <1>1, <2>1, <2>2 DEF Types, PlaceTypes, CallTypes, BusTypes
  <2>4. todo' # <<>> /\ Step'.kind = "read" /\ done' < Step'.n /\ buf' \in Seq(0 .. 255)
    BY <1>1, <1>2, <1>6, <2>1, <2>2 DEF Types, PlaceTypes, CallTypes, BusTypes, Doing
  <2> QED BY <1>4, <1>5, <2>1, <2>3, <2>4 DEF Types, PlaceTypes
<1>7. CASE Step.kind # "read"
  <2>1. PieceWritten(reply) /\ pc' = "write"
    BY <1>7 DEF LsWrite, PieceWritten, Advance, Abort
  <2>2. CallTypes' /\ buf' \in Seq(0 .. 255)
    <3>1. CASE reply
      BY <1>1, <1>2, <2>1, <3>1, AdvanceTypes, EmptySeq DEF PieceWritten
    <3>2. CASE ~reply
      <4>1. Abort
        BY <2>1, <3>2 DEF PieceWritten
      <4> QED BY <1>1, <4>1, AbortTypes DEF Abort, Types, PlaceTypes, CallTypes, BusTypes
    <3> QED BY <3>1, <3>2
  <2> QED BY <1>4, <1>5, <2>1, <2>2 DEF Types, PlaceTypes
<1> QED BY <1>6, <1>7

LEMMA NextTypes == Types /\ [Next]_vars => Types'
<1> SUFFICES ASSUME Types, [Next]_vars PROVE Types'
  OBVIOUS
<1> USE DEF busVars, callVars
<1>0. /\ pc \in {"idle", "write", "poll", "fetch"} /\ clean \in BOOLEAN /\ broken \in BOOLEAN
      /\ buf \in Seq(0 .. 255)
  BY DEF Types, PlaceTypes, CallTypes, BusTypes
<1>1. ASSUME NEW c \in Calls, Begin(c) PROVE Types'
  <2>1. /\ pc' = "write" /\ call' = c /\ todo' = c.steps /\ done' = 0 /\ buf' = <<>>
        /\ ok' = TRUE /\ clean' = TRUE /\ broken' = FALSE
        /\ UNCHANGED <<req, inbuf, at, regs, lock>>
    BY <1>1 DEF Begin
  <2>2. c.steps \in Seq(Transfers)
    BY CallsAssumption DEF Proper
  <2>3. Over' = 0
    BY <2>1, <2>2 DEF Over
  <2>4. Len(c.steps) \in Nat /\ \A k \in 1 .. Len(c.steps) : c.steps[k] = c.steps[0 + k]
    BY <2>2
  <2>5. CallTypes'
    BY <2>1, <2>2, <2>3, <2>4 DEF CallTypes
  <2>6. BusTypes'
    BY <2>1, BusSame
  <2> QED BY <2>1, <2>5, <2>6, EmptySeq DEF Types, PlaceTypes
<1>2. CASE Return
  <2>1. /\ pc' = "idle" /\ todo' = <<>> /\ done' = 0 /\ buf' = <<>> /\ ok' = TRUE
        /\ clean' = TRUE /\ broken' = FALSE /\ UNCHANGED <<req, inbuf, at, regs, lock>>
    BY <1>2 DEF Return
  <2>2. BusTypes'
    BY <2>1, BusSame
  <2>3. CallTypes'
    BY <2>1 DEF CallTypes
  <2> QED BY <2>1, <2>2, <2>3, EmptySeq DEF Types, PlaceTypes
<1>3. CASE Refused
  <2>1. /\ Doing /\ Abort /\ pc' = "write"
        /\ UNCHANGED <<call, buf, clean, broken, req, inbuf, at, regs, lock>>
    BY <1>3 DEF Refused, Abort, Doing
  <2> QED BY <1>0, <2>1, AbortTypes, BusSame DEF Types, PlaceTypes
<1>4. CASE NothingToDo
  <2>1. /\ Doing /\ Advance(0, <<>>) /\ pc' = "write"
        /\ UNCHANGED <<call, clean, broken, req, inbuf, at, regs, lock>>
    BY <1>4 DEF NothingToDo, Advance, Doing
  <2> QED BY <1>0, <2>1, AdvanceTypes, BusSame, EmptySeq DEF Types, PlaceTypes
<1>5. ASSUME NEW taken \in BOOLEAN, NEW reply \in BOOLEAN, LsWrite(taken, reply) PROVE Types'
  BY <1>5, LsWriteTypes
<1>6. CASE Ready \/ GiveUp
  <2>1. /\ pc = "poll" /\ pc' = "fetch" /\ clean' \in {clean, FALSE}
        /\ UNCHANGED <<call, todo, done, buf, ok, broken, req, inbuf, at, regs, lock>>
    BY <1>6 DEF Ready, GiveUp
  <2>2. Step' = Step /\ Over' = Over
    BY <2>1 DEF Step, Over
  <2>3. CallTypes'
    BY <2>1, <2>2 DEF Types, PlaceTypes, CallTypes, BusTypes
  <2>4. todo' # <<>> /\ Step'.kind = "read" /\ done' < Step'.n
    BY <2>1, <2>2 DEF Types, PlaceTypes, CallTypes, BusTypes
  <2> QED BY <1>0, <2>1, <2>3, <2>4, BusSame DEF Types, PlaceTypes
<1>7. CASE LsRead
  <2>1. /\ Doing /\ pc = "fetch" /\ Advance(Size, Pad(inbuf, Size)) /\ pc' = "write"
        /\ inbuf' = <<>> /\ UNCHANGED <<call, clean, broken, req, at, regs, lock>>
    BY <1>7 DEF LsRead, Advance, Doing, Types, PlaceTypes, CallTypes, BusTypes
  <2>2. Size \in Nat
    <3>1. Step.n \in Nat /\ done \in Nat /\ done < Step.n
      BY <2>1, StepShape DEF Types, PlaceTypes, CallTypes, Transfers
    <3>2. Step.n > 0
      BY <3>1
    <3> QED BY <2>1, <3>2, SizeFits
  <2>3. Pad(inbuf, Size) \in Seq(0 .. 255)
    BY <2>2, PadBytes DEF Types, PlaceTypes, CallTypes, BusTypes
  <2> QED BY <1>0, <2>1, <2>2, <2>3, AdvanceTypes, BusSame DEF Types, PlaceTypes
<1>8. CASE LsReadFails
  <2>1. /\ Doing /\ Abort /\ pc' = "write" /\ inbuf' \in {inbuf, <<>>}
        /\ UNCHANGED <<call, buf, clean, broken, req, at, regs, lock>>
    BY <1>8 DEF LsReadFails, Abort, Doing, Types, PlaceTypes, CallTypes, BusTypes
  <2> QED BY <1>0, <2>1, AbortTypes, BusSame DEF Types, PlaceTypes
<1>9. CASE CarryOut
  <2>1. UNCHANGED <<call, todo, pc, done, buf, ok, clean, broken>>
    BY <1>9 DEF CarryOut
  <2> QED BY <1>0, <1>9, <2>1, CarryOutTypes, CallSame DEF Types, PlaceTypes
<1>10. CASE BusFails
  <2>1. /\ UNCHANGED <<call, todo, pc, done, buf, ok, clean, at, regs, lock>>
        /\ req' = NoRequest /\ inbuf' = <<>> /\ broken' \in BOOLEAN
    BY <1>10 DEF BusFails
  <2>2. NoRequest \in Requests /\ NoRequest.rx = 0
    BY EmptySeq DEF NoRequest, Requests, Registers
  <2>3. BusTypes'
    BY <2>1, <2>2, EmptySeq DEF Types, PlaceTypes, CallTypes, BusTypes
  <2> QED BY <1>0, <2>1, <2>3, CallSame DEF Types, PlaceTypes
<1>11. ASSUME NEW v \in Level, Measure(v) PROVE Types'
  <2>1. /\ regs' = [r \in DOMAIN regs |-> IF r \in Live THEN Measured(v, r) ELSE regs[r]]
        /\ UNCHANGED <<call, todo, pc, done, buf, ok, clean, broken, req, inbuf, at, lock>>
    BY <1>11 DEF Measure
  <2>2. \A r \in Live : Measured(v, r) \in 0 .. 255
    BY MeasuredByte, I2CAssumption
  <2>3. regs' \in [Live \cup Kept -> 0 .. 255]
    BY <2>1, <2>2 DEF Types, PlaceTypes, CallTypes, BusTypes
  <2>4. BusTypes'
    BY <2>1, <2>3 DEF Types, PlaceTypes, CallTypes, BusTypes
  <2> QED BY <1>0, <2>1, <2>4, CallSame DEF Types, PlaceTypes
<1>12. CASE UNCHANGED vars
  <2>1. BusTypes'
    BY <1>12, BusSame DEF vars
  <2> QED BY <1>0, <1>12, <2>1, CallSame DEF Types, PlaceTypes, vars
<1> QED BY <1>1, <1>2, <1>3, <1>4, <1>5, <1>6, <1>7, <1>8, <1>9, <1>10, <1>11, <1>12
        DEF Next, Program
-----------------------------------------------------------------------------
(* What is done of each transfer.                                          *)

LEMMA AdvancePart ==
  ASSUME Types, Doing, NEW n \in Nat, NEW bytes, Advance(n, bytes), call' = call,
         done + n <= Step.n
  PROVE  /\ \A i \in Nat \ {0} : Part(i)' = IF i = Over + 1 THEN Part(i) + n ELSE Part(i)
         /\ ok' = ok
<1>1. Over \in Nat /\ done \in Nat
  BY CallShape DEF Doing, Types, CallTypes
<1>2. Step = call.steps[Over + 1] /\ Step.n \in Nat
  BY StepShape DEF Transfers
<1>3. CASE done + n < Step.n
  <2>1. done' = done + n /\ todo' = todo
    BY <1>3 DEF Advance
  <2>2. Over' = Over
    BY <2>1 DEF Over
  <2> HIDE DEF Over
  <2>3. \A i \in Nat \ {0} : Part(i)' = IF i = Over + 1 THEN Part(i) + n ELSE Part(i)
    BY <1>1, <2>1, <2>2 DEF Part
  <2> QED BY <2>3 DEF Advance
<1>4. CASE ~(done + n < Step.n)
  <2>1. done' = 0 /\ todo' = Tail(todo) /\ done + n = Step.n
    BY <1>1, <1>2, <1>4 DEF Advance
  <2>2. Over' = Over + 1
    BY <2>1, TailOver
  <2> HIDE DEF Over
  <2>3. \A i \in Nat \ {0} : Part(i)' = IF i = Over + 1 THEN Part(i) + n ELSE Part(i)
    BY <1>1, <1>2, <2>1, <2>2 DEF Part
  <2> QED BY <2>3 DEF Advance
<1> QED BY <1>3, <1>4

LEMMA AbortPart ==
  ASSUME Types, Doing, Abort, call' = call, ok'
  PROVE  /\ ok /\ ~Step.needed /\ Step.kind # "read" /\ Over' = Over + 1
         /\ \A i \in Nat \ {0} : i # Over + 1 => Part(i)' = Part(i)
<1>1. Over \in Nat /\ Proper(call)
  BY CallShape DEF Doing
<1>2. ok /\ ~Step.needed /\ call.name # "accel_get_sensity" /\ done' = 0
  BY DEF Abort
<1>3. todo' = Tail(todo) /\ Over' = Over + 1
  BY <1>2, TailOver DEF Abort
<1>4. Step.kind # "read"
  BY <1>1, <1>2, StepShape DEF Proper
<1> HIDE DEF Over
<1>5. \A i \in Nat \ {0} : i # Over + 1 => Part(i)' = Part(i)
  BY <1>1, <1>2, <1>3 DEF Part
<1> QED BY <1>2, <1>3, <1>4, <1>5

LEMMA SamePart ==
  ASSUME UNCHANGED <<call, todo, done>>
  PROVE  Over' = Over /\ \A i : Part(i)' = Part(i)
BY DEF Over, Part

-----------------------------------------------------------------------------
(* Reads.                                                                  *)

\* What is in a register stays seen.
LEMMA OwnStays ==
  ASSUME seen \subseteq seen', DOMAIN regs' = DOMAIN regs
  PROVE  \A bytes, reg : Own(bytes, reg) => Own(bytes, reg)'
BY DEF Own

\* The read of a function, if it is not under way
LEMMA ReadingElse ==
  ASSUME Types, Types', Reading, pc # "idle", call' = call, pc' = "write", ok' => ok,
         clean' => clean, broken' = broken, buf' = buf, UNCHANGED <<regs, seen>>,
         ok' => \A i \in Steps("read") : Part(i)' = Part(i)
  PROVE  Reading'
<1>1. Steps("read")' = Steps("read")
  BY DEF Steps
<1>2. \A bytes, reg : Own(bytes, reg) => Own(bytes, reg)'
  BY OwnStays
<1>3. ASSUME ok', clean', ~broken', NEW i \in Steps("read")
      PROVE  Len(buf') = Part(i)' /\ Own(buf, call.steps[i].reg)'
  <2>1. Len(buf) = Part(i) /\ Own(buf, call.steps[i].reg)
    BY <1>3 DEF Reading
  <2> QED BY <1>2, <1>3, <2>1 DEF Own
<1> QED BY <1>1, <1>3 DEF Reading

LEMMA ReadIndex ==
  ASSUME Types, Doing, NEW i \in Steps("read")
  PROVE  /\ i \in Nat \ {0} /\ i \in DOMAIN call.steps
         /\ (i = Over + 1) <=> (Step.kind = "read")
<1>1. i \in DOMAIN call.steps /\ call.steps[i].kind = "read" /\ i \in Nat \ {0}
  BY CallShape DEF Steps, Doing
<1>2. Over + 1 \in DOMAIN call.steps /\ Step = call.steps[Over + 1]
  BY StepShape
<1>3. Proper(call)
  BY CallShape DEF Doing
<1>4. \A k, l \in DOMAIN call.steps :
        {call.steps[k].kind, call.steps[l].kind} = {"read"} => k = l
  BY <1>3 DEF Proper
<1>5. Step.kind = "read" => i = Over + 1
  BY <1>1, <1>2, <1>4
<1> QED BY <1>1, <1>2, <1>5

LEMMA InitReading == Init => Reading
BY DEF Init, Reading

LEMMA LsReadReading ==
  ASSUME Types, Types', Reading, LsRead PROVE Reading'
<1>1. /\ Doing /\ pc = "fetch" /\ Step.kind = "read" /\ Advance(Size, Pad(inbuf, Size)) /\ pc' = "write"
      /\ UNCHANGED <<call, clean, broken, regs, seen>> /\ buf' = buf \o Pad(inbuf, Size)
  BY DEF LsRead, Advance, Doing, Types, PlaceTypes
<1>2. Step.n \in Nat /\ done \in Nat /\ done < Step.n
  BY <1>1, StepShape DEF Types, PlaceTypes, CallTypes, Transfers
<1>3. Size \in Nat /\ done + Size <= Step.n
  <2>1. Step.n > 0
    BY <1>2
  <2> QED BY <1>1, <2>1, SizeFits
<1>4. ok' = ok /\ \A i \in Nat \ {0} : Part(i)' = IF i = Over + 1 THEN Part(i) + Size ELSE Part(i)
  BY <1>1, <1>3, AdvancePart
<1>5. ASSUME ok', clean', ~broken', NEW i \in Steps("read")
      PROVE  Len(buf') = Part(i)' /\ Own(buf, call.steps[i].reg)'
  <2>1. Len(buf) = Part(i) /\ Own(buf, call.steps[i].reg) /\ Arrived
    BY <1>1, <1>4, <1>5 DEF Reading
  <2>2. i = Over + 1 /\ i \in Nat \ {0} /\ call.steps[i] = Step
    BY <1>1, <1>5, ReadIndex, StepShape
  <2> DEFINE new == Pad(inbuf, Size)
  <2>3. /\ buf \in Seq(0 .. 255) /\ new \in Seq(0 .. 255) /\ Len(new) = Size
        /\ Len(inbuf) = Size /\ \A j \in 1 .. Size : new[j] = inbuf[j]
    <3>1. buf \in Seq(0 .. 255) /\ inbuf \in Seq(0 .. 255)
      BY DEF Types, PlaceTypes, BusTypes
    <3>2. Len(inbuf) = Size
      BY <2>1 DEF Arrived
    <3>3. /\ new \in Seq(0 .. 255) /\ Len(new) = Size
          /\ \A j \in 1 .. Size : j <= Len(inbuf) => new[j] = inbuf[j]
      BY <1>3, <3>1, PadBytes
    <3>4. \A j \in 1 .. Size : j <= Size
      BY <1>3
    <3> QED BY <3>1, <3>2, <3>3, <3>4
  <2>4. /\ Len(buf') = Len(buf) + Size
        /\ \A j \in 1 .. Len(buf) + Size :
             buf'[j] = IF j <= Len(buf) THEN buf[j] ELSE new[j - Len(buf)]
    BY <1>1, <2>3, ConcatProperties
  <2>5. Len(buf') = Part(i)' /\ Len(buf) = done
    <3>1. Part(i) = done /\ Part(i)' = Part(i) + Size
      <4>1. Over \in Nat
        BY <1>1, CallShape DEF Doing
      <4> HIDE DEF Over
      <4> QED BY <1>4, <2>2, <4>1 DEF Part
    <3> QED BY <2>1, <2>4, <3>1
  <2>6. Place = Step.reg + Len(buf) /\ Step.reg \in Nat
    <3>1. Step.reg \in 0 .. 255
      BY <1>1, StepShape DEF Transfers, Registers
    <3>2. Step.reg \in Nat
      BY <3>1
    <3> QED BY <2>5, <3>2 DEF Place
  <2>7. ASSUME NEW j \in 1 .. Len(buf'), Step.reg + j - 1 \in DOMAIN regs
        PROVE  \E s \in seen : buf'[j] = s[Step.reg + j - 1]
    <3>1. CASE j <= Len(buf)
      <4>1. j \in 1 .. Len(buf) /\ buf'[j] = buf[j]
        BY <2>3, <2>4, <2>7, <3>1
      <4> QED BY <2>1, <2>2, <2>7, <4>1 DEF Own
    <3>2. CASE j > Len(buf)
      <4> DEFINE k == j - Len(buf)
      <4>1. k \in 1 .. Size /\ Place + k - 1 = Step.reg + j - 1
        BY <1>3, <2>3, <2>4, <2>6, <2>7, <3>2
      <4>2. buf'[j] = inbuf[k]
        BY <1>3, <2>3, <2>4, <2>7, <3>2, <4>1
      <4>3. \A l \in 1 .. Len(inbuf) :
               Place + l - 1 \in DOMAIN regs => \E s \in seen : inbuf[l] = s[Place + l - 1]
        BY <2>1 DEF Arrived, Own
      <4>4. \E s \in seen : inbuf[k] = s[Place + k - 1]
        BY <2>3, <2>7, <4>1, <4>3
      <4> QED BY <4>1, <4>2, <4>4
    <3> QED BY <2>3, <2>7, <3>1, <3>2
  <2> QED BY <1>1, <2>2, <2>5, <2>7 DEF Own
<1>6. Steps("read")' = Steps("read")
  BY <1>1 DEF Steps
<1>7. regs' \in seen'
  BY <1>1 DEF Reading
<1> QED BY <1>1, <1>5, <1>6, <1>7 DEF Reading

LEMMA CarryOutReading ==
  ASSUME Types, Types', Reading, CarryOut PROVE Reading'
<1>1. /\ UNCHANGED <<call, todo, pc, done, buf, ok, clean, broken>>
      /\ seen' = (IF pc = "idle" THEN {} ELSE seen \cup {regs'})
      /\ inbuf' = [i \in 1 .. req.rx |-> Contents(req.reg + i - 1)]
      /\ req # NoRequest /\ req' = NoRequest /\ DOMAIN regs' = DOMAIN regs
  BY DEF CarryOut, callVars
<1>2. SUFFICES ASSUME pc # "idle", ok, clean, ~broken
               PROVE  /\ \A i \in Steps("read") : Len(buf') = Part(i)' /\ Own(buf, call.steps[i].reg)'
                      /\ pc = "poll" => Arrived'
                      /\ pc # "fetch"
  <2>1. Steps("read")' = Steps("read")
    BY <1>1 DEF Steps
  <2> QED BY <1>1, <2>1 DEF Reading
<1>3. seen \subseteq seen' /\ regs \in seen
  BY <1>1, <1>2 DEF Reading
<1>4. \A bytes, reg : Own(bytes, reg) => Own(bytes, reg)'
  BY <1>1, <1>3, OwnStays
<1>5. ASSUME NEW i \in Steps("read") PROVE Len(buf') = Part(i)' /\ Own(buf, call.steps[i].reg)'
  <2>1. Len(buf) = Part(i) /\ Own(buf, call.steps[i].reg)
    BY <1>2, <1>5 DEF Reading
  <2>2. Part(i)' = Part(i)
    BY <1>1, SamePart
  <2>3. Own(buf, call.steps[i].reg)'
    BY <1>1, <1>4, <2>1 DEF Own
  <2> QED BY <1>1, <2>1, <2>2, <2>3
<1>6. pc # "fetch"
  BY <1>1, <1>2 DEF Reading, Arrived
<1>7. ASSUME pc = "poll" PROVE Arrived'
  <2>1. req = Request /\ Doing /\ Step.kind = "read" /\ done < Step.n
    BY <1>1, <1>2, <1>7 DEF Reading, Arrived, Types, PlaceTypes, Doing
  <2>2. Step.n > 0 /\ done \in Nat
    BY <2>1, StepShape DEF Types, CallTypes, Transfers
  <2>3. Size \in Nat /\ req.rx = Size /\ req.reg = Place
    <3>1. Size \in Nat
      BY <2>1, <2>2, SizeFits
    <3> QED BY <2>1, <3>1 DEF Request
  <2>4. inbuf' = [j \in 1 .. Size |-> Contents(Place + j - 1)]
    BY <1>1, <2>3
  <2>5. Len(inbuf') = Size
    <3>1. \A r : Contents(r) \in 0 .. 255
      BY DEF Contents, Types, BusTypes
    <3>2. inbuf' \in [1 .. Size -> 0 .. 255]
      BY <2>4, <3>1
    <3> QED BY <2>3, <3>2, FunctionSeq
  <2>6. Size' = Size /\ Place' = Place
    BY <1>1 DEF Size, Place, Step, PieceRead, PieceWrite
  <2>7. \A j \in 1 .. Size : Place + j - 1 \in DOMAIN regs => inbuf'[j] = regs[Place + j - 1]
    BY <2>4 DEF Contents
  <2> QED BY <1>1, <1>3, <2>5, <2>6, <2>7 DEF Arrived, Own
<1> QED BY <1>5, <1>6, <1>7

LEMMA NextReading ==
  ASSUME Types, Types', Reading, [Next]_vars PROVE Reading'
<1> USE DEF busVars, callVars
<1>1. ASSUME NEW c \in Calls, Begin(c) PROVE Reading'
  <2>1. /\ pc' = "write" /\ call' = c /\ todo' = c.steps /\ done' = 0 /\ buf' = <<>>
        /\ seen' = {regs} /\ regs' = regs
    BY <1>1 DEF Begin
  <2>2. Over' = 0
    <3>1. Len(c.steps) \in Nat
      BY CallsAssumption, LenProperties DEF Proper
    <3> QED BY <2>1, <3>1 DEF Over
  <2>3. ASSUME NEW i \in Steps("read")' PROVE Part(i)' = 0
    <3>1. i \in DOMAIN c.steps /\ i \in Nat \ {0}
      <4>1. i \in DOMAIN c.steps /\ c.steps \in Seq(Transfers)
        BY <2>1, CallsAssumption DEF Steps, Proper
      <4> QED BY <4>1
    <3> QED BY <2>1, <2>2, <3>1 DEF Part
  <2>4. Len(<<>>) = 0
    OBVIOUS
  <2> QED BY <2>1, <2>3, <2>4 DEF Reading, Own
<1>2. CASE Return
  BY <1>2 DEF Return, Reading
<1>3. CASE Refused
  <2>1. /\ Doing /\ Abort /\ pc # "idle" /\ pc' = "write"
        /\ UNCHANGED <<call, buf, clean, broken, regs, seen>>
    BY <1>3 DEF Refused, Abort, Doing
  <2>2. ok' => ok /\ \A i \in Steps("read") : Part(i)' = Part(i)
    BY <2>1, AbortPart, ReadIndex
  <2> QED BY <2>1, <2>2, ReadingElse
<1>4. CASE NothingToDo
  <2>1. /\ Doing /\ Advance(0, <<>>) /\ pc # "idle" /\ pc' = "write" /\ Step.n = 0
        /\ buf' = buf \o <<>>
        /\ UNCHANGED <<call, clean, broken, regs, seen>>
    BY <1>4 DEF NothingToDo, Advance, Doing
  <2>2. buf' = buf
    BY <2>1, ConcatEmptySeq DEF Types, PlaceTypes
  <2>3. done + 0 <= Step.n
    BY <2>1 DEF Types, CallTypes, Doing
  <2>4. ok' = ok /\ \A i \in Nat \ {0} : Part(i)' = IF i = Over + 1 THEN Part(i) + 0 ELSE Part(i)
    BY <2>1, <2>3, AdvancePart
  <2>5. ASSUME NEW i \in Steps("read") PROVE Part(i)' = Part(i)
    <3>1. i \in Nat \ {0}
      BY <2>1, ReadIndex
    <3>2. Part(i) \in Nat
      <4>1. call.steps[i] \in Transfers
        BY <2>1, <3>1, ReadIndex, CallShape DEF Doing
      <4> QED BY <4>1 DEF Part, Types, CallTypes, Transfers
    <3> QED BY <2>4, <3>1, <3>2
  <2> QED BY <2>1, <2>2, <2>4, <2>5, ReadingElse
<1>5. ASSUME NEW taken \in BOOLEAN, NEW reply \in BOOLEAN, LsWrite(taken, reply) PROVE Reading'
  <2>1. /\ Doing /\ Step.kind # "refuse" /\ Step.n > 0 /\ pc = "write"
        /\ UNCHANGED <<call, regs, broken, seen>>
        /\ clean' => clean /\ reply
        /\ reply => taken
        /\ taken => req' = Request
    BY <1>5 DEF LsWrite, Sending, Doing
  <2>2. CASE Step.kind = "read"
    <3>1. pc' = "poll" /\ UNCHANGED <<todo, done, buf, ok>>
      BY <1>5, <2>2 DEF LsWrite
    <3>2. Request' = Request
      BY <2>1, <3>1 DEF Request, Place, Size, Step, PieceRead, PieceWrite
    <3>3. \A i : Part(i)' = Part(i)
      BY <2>1, <3>1, SamePart
    <3>4. Steps("read")' = Steps("read")
      BY <2>1 DEF Steps
    <3>5. clean' => req' = Request'
      BY <2>1, <3>2
    <3>6. ASSUME ok', clean', ~broken', NEW i \in Steps("read")
          PROVE  Len(buf') = Part(i)' /\ Own(buf, call.steps[i].reg)'
      <4>1. Len(buf) = Part(i) /\ Own(buf, call.steps[i].reg)
        BY <2>1, <3>1, <3>6 DEF Reading
      <4> QED BY <2>1, <3>1, <3>3, <4>1 DEF Own
    <3> QED BY <2>1, <3>1, <3>4, <3>5, <3>6 DEF Reading
  <2>3. CASE Step.kind # "read"
    <3>1. PieceWritten(reply)
      BY <1>5, <2>3 DEF LsWrite
    <3>2. CASE reply
      <4>1. Advance(Size, <<>>) /\ pc' = "write" /\ buf' = buf \o <<>>
        BY <3>1, <3>2 DEF PieceWritten, Advance
      <4>2. buf' = buf
        BY <4>1, ConcatEmptySeq DEF Types, PlaceTypes
      <4>3. Size \in Nat /\ done + Size <= Step.n
        BY <2>1, SizeFits
      <4>4. ok' = ok /\ \A i \in Nat \ {0} : Part(i)' = IF i = Over + 1 THEN Part(i) + Size ELSE Part(i)
        BY <2>1, <4>1, <4>3, AdvancePart
      <4>5. \A i \in Steps("read") : Part(i)' = Part(i)
        BY <2>1, <2>3, <4>4, ReadIndex
      <4>6. pc # "idle" /\ (clean' => clean) /\ broken' = broken
        BY <2>1
      <4> QED BY <2>1, <4>1, <4>2, <4>4, <4>5, <4>6, ReadingElse
    <3>3. CASE ~reply
      <4>1. Abort /\ pc' = "write" /\ buf' = buf
        BY <3>1, <3>3 DEF PieceWritten, Abort
      <4>2. ok' => ok /\ \A i \in Steps("read") : Part(i)' = Part(i)
        BY <2>1, <4>1, AbortPart, ReadIndex
      <4>3. pc # "idle" /\ (clean' => clean) /\ broken' = broken
        BY <2>1
      <4> QED BY <2>1, <4>1, <4>2, <4>3, ReadingElse
    <3> QED BY <3>2, <3>3
  <2> QED BY <2>2, <2>3
<1>6. CASE Ready \/ GiveUp
  <2>1. /\ pc = "poll" /\ pc' = "fetch" /\ clean' \in {clean, FALSE}
        /\ clean' => req = NoRequest
        /\ UNCHANGED <<call, todo, done, buf, ok, broken, req, inbuf, regs, seen>>
    BY <1>6 DEF Ready, GiveUp
  <2>2. \A i : Part(i)' = Part(i)
    BY <2>1, SamePart
  <2>3. Steps("read")' = Steps("read") /\ (Arrived => Arrived')
    BY <2>1 DEF Steps, Arrived, Own, Size, Place, Step, PieceRead, PieceWrite
  <2>4. Request # NoRequest
    <3>1. Doing /\ Step.kind = "read" /\ done < Step.n
      BY <2>1 DEF Doing, Types, PlaceTypes
    <3>2. Step.n > 0
      BY <3>1, StepShape DEF Types, CallTypes, Transfers
    <3>3. Size # 0
      BY <3>1, <3>2, SizeFits
    <3> QED BY <3>1, <3>3 DEF Request, NoRequest
  <2>5. ASSUME ok', clean', ~broken'
        PROVE  /\ Arrived'
               /\ \A i \in Steps("read") : Len(buf') = Part(i)' /\ Own(buf, call.steps[i].reg)'
    <3>1. ok /\ clean /\ ~broken /\ pc # "idle"
      BY <2>1, <2>5
    <3>2. Arrived
      BY <2>1, <2>4, <2>5, <3>1 DEF Reading
    <3>3. \A i \in Steps("read") : Len(buf) = Part(i) /\ Own(buf, call.steps[i].reg)
      BY <3>1 DEF Reading
    <3> QED BY <2>1, <2>2, <2>3, <3>2, <3>3 DEF Own
  <2>6. regs' \in seen'
    BY <2>1 DEF Reading
  <2> QED BY <2>1, <2>3, <2>5, <2>6 DEF Reading
<1>7. CASE LsRead
  BY <1>7, LsReadReading
<1>8. CASE LsReadFails
  <2>1. /\ Doing /\ Abort /\ pc # "idle" /\ pc' = "write"
        /\ UNCHANGED <<call, buf, clean, broken, regs, seen>>
    BY <1>8 DEF LsReadFails, Abort, Doing, Types, PlaceTypes
  <2>2. ok' => ok /\ \A i \in Steps("read") : Part(i)' = Part(i)
    BY <2>1, AbortPart, ReadIndex
  <2> QED BY <2>1, <2>2, ReadingElse
<1>9. CASE CarryOut
  BY <1>9, CarryOutReading
<1>10. CASE BusFails
  BY <1>10 DEF BusFails, Reading
<1>11. ASSUME NEW v \in Level, Measure(v) PROVE Reading'
  <2>1. /\ UNCHANGED <<call, todo, pc, done, buf, ok, clean, broken, req, inbuf>>
        /\ DOMAIN regs' = DOMAIN regs
        /\ seen' = (IF pc = "idle" THEN {} ELSE seen \cup {regs'})
    BY <1>11 DEF Measure
  <2>2. CASE pc = "idle"
    BY <2>1, <2>2 DEF Reading
  <2>3. CASE pc # "idle"
    <3>1. seen \subseteq seen' /\ regs' \in seen'
      BY <2>1, <2>3
    <3>2. \A bytes, reg : Own(bytes, reg) => Own(bytes, reg)'
      BY <2>1, <3>1, OwnStays
    <3>3. \A i : Part(i)' = Part(i)
      BY <2>1, SamePart
    <3>4. Steps("read")' = Steps("read") /\ Size' = Size /\ Place' = Place /\ Request' = Request
      BY <2>1 DEF Steps, Request, Size, Place, Step, PieceRead, PieceWrite
    <3>5. Arrived => Arrived'
      BY <2>1, <3>1, <3>4 DEF Arrived, Own
    <3>6. \A i \in Steps("read") :
             Own(buf, call.steps[i].reg) => Own(buf, call.steps[i].reg)'
      BY <2>1, <3>2 DEF Own
    <3> QED BY <2>1, <3>1, <3>3, <3>4, <3>5, <3>6 DEF Reading
  <2> QED BY <2>2, <2>3
<1>12. CASE UNCHANGED vars
  <2>1. UNCHANGED <<call, todo, pc, done, buf, ok, clean, broken, req, inbuf, regs, seen>>
    BY <1>12 DEF vars
  <2>2. \A i : Part(i)' = Part(i)
    BY <2>1, SamePart
  <2>3. Steps("read")' = Steps("read") /\ Size' = Size /\ Place' = Place /\ Request' = Request
    BY <2>1 DEF Steps, Request, Size, Place, Step, PieceRead, PieceWrite
  <2>4. (Arrived => Arrived') /\ \A i \in Steps("read") :
           Own(buf, call.steps[i].reg) => Own(buf, call.steps[i].reg)'
    BY <2>1, <2>3 DEF Arrived, Own
  <2> QED BY <2>1, <2>2, <2>3, <2>4 DEF Reading
<1> QED BY <1>1, <1>2, <1>3, <1>4, <1>5, <1>6, <1>7, <1>8, <1>9, <1>10, <1>11, <1>12
        DEF Next, Program

-----------------------------------------------------------------------------
(* Writes.                                                                 *)

LEMMA PartTypes ==
  ASSUME Types, pc # "idle", NEW i \in DOMAIN call.steps
  PROVE  /\ i \in Nat \ {0} /\ call.steps[i] \in Transfers /\ Part(i) \in Nat
         /\ call.steps[i].reg \in Nat /\ call.steps[i].n \in Nat
         /\ i > Over + 1 => Part(i) = 0
<1>1. i \in Nat \ {0} /\ call.steps[i] \in Transfers /\ Over \in Nat
  BY CallShape
<1>2. call.steps[i].n \in Nat /\ call.steps[i].reg \in 0 .. 255 /\ done \in Nat
  BY <1>1 DEF Transfers, Registers, Types, CallTypes
<1>3. call.steps[i].reg \in Nat
  BY <1>2
<1> HIDE DEF Over
<1> QED BY <1>1, <1>2, <1>3 DEF Part

\* After the last write of a function come commands and reads.
LEMMA AfterLooked ==
  ASSUME Types, Doing, NEW i \in DOMAIN call.steps, Looked(i), Part(i) > 0, i # Over + 1
  PROVE  Step.kind # "write"
<1>1. Over + 1 \in DOMAIN call.steps /\ Step = call.steps[Over + 1] /\ Over \in Nat
  BY StepShape, CallShape DEF Doing
<1>2. i \in Nat /\ Part(i) \in Nat /\ (i > Over + 1 => Part(i) = 0)
  BY PartTypes DEF Doing
<1> HIDE DEF Over
<1>3. i < Over + 1
  BY <1>1, <1>2
<1>4. Over + 1 \notin Steps("write")
  BY <1>1, <1>2, <1>3 DEF Looked
<1> QED BY <1>1, <1>4 DEF Steps

\* Nothing changes for the writes of a function.
LEMMA WritingElse ==
  ASSUME Writing, pc # "idle", call' = call, ok' => ok, broken' = broken,
         UNCHANGED <<req, regs>>,
         ok' => \A i \in DOMAIN call.steps : Looked(i) => Part(i)' = Part(i)
  PROVE  Writing'
<1>1. \A i : Looked(i)' <=> Looked(i)
  BY DEF Looked, Steps
<1>2. SUFFICES ASSUME ok', ~broken', NEW i \in DOMAIN call.steps, Looked(i), Part(i)' > 0
               PROVE  /\ (Harmless \/ Puts(i))'
                      /\ \A j \in 1 .. Part(i)' :
                           LET r == call.steps[i].reg + j - 1
                           IN r \in Kept => (regs[r] = call.steps[i].data[j] \/ OnBus(r))'
  BY <1>1 DEF Writing
<1>3. Part(i)' = Part(i)
  BY <1>2
<1>4. /\ Harmless \/ Puts(i)
      /\ \A j \in 1 .. Part(i) :
           LET r == call.steps[i].reg + j - 1
           IN r \in Kept => regs[r] = call.steps[i].data[j] \/ OnBus(r)
  BY <1>2, <1>3 DEF Writing
<1>5. Harmless' = Harmless /\ Puts(i)' = Puts(i) /\ \A r : OnBus(r)' = OnBus(r)
  BY DEF Harmless, Puts, OnBus
<1> QED BY <1>3, <1>4, <1>5

\* A request is taken that leaves the registers of the writes alone.
LEMMA WritingHarmless ==
  ASSUME Writing, pc # "idle", call' = call, ok' => ok, broken' = broken,
         regs' = regs, req = NoRequest,
         ok' => \A i \in DOMAIN call.steps :
                  Looked(i) /\ Part(i)' > 0 => Part(i)' = Part(i) /\ Harmless'
  PROVE  Writing'
<1>1. \A i : Looked(i)' <=> Looked(i)
  BY DEF Looked, Steps
<1>2. SUFFICES ASSUME ok', ~broken', NEW i \in DOMAIN call.steps, Looked(i), Part(i)' > 0
               PROVE  /\ Harmless'
                      /\ \A j \in 1 .. Part(i)' :
                           LET r == call.steps[i].reg + j - 1
                           IN r \in Kept => regs'[r] = call.steps[i].data[j]
  BY <1>1 DEF Writing
<1>3. Part(i)' = Part(i) /\ Harmless'
  BY <1>2
<1>4. \A j \in 1 .. Part(i) :
        LET r == call.steps[i].reg + j - 1
        IN r \in Kept => regs[r] = call.steps[i].data[j] \/ OnBus(r)
  BY <1>2, <1>3 DEF Writing
<1>5. \A r : ~OnBus(r)
  BY DEF OnBus, Harmless, NoRequest
<1> QED BY <1>3, <1>4, <1>5

LEMMA StepTypes ==
  ASSUME Types, Doing
  PROVE  Step.reg \in Nat /\ Step.n \in Nat /\ done \in Nat
<1>1. Step.reg \in 0 .. 255 /\ Step.n \in Nat /\ done \in Nat
  BY StepShape DEF Transfers, Registers, Types, CallTypes
<1> QED BY <1>1

\* A piece of the last write is taken.
Piece == Doing /\ Step.kind = "write" /\ Step.n > 0
LEMMA WritingPiece ==
  ASSUME Types, Writing, Piece, Advance(Size, <<>>),
         call' = call, broken' = broken, regs' = regs, req = NoRequest, req' = Request
  PROVE  Writing'
<1>0. Doing
  BY DEF Piece
<1>1. Size \in Nat \ {0} /\ done \in Nat /\ done + Size <= Step.n
  BY SizeFits DEF Types, CallTypes, Piece
<1>2. /\ \A i \in Nat \ {0} : Part(i)' = IF i = Over + 1 THEN Part(i) + Size ELSE Part(i)
      /\ ok' = ok
  BY <1>0, <1>1, AdvancePart
<1>3. /\ Over + 1 \in DOMAIN call.steps /\ Step = call.steps[Over + 1] /\ Over \in Nat
      /\ Step \in Transfers /\ Sound(Step)
  BY <1>0, StepShape, CallShape DEF Doing
<1>4. Step.reg \in Nat /\ Step.n \in Nat
  BY <1>0, StepTypes
<1> HIDE DEF Over
<1>5. \A i : Looked(i)' <=> Looked(i)
  BY DEF Looked, Steps
<1>6. SUFFICES ASSUME ok, ~broken, NEW i \in DOMAIN call.steps, Looked(i), Part(i)' > 0
               PROVE  /\ (Harmless \/ Puts(i))'
                      /\ \A j \in 1 .. Part(i)' :
                           LET r == call.steps[i].reg + j - 1
                           IN r \in Kept => (regs[r] = call.steps[i].data[j] \/ OnBus(r))'
  BY <1>2, <1>5 DEF Writing
<1>7. i = Over + 1
  <2>1. i \in Nat \ {0}
    BY <1>0, PartTypes DEF Doing
  <2>2. SUFFICES ASSUME i # Over + 1 PROVE FALSE
    OBVIOUS
  <2>3. Part(i) > 0
    BY <1>2, <1>6, <2>1, <2>2
  <2> QED BY <1>0, <1>6, <2>2, <2>3, AfterLooked DEF Piece
<1>8. Part(i) = done /\ Part(i)' = done + Size
  <2>1. Part(i) = done
    BY <1>3, <1>7 DEF Part
  <2> QED BY <1>2, <1>3, <1>7, <2>1
<1>9. /\ req'.reg = Step.reg + done /\ Len(req'.data) = Size /\ req'.data # <<>>
      /\ \A k \in 1 .. Size : req'.data[k] = Step.data[done + k]
  BY <1>0, RequestFits DEF Piece
<1>10. Puts(i)'
  <2>1. ASSUME NEW k \in 1 .. Size
        PROVE  req'.reg - Step.reg + k <= Step.n
               /\ req'.data[k] = Step.data[req'.reg - Step.reg + k]
    <3>1. req'.reg - Step.reg + k = done + k /\ done + k <= Step.n
      BY <1>1, <1>4, <1>9, <2>1
    <3> QED BY <1>9, <2>1, <3>1
  <2>2. req'.reg >= Step.reg
    BY <1>1, <1>4, <1>9
  <2> QED BY <1>3, <1>7, <1>9, <2>1, <2>2 DEF Puts
<1>11. ~Harmless'
  <2>1. CmdRegister \notin Step.reg .. (Step.reg + Step.n - 1)
    BY <1>3 DEF Sound, Piece
  <2>2. req'.reg \in Step.reg .. (Step.reg + Step.n - 1)
    BY <1>1, <1>4, <1>9
  <2> QED BY <1>9, <2>1, <2>2 DEF Harmless
<1>12. ASSUME NEW j \in 1 .. Part(i)', NEW r \in Kept, r = Step.reg + j - 1
       PROVE  regs'[r] = Step.data[j] \/ OnBus(r)'
  <2>1. j \in 1 .. done + Size
    BY <1>8, <1>7, <1>12
  <2>2. CASE j <= done
    <3>1. Part(i) = done /\ done > 0 /\ j \in 1 .. done
      BY <1>1, <1>8, <1>7, <2>1, <2>2
    <3>2. \A l \in 1 .. Part(i) :
            call.steps[i].reg + l - 1 \in Kept =>
              \/ regs[call.steps[i].reg + l - 1] = call.steps[i].data[l]
              \/ OnBus(call.steps[i].reg + l - 1)
      BY <1>0, <1>6, <3>1 DEF Writing, Doing
    <3>3. regs[r] = Step.data[j] \/ OnBus(r)
      BY <1>3, <1>7, <1>12, <3>1, <3>2
    <3>4. ~OnBus(r)
      BY DEF OnBus, Harmless, NoRequest
    <3> QED BY <3>3, <3>4
  <2>3. CASE j > done
    <3>1. r - req'.reg + 1 \in 1 .. Size
      BY <1>1, <1>4, <1>9, <1>12, <2>1, <2>3
    <3> QED BY <1>9, <1>11, <3>1 DEF OnBus
  <2> QED BY <1>1, <2>1, <2>2, <2>3
<1> QED BY <1>3, <1>7, <1>10, <1>12

\* The bus puts the bytes of a request where they belong.
LEMMA WritingCarried ==
  ASSUME Types, Writing, CarryOut PROVE Writing'
<1>1. /\ UNCHANGED <<call, todo, pc, done, buf, ok, broken>> /\ req' = NoRequest
  BY DEF CarryOut, callVars
<1>2. \A i : Looked(i)' <=> Looked(i)
  BY <1>1 DEF Looked, Steps
<1>3. \A i : Part(i)' = Part(i)
  BY <1>1, SamePart
<1>4. SUFFICES ASSUME pc # "idle", ok, ~broken, NEW i \in DOMAIN call.steps, Looked(i), Part(i) > 0,
                      NEW j \in 1 .. Part(i), NEW r \in Kept, r = call.steps[i].reg + j - 1
               PROVE  regs'[r] = call.steps[i].data[j]
  <2>1. Harmless'
    BY <1>1 DEF Harmless, NoRequest
  <2> QED BY <1>1, <1>2, <1>3, <2>1 DEF Writing
<1>5. /\ Harmless \/ Puts(i)
      /\ regs[r] = call.steps[i].data[j] \/ OnBus(r)
  <2>1. /\ Harmless \/ Puts(i)
        /\ \A l \in 1 .. Part(i) :
             call.steps[i].reg + l - 1 \in Kept =>
               \/ regs[call.steps[i].reg + l - 1] = call.steps[i].data[l]
               \/ OnBus(call.steps[i].reg + l - 1)
    BY <1>4 DEF Writing
  <2> QED BY <1>4, <2>1
<1>6. r \in DOMAIN regs /\ req.data \in Seq(0 .. 255)
  BY RequestFields DEF Types, BusTypes
<1>7. CASE req.reg = CmdRegister /\ req.data # <<>>
  BY <1>5, <1>7 DEF CarryOut, OnBus, Harmless
<1>8. CASE ~(req.reg = CmdRegister /\ req.data # <<>>)
  <2>1. regs'[r] = IF r - req.reg + 1 \in 1 .. Len(req.data)
                   THEN req.data[r - req.reg + 1] ELSE regs[r]
    BY <1>6, <1>8 DEF CarryOut
  <2>2. CASE r - req.reg + 1 \in 1 .. Len(req.data)
    <3>1. req.data # <<>> /\ ~Harmless
      BY <1>8, <2>2 DEF Harmless
    <3>2. Puts(i)
      BY <1>5, <3>1
    <3>3. req.data[r - req.reg + 1] =
            call.steps[i].data[req.reg - call.steps[i].reg + (r - req.reg + 1)]
      BY <2>2, <3>2 DEF Puts
    <3>4. req.reg - call.steps[i].reg + (r - req.reg + 1) = j
      <4>1. req.reg \in Nat /\ call.steps[i].reg \in Nat /\ j \in Nat
        BY <1>4, RequestFields, PartTypes
      <4> QED BY <1>4, <4>1
    <3> QED BY <2>1, <2>2, <3>3, <3>4
  <2>3. CASE r - req.reg + 1 \notin 1 .. Len(req.data)
    BY <1>5, <2>1, <2>3 DEF OnBus
  <2> QED BY <2>2, <2>3
<1> QED BY <1>7, <1>8

LEMMA LsWriteWriting ==
  ASSUME Types, Writing, NEW taken \in BOOLEAN, NEW reply \in BOOLEAN, LsWrite(taken, reply)
  PROVE  Writing'
<1>1. /\ Doing /\ Step.kind # "refuse" /\ Step.n > 0 /\ pc # "idle"
      /\ UNCHANGED <<call, regs, broken>>
      /\ reply => taken
      /\ taken => req = NoRequest /\ req' = Request
      /\ ~taken => req' = req
  BY DEF LsWrite, Sending, Doing
<1>2. CASE Step.kind = "read"
  <2>1. UNCHANGED <<call, todo, done, ok>>
    BY <1>1, <1>2 DEF LsWrite
  <2>2. \A i : Part(i)' = Part(i)
    BY <2>1, SamePart
  <2>3. taken => Harmless'
    BY <1>1, <1>2 DEF Request, Harmless
  <2> QED BY <1>1, <2>1, <2>2, <2>3, WritingElse, WritingHarmless
<1>3. CASE Step.kind # "read"
  <2>1. PieceWritten(reply)
    BY <1>3 DEF LsWrite
  <2>2. Step.kind # "write" /\ taken => Harmless'
    <3>1. SUFFICES ASSUME Step.kind # "write", taken PROVE req'.reg = CmdRegister
      BY DEF Harmless
    <3>2. Step.kind = "cmd" /\ Sound(Step)
      BY <1>1, <1>3, <3>1, StepShape DEF Transfers
    <3>3. Step.reg = CmdRegister /\ Step.n = 1
      BY <3>2 DEF Sound
    <3>4. done < Step.n /\ done \in Nat
      BY <1>1, SizeFits, StepTypes
    <3>5. done = 0
      BY <3>3, <3>4
    <3> QED BY <1>1, <3>1, <3>3, <3>5 DEF Request, Place, CmdRegister
  <2>3. CASE reply
    <3>1. Advance(Size, <<>>) /\ taken
      BY <1>1, <2>1, <2>3 DEF PieceWritten
    <3>2. CASE Step.kind = "write"
      BY <1>1, <3>1, <3>2, WritingPiece DEF Piece
    <3>3. CASE Step.kind # "write"
      <4>1. Size \in Nat /\ done + Size <= Step.n
        BY <1>1, SizeFits
      <4>2. ok' = ok /\ \A i \in Nat \ {0} : Part(i)' = IF i = Over + 1 THEN Part(i) + Size ELSE Part(i)
        BY <1>1, <3>1, <4>1, AdvancePart
      <4>3. ASSUME NEW i \in DOMAIN call.steps, Looked(i)
            PROVE  Part(i)' = Part(i)
        <5>1. i # Over + 1
          BY <1>1, <3>3, <4>3, StepShape DEF Looked, Steps
        <5> QED BY <1>1, <4>2, <5>1, PartTypes
      <4> QED BY <1>1, <2>2, <3>1, <3>3, <4>2, <4>3, WritingHarmless
    <3> QED BY <3>2, <3>3
  <2>4. CASE ~reply
    <3>1. Abort
      BY <2>1, <2>4 DEF PieceWritten
    <3>2. ASSUME ok', NEW i \in DOMAIN call.steps, Looked(i)
          PROVE  i # Over + 1 /\ Part(i)' = Part(i)
      <4>1. i # Over + 1
        BY <1>1, <3>1, <3>2, AbortPart, StepShape DEF Looked
      <4> QED BY <1>1, <3>1, <3>2, <4>1, AbortPart, PartTypes
    <3>3. ok' => ok
      BY <1>1, <3>1, AbortPart
    <3>4. CASE ~taken
      BY <1>1, <3>2, <3>3, <3>4, WritingElse
    <3>5. CASE taken
      <4>1. ASSUME ok', NEW i \in DOMAIN call.steps, Looked(i), Part(i)' > 0
            PROVE  Part(i)' = Part(i) /\ Harmless'
        <5>1. i # Over + 1 /\ Part(i)' = Part(i)
          BY <3>2, <4>1
        <5>2. Step.kind # "write"
          BY <1>1, <4>1, <5>1, AfterLooked
        <5> QED BY <2>2, <3>5, <5>1, <5>2
      <4> QED BY <1>1, <3>3, <3>5, <4>1, WritingHarmless
    <3> QED BY <3>4, <3>5
  <2> QED BY <2>3, <2>4
<1> QED BY <1>2, <1>3

LEMMA InitWriting == Init => Writing
BY DEF Init, Writing

LEMMA NextWriting ==
  ASSUME Types, Writing, [Next]_vars PROVE Writing'
<1> USE DEF busVars, callVars
<1>1. ASSUME NEW c \in Calls, Begin(c) PROVE Writing'
  <2>1. call' = c /\ todo' = c.steps /\ done' = 0
    BY <1>1 DEF Begin
  <2>2. Over' = 0
    <3>1. Len(c.steps) \in Nat
      BY CallsAssumption, LenProperties DEF Proper
    <3> QED BY <2>1, <3>1 DEF Over
  <2>3. ASSUME NEW i \in DOMAIN call'.steps PROVE ~(Part(i)' > 0)
    <3>1. i \in Nat \ {0}
      <4>1. i \in DOMAIN c.steps /\ c.steps \in Seq(Transfers)
        BY <2>1, <2>3, CallsAssumption DEF Proper
      <4> QED BY <4>1
    <3>2. Part(i)' = 0
      BY <2>1, <2>2, <3>1 DEF Part
    <3> QED BY <3>2
  <2> QED BY <2>3 DEF Writing
<1>2. CASE Return
  BY <1>2 DEF Return, Writing
<1>3. CASE Refused \/ LsReadFails
  <2>1. /\ Doing /\ Abort /\ pc # "idle" /\ UNCHANGED <<call, broken, req, regs>>
    BY <1>3 DEF Refused, LsReadFails, Doing, Types, PlaceTypes
  <2>2. ASSUME ok', NEW i \in DOMAIN call.steps, Looked(i) PROVE Part(i)' = Part(i)
    <3>1. i # Over + 1
      BY <2>1, <2>2, AbortPart, StepShape DEF Looked
    <3> QED BY <2>1, <2>2, <3>1, AbortPart, PartTypes
  <2>3. ok' => ok
    BY <2>1, AbortPart
  <2> QED BY <2>1, <2>2, <2>3, WritingElse
<1>4. CASE NothingToDo
  <2>1. /\ Doing /\ Advance(0, <<>>) /\ pc # "idle" /\ Step.n = 0
        /\ UNCHANGED <<call, broken, req, regs>>
    BY <1>4 DEF NothingToDo, Doing
  <2>2. done + 0 <= Step.n
    BY <2>1 DEF Types, CallTypes, Doing
  <2>3. ok' = ok /\ \A i \in Nat \ {0} : Part(i)' = IF i = Over + 1 THEN Part(i) + 0 ELSE Part(i)
    BY <2>1, <2>2, AdvancePart
  <2>4. ASSUME NEW i \in DOMAIN call.steps PROVE Part(i)' = Part(i)
    <3>1. i \in Nat \ {0} /\ Part(i) \in Nat
      BY <2>1, PartTypes
    <3> QED BY <2>3, <3>1
  <2> QED BY <2>1, <2>3, <2>4, WritingElse
<1>5. ASSUME NEW taken \in BOOLEAN, NEW reply \in BOOLEAN, LsWrite(taken, reply) PROVE Writing'
  BY <1>5, LsWriteWriting
<1>6. CASE Ready \/ GiveUp
  <2>1. pc # "idle" /\ UNCHANGED <<call, todo, done, ok, broken, req, regs>>
    BY <1>6 DEF Ready, GiveUp
  <2> QED BY <2>1, SamePart, WritingElse
<1>7. CASE LsRead
  <2>1. /\ Doing /\ pc # "idle" /\ Step.kind = "read" /\ done < Step.n
        /\ Advance(Size, Pad(inbuf, Size)) /\ UNCHANGED <<call, broken, req, regs>>
    BY <1>7 DEF LsRead, Doing, Types, PlaceTypes
  <2>2. Size \in Nat /\ done + Size <= Step.n
    <3>1. Step.n > 0
      BY <2>1, StepTypes
    <3> QED BY <2>1, <3>1, SizeFits
  <2>3. ok' = ok /\ \A i \in Nat \ {0} : Part(i)' = IF i = Over + 1 THEN Part(i) + Size ELSE Part(i)
    BY <2>1, <2>2, AdvancePart
  <2>4. ASSUME NEW i \in DOMAIN call.steps, Looked(i) PROVE Part(i)' = Part(i)
    <3>1. i # Over + 1
      BY <2>1, <2>4, StepShape DEF Looked, Steps
    <3> QED BY <2>1, <2>3, <3>1, PartTypes
  <2> QED BY <2>1, <2>3, <2>4, WritingElse
<1>8. CASE CarryOut
  BY <1>8, WritingCarried
<1>9. CASE BusFails
  BY <1>9 DEF BusFails, Writing
<1>10. ASSUME NEW v \in Level, Measure(v) PROVE Writing'
  <2>1. /\ UNCHANGED <<call, todo, pc, done, buf, ok, broken, req>>
        /\ \A r \in Kept : regs'[r] = regs[r]
    <3>1. DOMAIN regs = Live \cup Kept
      BY DEF Types, BusTypes
    <3> QED BY <1>10, <3>1, I2CAssumption DEF Measure
  <2>2. \A i : Part(i)' = Part(i)
    BY <2>1, SamePart
  <2>3. /\ \A i : Looked(i)' <=> Looked(i)
        /\ Harmless' = Harmless /\ \A i : Puts(i)' = Puts(i)
        /\ \A r : OnBus(r)' = OnBus(r)
    BY <2>1 DEF Looked, Steps, Harmless, Puts, OnBus
  <2> QED BY <2>1, <2>2, <2>3 DEF Writing
<1>11. CASE UNCHANGED vars
  <2>1. UNCHANGED <<call, todo, pc, done, buf, ok, broken, req, regs>>
    BY <1>11 DEF vars
  <2>2. pc = "idle" => Writing'
    BY <2>1 DEF Writing
  <2> QED BY <2>1, <2>2, SamePart, WritingElse
<1> QED BY <1>1, <1>2, <1>3, <1>4, <1>5, <1>6, <1>7, <1>8, <1>9, <1>10, <1>11
        DEF Next, Program

-----------------------------------------------------------------------------
(* The change of the address.                                              *)

\* A function that changes the address is under way: four commands.
Changing == pc # "idle" /\ call.name = "set_i2caddr"

LEMMA ChangingShape ==
  ASSUME Types, Changing
  PROVE  /\ call.addr # 160 /\ Len(call.steps) = 4 /\ Over \in 0 .. 4
         /\ \A i \in 1 .. 4 :
              /\ call.steps[i].kind = "cmd" /\ call.steps[i].needed
              /\ call.steps[i].n = 1 /\ call.steps[i].reg = CmdRegister
              /\ call.steps[i].data # <<>> /\ Len(call.steps[i].data) = 1
         /\ call.steps[1].data = <<160>> /\ call.steps[2].data = <<170>>
         /\ call.steps[3].data = <<165>>
<1>1. Proper(call) /\ Over \in Nat /\ Over <= Len(call.steps)
  BY CallShape DEF Changing
<1>2. PICK new \in 0 .. 255 : call.steps = ChangeAddress(call.addr, new).steps /\ call.addr # 160
  BY <1>1 DEF Proper, Changing
<1>3. call.steps = <<Cmd(160), Cmd(170), Cmd(165), Cmd(new)>>
  BY <1>2 DEF ChangeAddress, Call
<1>4. \A c : /\ Cmd(c).kind = "cmd" /\ Cmd(c).needed /\ Cmd(c).n = 1
             /\ Cmd(c).reg = CmdRegister /\ Cmd(c).data = <<c>>
             /\ Cmd(c).data # <<>> /\ Len(Cmd(c).data) = 1
  BY DEF Cmd, Transfer
<1>5. Len(call.steps) = 4
  BY <1>3
<1>6. /\ call.steps[1] = Cmd(160) /\ call.steps[2] = Cmd(170)
      /\ call.steps[3] = Cmd(165) /\ call.steps[4] = Cmd(new)
  BY <1>3
<1>7. Over \in 0 .. 4
  <2> HIDE DEF Over
  <2> QED BY <1>1, <1>5
<1>8. \A i \in 1 .. 4 : \E c : call.steps[i] = Cmd(c)
  <2>1. \A i \in 1 .. 4 : i = 1 \/ i = 2 \/ i = 3 \/ i = 4
    OBVIOUS
  <2> QED BY <1>6, <2>1
<1>9. \A i \in 1 .. 4 :
        /\ call.steps[i].kind = "cmd" /\ call.steps[i].needed
        /\ call.steps[i].n = 1 /\ call.steps[i].reg = CmdRegister
        /\ call.steps[i].data # <<>> /\ Len(call.steps[i].data) = 1
  BY <1>4, <1>8
<1>10. /\ call.steps[1].data = <<160>> /\ call.steps[2].data = <<170>>
       /\ call.steps[3].data = <<165>>
  BY <1>4, <1>6
<1> QED BY <1>2, <1>5, <1>7, <1>9, <1>10

\* The step under way is one of the commands.
LEMMA ChangingStep ==
  ASSUME Types, Changing, Doing
  PROVE  /\ Step.kind = "cmd" /\ Step.needed /\ Step.n = 1 /\ Step.reg = CmdRegister
         /\ Len(Step.data) = 1 /\ done = 0
<1>1. Over + 1 \in DOMAIN call.steps /\ Step = call.steps[Over + 1]
  BY StepShape
<1>2. DOMAIN call.steps = 1 .. 4
  BY CallShape, ChangingShape DEF Changing
<1>3. /\ Step.kind = "cmd" /\ Step.needed /\ Step.n = 1 /\ Step.reg = CmdRegister
      /\ Len(Step.data) = 1
  BY <1>1, <1>2, ChangingShape
<1>4. done \in Nat /\ (done = 0 \/ done < Step.n)
  BY DEF Types, CallTypes, Doing
<1>5. done = 0
  <2>1. \A n : n = 1 /\ done < n => done = 0
    BY <1>4
  <2> QED BY <1>3, <1>4, <2>1
<1> QED BY <1>3, <1>5

\* Nothing changes for it.
LEMMA AddressingElse ==
  ASSUME Addressing, pc # "idle", UNCHANGED <<call, todo, req, at, lock>>, ok' => ok,
         broken' = broken
  PROVE  Addressing'
BY DEF Addressing, Carried, Over

LEMMA LsWriteAddressing ==
  ASSUME Types, Addressing, Changing, NEW taken \in BOOLEAN, NEW reply \in BOOLEAN,
         LsWrite(taken, reply)
  PROVE  Addressing'
<1>1. /\ Doing /\ UNCHANGED <<call, at, lock, broken>>
      /\ reply => taken
      /\ taken => req = NoRequest /\ req' = Request
  BY DEF LsWrite, Sending, Doing
<1>2. /\ Step.kind = "cmd" /\ Step.needed /\ Step.n = 1 /\ Step.reg = CmdRegister
      /\ Len(Step.data) = 1 /\ done = 0
  BY <1>1, ChangingStep
<1>3. PieceWritten(reply)
  BY <1>2 DEF LsWrite
<1>4. CASE ~reply
  <2>1. ~ok'
    BY <1>2, <1>3, <1>4 DEF PieceWritten, Abort
  <2> QED BY <2>1 DEF Addressing
<1>5. CASE reply
  <2>1. Advance(Size, <<>>) /\ req = NoRequest /\ req' = Request /\ Size = 1
    <3>1. Size = 1
      BY <1>2 DEF Size, Least, PieceWrite
    <3> QED BY <1>1, <1>3, <1>5, <3>1 DEF PieceWritten
  <2>2. todo' = Tail(todo) /\ ok' = ok
    BY <1>2, <2>1 DEF Advance
  <2>3. Over' = Over + 1 /\ Over \in Nat /\ Step = call.steps[Over + 1]
    BY <1>1, <2>2, TailOver, StepShape, CallShape DEF Doing
  <2>4. Step.n > 0 /\ Step.kind # "refuse" /\ Step.kind # "read"
    <3>1. \A n : n = 1 => n > 0
      OBVIOUS
    <3> QED BY <1>2, <3>1
  <2>5. /\ req'.addr = call.addr /\ req'.reg = Step.reg + done
        /\ Len(req'.data) = Size /\ req'.data # <<>> /\ req'.data \in Seq(0 .. 255)
        /\ \A k \in 1 .. Size : req'.data[k] = Step.data[done + k]
    BY <1>1, <2>1, <2>4, RequestFits DEF Requests
  <2>6. req'.reg = CmdRegister
    <3>1. \A r : r = CmdRegister => r + 0 = CmdRegister
      BY DEF CmdRegister
    <3> QED BY <1>2, <2>5, <3>1
  <2>7. req'.data = Step.data
    <3>1. Step.data \in Seq(0 .. 255)
      BY <1>1, StepShape DEF Transfers
    <3>2. req'.data[1] = Step.data[1] /\ Len(req'.data) = 1
      BY <1>2, <2>1, <2>5
    <3>3. \A k \in 1 .. 1 : req'.data[k] = Step.data[k]
      BY <3>2
    <3> QED BY <1>2, <2>5, <3>1, <3>2, <3>3, SeqEqual
  <2>8. req' # NoRequest
    BY <2>5 DEF NoRequest
  <2> HIDE DEF Over
  <2>9. Carried' = Over /\ Carried = Over
    BY <2>1, <2>3, <2>8 DEF Carried
  <2>10. SUFFICES ASSUME ok, ~broken
                  PROVE  /\ req'.addr = call.addr /\ req'.reg = CmdRegister
                         /\ req'.data = call.steps[Over'].data
                         /\ Over = 1 => lock = 1 \/ at # call.addr
                         /\ Over \in {2, 3} => lock = Over
                         /\ Over = 4 => at = call.steps[4].data[1]
    BY <1>1, <2>2, <2>9 DEF Addressing
  <2>11. Over > 0 => /\ Over = 1 => lock = 1 \/ at # call.addr
                     /\ Over \in {2, 3} => lock = Over
                     /\ Over = 4 => at = call.steps[4].data[1]
    BY <2>9, <2>10 DEF Addressing, Changing
  <2>12. Over \in {1, 2, 3, 4} => Over > 0
    BY <2>3
  <2> QED BY <2>3, <2>5, <2>6, <2>7, <2>11, <2>12
<1> QED BY <1>4, <1>5

LEMMA CarryOutAddressing ==
  ASSUME Types, Addressing, Changing, CarryOut
  PROVE  Addressing'
<1>1. /\ UNCHANGED <<call, todo, pc, done, ok, broken>>
      /\ req # NoRequest /\ req.addr = at /\ req' = NoRequest /\ Over' = Over
  BY DEF CarryOut, callVars, Over
<1>2. SUFFICES ASSUME ok, ~broken, Over > 0
               PROVE  /\ Over = 1 => lock' = 1 \/ at' # call.addr
                      /\ Over \in {2, 3} => lock' = Over
                      /\ Over = 4 => at' = call.steps[4].data[1]
  <2>1. Carried' = Over
    BY <1>1 DEF Carried
  <2> QED BY <1>1, <2>1 DEF Addressing
<1>3. /\ req.addr = call.addr /\ req.reg = CmdRegister /\ req.data = call.steps[Over].data
      /\ Over \in Nat /\ Carried = Over - 1
      /\ Over - 1 = 1 => lock = 1 \/ at # call.addr
      /\ Over - 1 \in {2, 3} => lock = Over - 1
  BY <1>1, <1>2, CallShape DEF Addressing, Carried, Changing
<1>4. /\ Over \in 1 .. 4 /\ call.addr # 160 /\ call.steps[Over].data # <<>>
      /\ call.steps[1].data = <<160>> /\ call.steps[2].data = <<170>>
      /\ call.steps[3].data = <<165>>
  <2>1. Over \in 1 .. 4
    <3>1. Over \in 0 .. 4
      BY ChangingShape
    <3> HIDE DEF Over
    <3> QED BY <1>2, <3>1
  <2> QED BY <2>1, ChangingShape
<1>5. /\ lock = 3 => at' = req.data[1] /\ lock' = 0
      /\ lock # 3 => /\ lock' = (IF req.data[1] = Sequence[lock + 1] THEN lock + 1
                                 ELSE IF req.data[1] = Sequence[1] THEN 1 ELSE 0)
                     /\ at' = at
  BY <1>3, <1>4 DEF CarryOut
<1>6. lock \in 0 .. 3 /\ Sequence[1] = 160 /\ Sequence[2] = 170 /\ Sequence[3] = 165
  BY DEF Types, BusTypes, Sequence
<1> HIDE DEF Over
<1>7. CASE Over = 1
  <2>1. req.data[1] = 160
    BY <1>3, <1>4, <1>7
  <2>2. CASE lock = 3
    BY <1>4, <1>5, <1>7, <2>1, <2>2
  <2>3. CASE lock # 3
    <3>1. lock = 0 \/ lock = 1 \/ lock = 2
      BY <1>6, <2>3
    <3>2. lock' = 1
      BY <1>5, <1>6, <2>1, <2>3, <3>1
    <3> QED BY <1>7, <3>2
  <2> QED BY <2>2, <2>3
<1>8. CASE Over = 2
  <2>1. lock = 1 /\ req.data[1] = 170
    BY <1>1, <1>3, <1>4, <1>8
  <2> QED BY <1>5, <1>6, <1>8, <2>1
<1>9. CASE Over = 3
  <2>1. lock = 2 /\ req.data[1] = 165
    BY <1>3, <1>4, <1>9
  <2> QED BY <1>5, <1>6, <1>9, <2>1
<1>10. CASE Over = 4
  <2>1. lock = 3 /\ req.data = call.steps[4].data
    BY <1>3, <1>10
  <2> QED BY <1>5, <1>10, <2>1
<1> QED BY <1>4, <1>7, <1>8, <1>9, <1>10

LEMMA InitAddressing == Init => Addressing
BY DEF Init, Addressing

LEMMA NextAddressing ==
  ASSUME Types, Addressing, [Next]_vars PROVE Addressing'
<1> USE DEF busVars, callVars
<1>1. ASSUME NEW c \in Calls, Begin(c) PROVE Addressing'
  <2>1. call' = c /\ todo' = c.steps
    BY <1>1 DEF Begin
  <2>2. ~(Over' > 0)
    <3>1. Len(c.steps) \in Nat
      BY CallsAssumption, LenProperties DEF Proper
    <3> QED BY <2>1, <3>1 DEF Over
  <2> QED BY <2>2 DEF Addressing
<1>2. CASE Return
  BY <1>2 DEF Return, Addressing
<1>3. CASE pc = "idle" /\ pc' = "idle"
  BY <1>3 DEF Addressing
<1>4. ASSUME pc # "idle", Program, ~Return PROVE Addressing'
  <2>1. call' = call
    BY <1>4 DEF Program, Refused, NothingToDo, LsWrite, Ready, GiveUp, LsRead, LsReadFails
  <2>2. CASE call.name # "set_i2caddr"
    BY <2>1, <2>2 DEF Addressing
  <2>3. CASE call.name = "set_i2caddr"
    <3>1. Changing
      BY <1>4, <2>3 DEF Changing
    <3>2. /\ ~Refused /\ ~NothingToDo
      BY <3>1, ChangingStep DEF Refused, NothingToDo, Doing
    <3>3. pc \notin {"poll", "fetch"}
      BY <3>1, ChangingStep DEF Types, PlaceTypes, Doing
    <3>4. \E taken, reply \in BOOLEAN : LsWrite(taken, reply)
      BY <1>4, <3>2, <3>3 DEF Program, Ready, GiveUp, LsRead, LsReadFails
    <3> QED BY <3>1, <3>4, LsWriteAddressing
  <2> QED BY <2>2, <2>3
<1>5. CASE CarryOut
  <2>1. UNCHANGED <<call, pc>>
    BY <1>5 DEF CarryOut
  <2>2. CASE Changing
    BY <1>5, <2>2, CarryOutAddressing
  <2>3. CASE ~Changing
    BY <2>1, <2>3 DEF Changing, Addressing
  <2> QED BY <2>2, <2>3
<1>6. CASE BusFails
  BY <1>6 DEF BusFails, Addressing
<1>7. CASE (\E v \in Level : Measure(v)) \/ UNCHANGED vars
  <2>1. UNCHANGED <<pc, call, todo, req, at, lock, ok, broken>>
    BY <1>7 DEF Measure, vars
  <2> QED BY <1>3, <2>1, AddressingElse
<1>8. Program /\ pc = "idle" => FALSE
  BY DEF Program, Return, Refused, NothingToDo, LsWrite, Sending, Ready, GiveUp, LsRead, LsReadFails
<1> QED BY <1>1, <1>2, <1>4, <1>5, <1>6, <1>7, <1>8 DEF Next

-----------------------------------------------------------------------------
(* The theorems.                                                           *)

LEMMA InitTInv == Init => TInv
BY InitTypes, InitReading, InitWriting, InitAddressing DEF TInv

LEMMA NextTInv == TInv /\ [Next]_vars => TInv'
BY NextTypes, NextReading, NextWriting, NextAddressing DEF TInv

\* A function is over when all its transfers are.
LEMMA FinishedShape ==
  ASSUME Types, Finished
  PROVE  /\ pc # "idle" /\ Proper(call) /\ Over = Len(call.steps)
         /\ \A i \in DOMAIN call.steps : i \in Nat \ {0} /\ Part(i) = call.steps[i].n
<1>1. pc # "idle" /\ todo = <<>>
  BY DEF Finished
<1>2. /\ Proper(call) /\ Len(call.steps) \in Nat /\ DOMAIN call.steps = 1 .. Len(call.steps)
  BY <1>1, CallShape
<1>3. Over = Len(call.steps)
  BY <1>1, <1>2 DEF Over
<1> HIDE DEF Over
<1> QED BY <1>1, <1>2, <1>3 DEF Part

LEMMA TypesHold == Types => TypeOK
<1> SUFFICES ASSUME Types PROVE TypeOK
  OBVIOUS
<1>1. Sending => Fits(Request)
  BY RequestFits DEF Sending, Doing
<1>2. {ok, clean, broken} \subseteq BOOLEAN
  BY Zenon DEF Types, PlaceTypes, CallTypes
<1> QED BY <1>1, <1>2 DEF TypeOK, Types, PlaceTypes, CallTypes, BusTypes

LEMMA OwnHolds == Types /\ Reading => OwnBytes
<1> SUFFICES ASSUME Types, Reading, Finished, ok, clean, ~broken, NEW i \in Steps("read")
             PROVE  /\ Len(buf) = call.steps[i].n
                    /\ \A j \in 1 .. Len(buf) :
                         LET r == call.steps[i].reg + j - 1
                         IN r \in DOMAIN regs => \E s \in seen : buf[j] = s[r]
  BY DEF OwnBytes
<1>1. pc # "idle" /\ Part(i) = call.steps[i].n
  BY FinishedShape DEF Steps
<1>2. Len(buf) = Part(i) /\ Own(buf, call.steps[i].reg)
  BY <1>1 DEF Reading
<1> QED BY <1>1, <1>2 DEF Own

LEMMA WrittenHolds == Types /\ Writing /\ Addressing => Written
<1> SUFFICES ASSUME Types, Writing, Addressing, Finished, ok, ~broken, req = NoRequest
             PROVE  /\ \A i \in Steps("write") : \A j \in 1 .. call.steps[i].n :
                         LET r == call.steps[i].reg + j - 1
                         IN r \in Kept /\ call.steps[i].needed
                              /\ (\A k \in Steps("write") : k <= i)
                              => regs[r] = call.steps[i].data[j]
                    /\ call.name = "set_i2caddr" => at = call.steps[4].data[1]
                    /\ call.name \in DOMAIN Setters =>
                         regs[Setters[call.name]] = call.steps[1].data[1]
  BY DEF Written
<1>1. pc # "idle" /\ Proper(call)
  BY FinishedShape
<1>2. ASSUME NEW i \in Steps("write"), Looked(i), NEW j \in 1 .. call.steps[i].n,
             call.steps[i].reg + j - 1 \in Kept
      PROVE  regs[call.steps[i].reg + j - 1] = call.steps[i].data[j]
  <2>1. i \in DOMAIN call.steps /\ Part(i) = call.steps[i].n
    BY FinishedShape DEF Steps
  <2>2. Part(i) > 0
    <3>1. Part(i) \in Nat
      BY <1>1, <2>1, PartTypes
    <3> QED BY <1>2, <2>1, <3>1
  <2>3. \/ regs[call.steps[i].reg + j - 1] = call.steps[i].data[j]
        \/ OnBus(call.steps[i].reg + j - 1)
    BY <1>1, <1>2, <2>1, <2>2 DEF Writing
  <2>4. ~OnBus(call.steps[i].reg + j - 1)
    BY DEF OnBus, Harmless, NoRequest
  <2> QED BY <2>3, <2>4
<1>3. ASSUME call.name = "set_i2caddr" PROVE at = call.steps[4].data[1]
  <2>1. Over = 4
    BY <1>1, <1>3, ChangingShape, FinishedShape DEF Changing
  <2>2. Carried = 4 /\ Over > 0
    BY <2>1 DEF Carried
  <2> QED BY <1>1, <1>3, <2>2 DEF Addressing
<1>4. ASSUME call.name \in DOMAIN Setters
      PROVE  regs[Setters[call.name]] = call.steps[1].data[1]
  <2> DEFINE r == Setters[call.name]
  <2>1. r \in Kept
    BY <1>1, <1>4 DEF Proper
  <2>2. PICK b \in 0 .. 255 : call.steps = <<Write(r, <<b>>)>>
    BY <1>1, <1>4 DEF Proper
  <2>3. /\ Len(call.steps) = 1 /\ DOMAIN call.steps = {1}
        /\ call.steps[1].kind = "write" /\ call.steps[1].needed
        /\ call.steps[1].reg = r /\ call.steps[1].n = 1
    <3>1. /\ Len(call.steps) = 1 /\ DOMAIN call.steps = {1}
          /\ call.steps[1] = Write(r, <<b>>)
      BY <2>2
    <3>2. Len(<<b>>) = 1
      OBVIOUS
    <3> HIDE DEF r
    <3> QED BY <3>1, <3>2 DEF Write, Transfer
  <2>4. r \in Nat
    <3>1. r \in 0 .. 255
      BY <2>1, I2CAssumption
    <3> QED BY <3>1
  <2> HIDE DEF r
  <2>5. 1 \in Steps("write") /\ Looked(1)
    BY <2>3 DEF Looked, Steps
  <2>6. 1 \in 1 .. call.steps[1].n /\ call.steps[1].reg + 1 - 1 = r
    BY <2>3, <2>4
  <2>7. regs[r] = call.steps[1].data[1]
    BY <1>2, <2>1, <2>5, <2>6
  <2> QED BY <2>7 DEF r
<1> QED BY <1>2, <1>3, <1>4 DEF Looked

\* The variables have their types, and no piece of a transfer is longer than
\* what nxt_ls_write takes, for functions of any shape that is proper.
THEOREM I2CTypes == Spec => []TypeOK
<1>1. Init => TInv
  BY InitTInv
<1>2. TInv /\ [Next]_vars => TInv'
  BY NextTInv
<1>3. TInv => TypeOK
  BY TypesHold DEF TInv
<1> QED BY <1>1, <1>2, <1>3, PTL DEF Spec

\* What a function has read is what was in the registers while it ran, unless a
\* request was refused or lost or a wait of nxt_i2c_read_low given up.
THEOREM BytesAreOwn == Spec => []OwnBytes
<1>1. Init => TInv
  BY InitTInv
<1>2. TInv /\ [Next]_vars => TInv'
  BY NextTInv
<1>3. TInv => OwnBytes
  BY OwnHolds DEF TInv
<1> QED BY <1>1, <1>2, <1>3, PTL DEF Spec

\* What CallsAssumption says of the setters of the ultrasonic sensor is true of
\* the code: each of Setters writes its byte to the register that its getter
\* reads.  The fourth setter is left out of them: that of the divisor writes to
\* the register of the interval.
THEOREM SettersFitGetters ==
  ASSUME NEW bytes \in SUBSET (0 .. 255), NEW commands, NEW c \in UsCalls(bytes, commands)
  PROVE  /\ c.name \in DOMAIN Setters =>
              \E b \in bytes : c.steps = <<Write(Setters[c.name], <<b>>)>>
         /\ c.name = "us_set_actual_scale_divisor" =>
              \E b \in bytes : c.steps = <<Write(UsByte.us_get_meas_interval, <<b>>)>>
<1>1. ASSUME NEW f \in DOMAIN UsSetting, NEW b \in bytes,
             c = Call(f, Default, <<Write(UsSetting[f], <<b>>)>>)
      PROVE  /\ f \in DOMAIN Setters => c.steps = <<Write(Setters[f], <<b>>)>>
             /\ f = "us_set_actual_scale_divisor" =>
                  c.steps = <<Write(UsByte.us_get_meas_interval, <<b>>)>>
             /\ c.name = f
  <2>1. c.steps = <<Write(UsSetting[f], <<b>>)>> /\ c.name = f BY <1>1 DEF Call
  <2>2. f \in DOMAIN Setters => UsSetting[f] = Setters[f] BY DEF UsSetting, Setters, UsByte
  <2>3. f = "us_set_actual_scale_divisor" => UsSetting[f] = UsByte.us_get_meas_interval
    BY DEF UsSetting, UsByte
  <2> QED BY <2>1, <2>2, <2>3
<1>2. \/ \E f \in DOMAIN UsSetting, b \in bytes :
           c = Call(f, Default, <<Write(UsSetting[f], <<b>>)>>)
      \/ c.name \in {"us_cmd", "us_get_meas_data", "us_get_dist", "us_get_meas_units"}
      \/ c.name \in DOMAIN UsByte
  BY DEF UsCalls, UsMeasData, Call
<1>3. c.name \in {"us_cmd", "us_get_meas_data", "us_get_dist", "us_get_meas_units"}
        \/ c.name \in DOMAIN UsByte
      => c.name \notin DOMAIN Setters /\ c.name # "us_set_actual_scale_divisor"
  BY DEF Setters, UsByte
<1> QED BY <1>1, <1>2, <1>3

\* What a function was told to have written is in the registers once the bus
\* has carried it out, and nxt_i2c_set_i2caddr has changed the address.
THEOREM WrittenKept == Spec => []Written
<1>1. Init => TInv
  BY InitTInv
<1>2. TInv /\ [Next]_vars => TInv'
  BY NextTInv
<1>3. TInv => Written
  BY WrittenHolds DEF TInv
<1> QED BY <1>1, <1>2, <1>3, PTL DEF Spec
=============================================================================
