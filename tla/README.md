# aNXT in TLA+

Models, model-checking runs and machine-checked proofs about aNXT, the Linux
toolkit for LEGO Mindstorms NXT bricks: its daemon `nxtd`, the network library
between the daemon and its clients, the commands of the client library, the
file system of `nxt_mount` over its file functions, the motor functions, the
I2C sensors, the modules and I/O maps with the display, the file formats with the
programs that convert them, and the pipes of `nxt_server`.
Paths are relative to `src/`.

## 1. The system

    tools, examples ──> libanxt ──> libanxt_net client
                                          │ TCP, one connection per program
                                          v
                        nxtd:  libanxt_net server ──ops──> table of NXTs
                                   (server thread)          ^   mutex
                                                            │
                               scanner thread ── USB, Bluetooth ──> bricks

| component | source | state it keeps | operations | talks to |
|---|---|---|---|---|
| table of NXTs | `nxtd/nxtd.c`, `nxtd.h` | `nxts.list[256]` of pointers to records, `nxts.mutex` | `nxtd_nxt_reg`, `nxtd_nxt_remove`, `nxtd_list`, `nxtd_send`, `nxtd_recv`, `quit` | both threads share it |
| scanner thread | `nxtd/nxtd.c:96` | none | `nxtd_usb_scan`, `nxtd_bt_scan`, for ever | table, USB, Bluetooth |
| USB backend | `nxtd/nxtd_usb_libusb.c` | `usb_handle`, `usb_dev` of a record; libusb references | scan, finddev, getname, opendev, connect, disconnect, send, recv | libusb |
| Bluetooth backend | `nxtd/nxtd_bt_bluez.c` | `bt_sock`, `connected` of a record | inquiry, finddev, connect on demand, disconnect, send and recv with a length word and a timeout | BlueZ |
| server | `libanxt_net/server.c` | `fds_master`, `fds_read`, `fds_max`, one packet buffer | accept, hang up, LIST, SEND, RECV, password check | TCP; calls `srv->ops` |
| packets | `libanxt_net/net.c` | none | `nxtnet_recv`, `nxtnet_send` | TCP |
| client | `libanxt_net/client.c` | socket, one packet buffer | connect, list, send, recv, disconnect | TCP |
| telegrams, commands | `libanxt/sendrecv.c`, `nxt.c` | buffer and write pointer, sticky `error` | pack, SEND, RECV, unpack | client |
| motors | `libanxt/motor.c` | cached state of three motors, autoset and autoget | get and set state, movement | commands |
| files | `libanxt/file.c` | none (handles live on the brick) | open, read, write, remove, list | commands |
| modules | `libanxt/mod.c` | none | find, read and write I/O maps in pieces of 50 bytes | commands |
| low speed, I2C | `libanxt/ls.c`, `i2c.c`, `us.c` and sensors | none | write, poll the status, read | commands |
| display | `libanxt/display.c` | local copy, dirty mark | refresh, flush, draw | modules |
| file formats | `libanxt_file/*.c` | none | encode and decode RSO, RMD, RIC, calibration, NVConfig | none |
| `nxt_server` | `tools/server.c` | options in globals | one command per line from a pipe | libanxt |
| `nxt_mount` | `tools/mount.c` | one buffer per open file, dirty flag | FUSE operations | files |
| `nxt_modfs` | `tools/modfs.c` | list of modules | FUSE operations | modules |
| converters, `calibrate` | `tools/rsoc.c`, `ricc.c`, `rmdc.c`, `calibrate.c` | none | convert files, store readings | file formats, files, sensors |
| other tools, examples | `tools/`, `examples/` | none | parse, call the library, print | libanxt |

Hard behaviour, by component, and what makes the component correct:

* **Table, scanner, backends.** Two threads and a signal handler; removals after
  a failed transfer run without the mutex (`nxtd.c:193`, `212`), and so does the
  search of `nxtd_usb_finddev`; a record is freed before its slot is cleared;
  references to USB devices are counted by hand in three places. Correct means:
  a handle names one brick and a brick has one handle, no slot dangles, no
  record, reference or open handle is lost, LIST answers the table of one
  instant, and bricks that are there get listed.
* **Network.** One single-threaded loop and one buffer for all clients, a
  hand-kept `fds_max`, clients and daemon that die at any point, packets that
  arrive in pieces. Correct means: every client gets the answer to its own call,
  executed at most once and only with the password; no client can be starved.
* **Commands.** A command is a SEND and a RECV, two calls, on a brick several
  clients and LIST's keepalive may use; a failure travels as an unsigned number.
* **Motors, files, mount, `nxt_server`.** Cached state against the brick's,
  partial failures of sequences of commands, options that outlive a command.
* **I2C.** A request, a wait with a timeout and a fetch are three commands, and
  nothing ties the bytes that are fetched to the request. Correct means: a
  function returns bytes of the registers it names, has written what it says it
  has written, and ends.
* **Modules, display.** Handles of the brick that every list of modules takes,
  transfers in pieces whose result most callers ignore, a local copy of the
  display. Correct means: handles come back, and every byte gets where it belongs.
* **File formats, converters.** Two byte orders, fields of 16 bits, padding, and
  conversions in place. Correct means: a file still holds, whatever its format
  has become, the sound or the picture it was made from.

Every hazard we know of, at its line, with the properties that cover it, is in
`PROJECT.json`.

## 2. Modules

| module | what it is |
|---|---|
| `NxtRegistry` | abstract: a table handle → brick with atomic Register, Drop and LIST |
| `NxtdTable` | detailed: table, mutex, records as memory, scanner thread, server thread's operations, exit handler, bricks that come and go |
| `NxtdTableProperties` | its invariants, action and liveness properties, fairness, refinement of `NxtRegistry`, and the inductive invariant `IInv` |
| `NxtdTableProofs` | the theorems about `NxtdTable`: what follows from `IInv`, the refinement, that no record is lost, and what may be closed or freed twice |
| `MCNxtdTable` | symmetry set for the runs of `NxtdTable` |
| `NxtRpc` | abstract: one call per client, executed at most once, returned or lost |
| `NxtNet` | detailed: connections, packets, select loop, one buffer, exits and restarts |
| `NxtNetProperties` | its invariants, liveness, fairness and refinement of `NxtRpc` |
| `NxtNetProofs` | the theorems about its sockets, its loop and its answers, and that it implements `NxtRpc` |
| `MCNxtNet` | symmetry set for the runs of `NxtNet` |
| `NxtRemote` | abstract: a remote command, executed at most once, successful only if the brick executed it |
| `NxtCommand` | detailed: programs with a `nxt_t`, SEND and RECV, nxtd's table, replies waiting in the bricks |
| `NxtCommandProperties` | its invariants, action property, refinement of `NxtRemote`, and what the documents say of it |
| `NxtCommandProofs` | the theorems about opening a brick and about commands, and that it implements `NxtRemote` |
| `MCNxtCommand` | symmetry set for the runs of `NxtCommand` |
| `NxtFiles` | abstract: a file system whose operations look atomic, and what a failure may damage |
| `NxtMount` | detailed: the operations of `nxt_mount` as sequences of file commands, each of which may fail |
| `NxtMountProperties` | its invariants and refinement of `NxtFiles` |
| `NxtMountProofs` | proofs that its operations give back the handles of the brick, of its types, and that it implements `NxtFiles` |
| `MCNxtMount` | symmetry set for the runs of `NxtMount` |
| `NxtDrive` | abstract: the settings of a motor, changed by a call all at once |
| `NxtMotor` | detailed: the settings in the `nxt_t`, autoset and autoget, setters, convenience functions, telegrams that fail |
| `NxtMotorProperties` | its invariants and refinement of `NxtDrive` |
| `NxtMotorProofs` | the theorems about the settings and the refinement |
| `MCNxtMotor` | numbers for the run of `NxtMotor` |
| `NxtShell` | abstract: one command at a time, executed once with the options given for it |
| `NxtServerTool` | detailed: `nxt_server` and a program over three named pipes, kept open or opened for every command |
| `NxtServerToolProperties` | its liveness, fairness, refinement of `NxtShell`, and what the manual page says |
| `MCNxtServerTool` | for the run of `NxtServerTool` |
| `NxtSensors` | the functions of the I2C sensors as sequences of transfers |
| `NxtI2C` | detailed: transfers in pieces over the postbox of the brick, the bus, the sensor |
| `NxtI2CProperties` | its invariants, liveness and fairness |
| `NxtI2CProofs` | the theorems about what is read and written |
| `MCNxtI2C` | the calls and registers of the run of `NxtI2C` |
| `NxtMod` | detailed: module handles, I/O maps in pieces, display, `nxt_lsmod`, `nxt_screenshot` and `nxt_modfs`, several programs |
| `NxtModProperties` | its invariants |
| `NxtModProofs` | the theorems about maps, handles and what programs find |
| `MCNxtMod` | the modules and programs of the run of `NxtMod` |
| `NxtFormats` | encoders and decoders of the file formats as functions |
| `NxtConvert` | detailed: `nxt_rsoc`, `nxt_ricc`, `nxt_rmdc` and `nxt_calibrate` on files of the PC and of the brick |
| `NxtConvertProperties` | what a converted file still holds |
| `MCNxtConvert` | the files of the run of `NxtConvert` |
| `NxtToolProofs` | the theorems about programs of `tools/`: that `NxtServerTool` implements `NxtShell`, what the formats keep, and `Kept` of `NxtConvert` |

Definitions whose comment begins with "Faulty" are variants of the definition
that follows them with one bug each. No run uses them; they show that the
properties notice such a bug.

### NxtdTable

One variable per piece of state of the code: `list` and `mutex` are
`struct nxts`; `live`, `rdev`, `ropen` are the records (allocated, device or
address, marked as open: `usb_handle # NULL` or `connected # 0`); `opened` and
`named` say whether the handle or socket is in fact open and the name allocated;
`refs` counts libusb references that nxtd holds on a device (one taken by
`libusb_open`, one by `libusb_ref_device`); `lost` counts handles that
`nxtd_usb_opendev` opened and dropped when a later call failed;
`cpc, todo, held, cur, ci, crec` are the scanner's program counter,
devices left in the loop, devices the libusb list keeps referenced, and locals;
`spc, sop, si, packed` are the server thread's, with the answer under
construction; `quitting, qi` belong to `quit` and to a crash. Three variables are
history: `twice` (what was closed or freed once more), `failed` (the brick whose
transfer failed, until it is removed) and `trouble` (some transfer has failed).

Each action is one step between two accesses to shared memory that the other
thread can see, or between two statements that a signal can separate: locking,
each load of a slot, looking at the record, opening, registering, the log line
that reads the slot again, and in a removal the test of the slot, the close
(`libusb_close` and `libusb_unref_device`, or the socket), the mark that it is
closed, `free(name)`, `free(nxt)` and the clearing of the slot. Decisions worth
knowing:

* finddev loads a slot three times: for the comparison with NULL, for the type,
  and for the record (nxtd_usb_libusb.c:131-132, nxtd_bt_bluez.c:94-95). If it
  was cleared in between, nxtd reads through NULL and dies (`ScanCrash`), and so
  it does in the log line of `nxtd_nxt_reg` (nxtd.c:76). The record that was
  loaded last is read in a later step, when it may be freed. Reading a freed
  record finds its old contents or something else. `malloc` may return any free
  block, the one just freed too.
* A second close or free has no further effect in the model than its entry in
  `twice`, and that the device object of a handle closed twice may be reused
  although others hold references to it.
* `libusb_close` with `libusb_unref_device` is one step, and so is each `free`
  and the closing of one slot by `quit`: what a signal in the middle of the
  library's own code does is not modelled, nor a second signal.
* `nxtd_usb_scan` does not hold the mutex in finddev, `nxtd_bt_finddev` does.
* SEND and RECV are the same operation `io` here: lock, transfer, unlock, and
  removal when the transfer did not move the bytes asked for.
* Handles come from 0 .. MAXNUM-1: a client uses handles from LIST.
* The exit handler runs in the main thread (`signal(SIGTERM,exit)` and
  `atexit(quit)`), so it interrupts the server thread anywhere; the scanner is
  only asked to stop and goes on until the process has exited.
* Left out: sleeping, the log but for that line, `conn_timeout` (its only reader
  is commented out), the names and ids of bricks, the switches -U and -B, and the
  socket of a Bluetooth connection that could not be made, which
  nxtd_bt_bluez.c:187 never closes.

### NxtNet

`cpc, asked, got` are a client's state, the call it waits for and what the last
call returned; `c2s`, `s2c` are the packets of its connection in either
direction, `late` says that the last packet to nxtd has arrived in part (without
the body, or with an incomplete header), `shut` that nxtd closed its end;
`backlog, conn, master, fdsMax` are the accept queue, the open sockets by
descriptor, `fds_master` and `fds_max`; `spc, ready` are the main loop with
`fds_read`; `cur, req, garbled` describe the packet in `srv->buf`. The loop
visits the descriptors of a pass in increasing order, one action per
descriptor, and a request is read in one step (two if its body is late) and
executed and answered in the next; clients act in between. Decisions:

* `accept` may return any free descriptor, also one below the listening one,
  because other parts of nxtd open and close descriptors.
* A client that exits has its data delivered and then the end of the stream, or,
  if it had an unread answer, a reset that may drop what it sent.
* A host that vanishes delivers nothing more and closes nothing.
* The result of an operation is any number of bricks from `Counts`, or success
  or failure of a transfer; what the operations do is `NxtdTable`.
* `Knows` are the clients that send the right password, `Near` and `Far` those
  that run here and on another host, where nxtd refuses them; a client in both
  is sometimes here and sometimes there.
* A client is one process at a time; after it exited, another may start when
  nxtd has closed the old connection.
* Behaviour after an answer that overruns the buffer, or after a garbled
  request, is undefined in C; the model goes on with the packet as it is.
* Left out: packets no client of the library sends, failing `send` on a full
  socket buffer, the host name lookup, the log.

### NxtCommand

`here, bname, pipe` are the bricks: reachable, their names, and the replies
nobody has fetched yet; `table, rname` are the bricks and the names in nxtd's
records; `pc, linked, handle, name, error` are a program, its connection, and
its `nxt_t`; `todo` counts what `nxt_open_net` has still to ask for, `cmd, to`
are the command under way and the string it gives as a name, `ret, result` what the last
transfer and the last command returned. `own, did, mine` serve the properties
only: the brick that was opened, what the brick made of the telegram, whose
reply was taken. Decisions:

* A call of nxtd is one step, and so is a change of its table: `IsRpc` and
  `IsRegistry` are the reason why that is allowed.
* All commands of `nxt.c` are one pair of steps with a table of reply sizes,
  plus what differs: `nxt_get_sensor_values` and `nxt_poll_command` send again
  after some replies, `nxt_recv_msg` does not look at the error,
  `nxt_set_name` and `nxt_reset_bluetooth` change the name. The sizes matter:
  on USB `nxtd_usb_recv` collects replies until it has exactly as many bytes as
  were asked for, on Bluetooth `nxtd_bt_recv` takes one reply; any other number
  removes the brick.
* nxtd's removal closes the brick, and the next connection finds its pipe
  empty.
* LIST sends every brick a keepalive and fetches seven bytes; a program that
  opens a brick calls LIST and then asks for the state of three motors, and
  ignores what becomes of that.
* A result of -1 travels in an unsigned field of `Bits` bits; with `Wide` the
  client takes it for a large number, sees no error, and a receive copies that
  many bytes (`crashed`).
* `Packed` cuts a string to what a telegram holds of it, 15 characters (`nxt.c:302`).
  Bricks, and so nxtd's records, have names that are cut (`Held`); `nxt_set_name`
  gives the `nxt_t` the whole string (`nxt.c:308`). The run has a string that is
  too long and the one that is left of it.
* `bt` are the bricks on Bluetooth, the others are on USB.
* `Sharing` says whether programs may have a brick open at the same time. The
  library has no lock, so whether they do is up to the user.
* A program may end anywhere, also by SIGPIPE in a send to an nxtd that is gone.
* Left out: the values in replies, the scanner's own telegrams (a brick that is
  not in the table has no other user), replies that arrive after nxtd gave up.

With two bricks the model also shows a program whose slot nxtd has given to
another brick (`nxtd.c:187` knows only slots); with `Sharing` it shows, within
seconds, two programs that read sensors and of which one gets the values the
other has asked for (`OwnReply` fails), because nothing but the order of SEND and
RECV ties a reply to a telegram. The runs about success have one brick and no
sharing for that reason.

### NxtMount

`file, open` are the brick: contents of its files and its handles; `error` is
`nxt->error`, of which matters whether it is "file not found", another error
that `nxtfs_error` has a number for, or none of those; `fd` are the `nxt_file_t`
of the open descriptors. `call, todo` are the operation under way and the
commands it has still to send; `h, w, buf, want, k` its locals, `ret, found,
reply` what it returns. `before, trouble, fails` serve the properties only.

An operation is a sequence of commands (`Steps`), every command an action that
is one of the functions of `file.c` and takes what the code does with its result
into account: goes on, skips commands, or ends. Operations on the buffer of a
descriptor are one step. Decisions:

* One operation at a time. fuse runs several workers unless it is told not to
  (`-s`); then they would share the buffer of the one `nxt_t`, on which
  `libanxt` has no lock, and nothing could be said of the program.
* A command is one step that the brick executes at most once, and a failure
  does not say whether it has: that is `NxtRemote`, with its condition that
  nobody else uses the brick. A failure leaves whatever error it likes, also the
  one that was there or none.
* The brick is external: modelled from the errors that `nxt.h` names and from
  how the code uses it. It has limited space and handles, and gives any that is
  free; a file is given its size when it is opened for writing, and is then not
  opened or removed until it is closed. Too little space is reported with one of two errors, only one of
  which `nxtfs_error` knows. Whether files of no bytes are possible is not
  known, so the brick may accept or refuse them.
* `nxtfs_open` returns `-errno`, which nobody has set: a failure may be reported
  as success with a descriptor that has no `nxt_file_t` (`Null`); the next use
  of that ends the program.
* A program that is killed leaves its handles open on the brick.
* Left out: appending and fragmented files, which `nxt_mount` does not use;
  `chmod` and `chown`, which do nothing; attributes.

### NxtMotor

`cache` are the settings in `nxt->motors[motor]`, `drive` those of the brick, as
the bytes of a telegram; `autoset, autoget`; `pc, call, asked, todo, saved, ret` are
the function under way, its arguments (a value for each setting that it is to
change), the settings it has still to change, `autoset` as the program has set it
(a local of the convenience functions), and what the last function returned. `before` (settings when the last call ended) and `apart` (they
may differ from the brick's) serve the properties only. Decisions:

* There is one motor: a function touches the settings of its own only.
* A setter is one kind of step with the name of the setting it changes; a
  convenience function is the sequence of setters it calls, with autoset off,
  and sends at the end. A setter that refuses its value changes nothing (`Valid`),
  and the convenience functions do not look at that.
* A telegram and its reply are one step, whose failure does not say whether the
  brick has got it (`NxtRemote`); what the brick does before or after is a step
  of its own.
* The brick is external: it takes what a telegram says, stops at the limit, and
  stops all motors when a program on it ends.
* Bytes wrap as in C: power and turn ratio go out as unsigned bytes and come back
  so. The checks are those of the code: that of the power looks at the number of
  the motor, so any power is taken.
* Left out: tacho counts, which nothing in the library depends on; a motor
  number above 2, which the setters refuse and the convenience functions use as
  an index before (undefined).

### NxtServerTool

`each` is `open_each_command` (the switch -o); `text` are the lines in the pipes
of commands, errors and results; `srv, cli` tell which ends `nxt_server` and the
program have open or are opening; `spc, cpc` are the two programs; `opts` are
the options since `reset_options`, `error` that `nxt->error` is set, `print` what
the command has printed; `asked, got` are the command and options the program
has given and what it has read. `ran, failed` serve the properties only: the
execution that was asked for, and that some command has set an error. Decisions:

* Opening a named pipe returns when the other side opens it too (`Meet`).
* A command prints or not and sets an error or not; kinds of commands differ in
  what they may do: listings (`Lists`) clear the error when they end as they
  should, and only they do; those of `libanxt_tools` (`Talks`) also write to
  `stderr`, which is the error pipe; `pollcmd` (`Raw`) writes to the pipe of
  results itself; `recv` (`Bare`) prints without a newline; some always print
  (`Prints`). What they do with the brick is `NxtCommand`.
* An option is its letter: `reset_options` resets every variable that a letter
  sets, so what is left of a letter is whether it was given for this command.
* With -o `pollcmd` writes to a stream that is closed (or was never opened),
  which C leaves undefined: the output is lost or the program ends. Messages of
  `Talks` go to a closed `stderr` and are lost; reopening that is assumed to
  work.
* When no writer has the pipe of commands open, `fgets` finds the end of the file
  and is called again. We assume that it then reads what a later writer writes;
  C libraries that keep the end-of-file mark would read no second command from
  a shell.
* The program does what `nxt_server.1` says; `Careful` is one that uses open pipes
  only for commands that always print, since the others are answered with two
  empty lines (section 3).
* Left out: a program that is killed, lines that are too long or no command
  (without -v that is `fprintf` to no stream), the option that changes the
  directory, keys, creation and removal of the pipes, -v.

### NxtI2C

`NxtSensors` has every function of `i2c.c`, `us.c`, `accel.c`, `psp.c`,
`lineleader.c`, `nxtcam.c` and `hid.c` as the sequence of its transfers (read, write,
or refused because of its arguments; some go on when one fails). `NxtI2C` carries
them out: `call, todo` are the function under way and its transfers, `pc, done, buf`
the place in a transfer and the bytes read, `ok` the outcome;
`req, inbuf` are the brick's postbox (the request on the bus, the bytes that have
come); `at, regs, lock` are the sensor: its address, its registers, and how much it
has got of the sequence that changes its address. `clean, broken, seen` serve the
properties only. Decisions:

* `LSWRITE`, `LSGETSTATUS` and `LSREAD` are one step each, the wait for the status is
  the step that ends it (`Ready`, or `GiveUp` after two seconds).
* The brick is external: it takes a request only when the bus is free, and then
  forgets bytes nobody has fetched; with nothing there a read reports an error or
  no bytes. A request fails on the bus when no sensor has its address; it may
  also fail otherwise. Replies may be lost.
* `nxt_ls_read` copies as many bytes as were asked for (`ls.c:86`), so missing bytes
  are those of the telegram, modelled as 0.
* The sensor measures at any time, so a long read may be torn between pieces.
* Left out: how a function turns the bytes it has read into what it returns,
  waiting times, files of colour maps.

### NxtMod

`open` are the brick's module handles with what each has still to list, `maps` the
watched bytes of the I/O maps. For every program: `script, fn, todo, pc` are the
functions it has still to call, the one under way and its steps; `err` is
`nxt->error`; `last, new, found` the handles and names of a listing; `at, left,
moved, buf` a transfer; `went, res` its outcome; `screen, dirty` the
`nxt_display_t`. `missed, calm, fine, before, since` serve the properties only. Decisions:

* A function is a sequence of steps: find (`nxt_mod_get_id`), list, get and put; a
  telegram with its reply is one step, and the reply may be missing or be that
  of another one, which the library cannot tell (`missed` counts these).
* The brick is external: it gives the lowest free handle, opens a new one for
  `next`, and moves a part or nothing of what is not in a map.
* Of a map only `Watched` bytes are kept: those of the settings, the first and the last byte of
  the bitmap. `Junk` is a byte that nobody has set; the buffer of
  `nxt_display_refresh` holds such bytes when the read fails.
* `ModAssumption` says what the functions rely on: the maps are as long as the offsets in
  `mod.h` ask for, `ui`'s is not longer than what `nxtfs_read` asks for, and the
  settings are among the watched bytes.
* Left out: how the drawing functions change the copy (`draw` sets it), names of
  modules, and what FUSE does with a result.

### NxtFormats and NxtConvert

`NxtFormats` has no state: encoders and decoders as operators between values and
sequences of bytes, with bytes of `Bits` bits. `PowerOf2` stands for the shifts of
one bit. Memory behind the end of a file and
fields that nobody sets are `Unset`. In `NxtConvert`, `disk` are the files of the PC,
`prog` the program that runs with its input, output and buffer, `exit` what
`nxt_calibrate` returned and what it had read; `port, stored, held` are the brick;
`min, max, err` the variables of `nxt_calibrate`. `source, inverted, blurred, trouble,
mute` serve the properties only. Decisions:

* One program at a time (`tools` says which), but files may change under it.
* The files of users are whole (`ConvertAssumption`): a sound has as many samples as
  its length says and a picture as many dots as its size. The width and height of a
  picture have to fit into the signed words of a RIC file and its bytes into the
  word of a length (`Fits`), which `ricc` does not check. Sounds may be of any length.
* Opening the output empties it before anything is converted, so a program whose
  output is its input has nothing to convert.
* The libraries for WAV, PNG, JPEG and GIF are external: they give back what they
  were given, but JPEG with colours one off, and with dots shown wrong when the
  quality (`nxt_ricc -q`, `ricc.c:94`, `195-198`) is too low for them. Which dots that
  may be is `Losses`; a file made by way of such a JPEG is `blurred`. Which quality is
  low enough depends on the picture and the library, so any JPEG may be one.
* A retry of `nxt_get_sensor` is a stutter; the brick refuses to remove open files
  and to open existing ones for writing.
* Left out: usage texts, transparency (`nxt_ricc -t`), and `nxt_rmdc`'s conversion, which is not implemented (the
  program empties its output and ends).

## 3. Runs

| run | question | result |
|---|---|---|
| `table` | all safety properties of the table and refinement of `NxtRegistry`; 3 slots, one USB and one Bluetooth brick, 2 records | holds, 4.2 million states |
| `table_fair` | requests end, a USB brick is listed again and again; 2 slots | holds |
| `table_bluetooth` | is a Bluetooth brick in range listed (`nxtd.8:22`)? Checked where no brick comes or goes and nobody sends a signal (`StillSpec`, a part of `FairSpec`) | no: the scan stops at the first known brick |
| `net` | descriptors, closing, waiting, expected answers, and refinement of `NxtRpc`; a client that is sometimes here and sometimes on a refused host, and one with the wrong password | holds, 1.1 million states |
| `net_fair` | every call of a served client returns, with late bodies, oversized answers, vanishing hosts and restarts of nxtd | holds |
| `command` | clean start, own replies, names of which one is too long, refinement of `NxtRemote`; one program after the other on one brick, on USB or Bluetooth, dying anywhere | holds |
| `mount` | handles are given back, and refinement of `NxtFiles`; two names, one descriptor, three handles, a failing transfer, a kill anywhere | holds, 3.4 million states |
| `motor` | settings are the brick's unless something failed, and refinement of `NxtDrive`, with what is overlooked named | holds, 1.9 million states |
| `server` | commands run once with their own options and are answered, nobody waits for ever; open pipes with a careful program, and -o | holds, 2.8 thousand states |
| `i2c` | own bytes, completed writes, pieces that fit, and every call ends; functions of each shape, refused, lost and failing requests | holds, 0.9 million states |
| `mod` | programs that run alone succeed and give handles back, bytes get where they belong; two programs with two handles, one missing reply | holds, 6.2 million states |
| `formats` | sounds and pictures survive conversions, by way of a bad JPEG their size only, calibrations are stored; two files, all converters | holds, 0.3 million states |

Some divergences need no run, because a test or a reader of the line sees them at
once and the modules contain them.

*Table.* A signal in the middle of a removal makes `quit` repeat what was done:
between lines 225 and 227 of `nxtd_usb_libusb.c` (or 203 and 204 of
`nxtd_bt_bluez.c`) it closes the handle again and drops references of others,
between 117 and the clearing of the slot in `nxtd.c:88` it frees the name again,
and between 118 and that clearing also the record. A search without the mutex
dies of a slot that is cleared between its three loads
(`nxtd_usb_libusb.c:131-132`); so does one with the mutex, and the log line of a
registration (`nxtd.c:76`), since removals after SEND and RECV do not take it. A
SEND or RECV on an unused handle fails and then removes the brick that was
registered under that handle meanwhile (`nxtd.c:193`, `212`; the second
alternative of `Drop` in `NxtRegistry`). A Bluetooth reply that is longer than
expected is written past the buffer: `nxtd_bt_recv` ignores its `size`
(`nxtd_bt_bluez.c:290`), and the buffer of the keepalive has 7 bytes
(`nxtd.c:133`, `149`), where `NxtCommand` has an orderly removal of the brick.

*Network, commands, motors.* nxtnet_recv says "Receive whole packet" (`net.c:62`)
but puts the rest of a packet that arrives in pieces to `buf+size`, which counts in
headers of 24 bytes (`net.c:64`), so a request whose body comes late is executed
without it (`ReceiveRest` sets `garbled` in `NxtNet`). A wrong password is answered with a packet of size 0, that
is with nothing, so the client waits for an answer that `net.h:60` has an error
code for (`WrongPassword` in `NxtNet`). And where `ssize_t` has 64 bits the -1 of a
failed transfer reaches `nxt_con_send` and `nxt_con_recv` as 4294967295 bytes
(`client.c:116`, `136`), so they do not notice (`Wire` in `NxtCommand`; the run
`command` has `Wide`, so what it shows holds in spite of that: a program that
reads past its buffer then is taken to end). `nxt_set_name` with more than 15
characters sets the first 15 on the brick and remembers all of them, so that
`nxt_t` and brick have different names and success is reported (`nxt.c:302`, `308`;
`SendDone` and `Unpack` in `NxtCommand`). Of the motor
functions, `NxtMotor` has these: after a power of -50 `nxt_motor_get_power`, which
is documented with "negative for opposite direction" (`motor.c:333`), returns 206
(`Byte`); `nxt_motor_is_turned_on` and `nxt_motor_is_using_brake` stay true when
the brick has cleared these flags (`Known`), and the next setter sets them
again; with autoset off, a question reads over the settings that were not sent
yet; the questions return what they know when the brick could not be read; and
`nxt_motor_rotate` with a rotation below 0 returns success although that setter
has refused (`motor.c:414`, `437`), so the motor turns with the limit of an earlier
call and the power of this one, as `nxt_motor_sync` does with a turn ratio out of
range: that is `Overlook` in `NxtDrive`, the one step in which the abstract drive
does not do what it was asked.

*Files and `nxt_server`.* `nxtfs_rename` removes the old file whenever `ret` is 0
(`mount.c:353`), also when the new one could not be opened with an error that
`nxtfs_error` has no number for, or when reading or writing failed (`mount.c:344`,
`346`): it then reports success and the contents are gone (`Told` and `Steps` in
`NxtMount`). It does not look at the result of the removal either: after an earlier
failure has left the old file open on the brick, it reports success with both
files there (`leaked` in `NxtFiles`). A program that reads answers as `nxt_server.1:113-121` says falls behind: with
open pipes, output starts as a newline (`server.c:360`) that only output replaces,
and another one is added (`server.c:631`), so a command without output is answered
with two empty lines (`SayOut` in `NxtServerTool`; a program with `Careful = FALSE`
then writes its next command while a part of the answer is unread).

*I2C.* A read ignores whether its request was taken (`i2c.c:50`) and may return late
bytes of an earlier one; it reports all registers read whatever came (`i2c.c:36` says
"How many bytes read"). Getters of one byte return it as a signed char, so 255 is -1,
which means failure. `nxt_us_set_actual_scale_divisor` writes the register of the
interval (`us.c:107`). `nxt_psp_get_joystick` has a condition that is always true
(`psp.c:97`), `nxt_line_get_reading` returns nothing on success, `nxt_cam_get_colormap`
and its setter transfer the size of a pointer, and the setter reads (`nxtcam.c:106`).
`nxt_accel_set_sensity` sends 0 to 3 where the getter expects the characters 1 to 4. After
a change of the address that failed at its last byte, a second try may set the
address 0xA0, the first byte of the sequence.

*Modules and display.* `nxt_mod_get_id` succeeds only with handle 0 and else leaves
its handle open (`mod.c:214`); `nxt_modfs` never closes the last handle of its list
(`modfs.c:122`); `nxt_lsmod` closes a handle it does not have when nothing is found. Refresh and
flush ignore the results of their transfers, so after a failed read
`nxt_screenshot`, which flushes afterwards, puts bytes of its stack on the display,
or clears it. `nxtfs_error` of `nxt_modfs` is 0 for errors without a number, so that a
read or write without a connection reports success with 0 bytes.

*Formats.* `cal_decode` takes words for bytes and `rmd_decode` the length for the format
(both proved, section 4); a failed reading of -1 is stored as 255; the play mode of a
sound is never set (`rso.c:43`); `nxt_ricc` ignores that `ric_decode` failed;
`nxt_rsoc` and `nxt_ricc` truncate the output first, which destroys the input when they are
one file. `nxt_calibrate` returns `nxt_error`, which is "file not found" after it has made
a new file, and 0 as an exit status when the connection was lost (number 256).

What the properties say that is not obvious from the code:

* `SlotsAreLive`, `OneHandlePerBrick`, `IsRegistry`: unlocked removal and search
  mix up no handles and drop no brick that did not fail (but for the unused handle
  above), because only the server thread removes, only the scanner adds,
  a brick is registered under the mutex after a search that can only miss
  bricks removed since, and a slot in use is never overwritten. The removal
  becomes visible when the record is freed.
* `CrashOnlyAfterFailure`: they are not safe, though: a slot can be emptied while
  it is searched. This takes a removal, and so a transfer that failed.
* `NoOrphan` needs one slot more than there are bricks: between `free` and the
  clearing of the slot the scanner may find the same brick again.
* `RefsBalanced`, `PointersStayValid`: two references while the handle of a record
  is open, one during the open, none otherwise (handles lost in `nxtd_usb_opendev`
  are counted apart), also between the steps of a removal and while the exit handler
  runs; hence libusb never reuses a device object that is compared, until the
  exit handler closes a handle twice.
* `TwiceOnlyIfInterrupted`: the removals give everything back once, and `quit` too,
  but for what an interrupted removal had closed or freed already; each of the
  three kinds has its own steps of the removal at which that may be.
* `Watched`, `NeverWaitsForIdle`: decreasing `fds_max` by one is enough, and a
  pass never reads from a client that has sent nothing, whatever was closed and
  accepted earlier in that pass.
* `IsRpc`: one buffer serves all clients without mixing their calls up. This
  needs at most three bricks, so that answers fit and no client leaves an
  answer unread.
* `CallsReturn`: the exception is a host that vanishes inside a packet;
  `nxtnet_recv` then waits for the rest for ever, and everybody waits with it.
* `Tidy`: a program that dies between SEND and RECV leaves a reply behind. The
  next program's LIST takes it instead of the reply to its own keepalive if it
  has seven bytes, and each of the three motor states asked for meets the wrong
  reply or the wrong number of bytes, in which case nxtd removes the brick, or
  uses one up. So up to three lost replies are gone when `nxt_open_net` returns,
  four are not: `MaxLeft` is 3 because the code asks for three motors.
* `NameSet`: when `nxt_set_name` succeeds, the `nxt_t` has the string that was given
  and the brick what a telegram holds of it; names that fit agree.
* `IsRemote`, `OwnReply`: hence, when bricks are not shared, a command is believed
  only when the brick has executed it, with the removal of a brick after a
  reply of the wrong size as the mechanism that makes it so.
* `IsFiles`: an operation that fails because the brick refuses a command leaves
  the files as they were, except that flush and truncate may have removed the
  file they were to replace, and rename may have removed the old one (see
  above); a transfer that fails damages only the files that the
  operation names. This is so although no result of a read, write, close or
  remove is looked at, because a command that follows a failed one is refused or
  harmless. An operation that reports success without a failed transfer has
  done what it is for, or is one of those whose error has no number.
* `HandlesReturned`: the brick has few handles, and every path through the code
  closes what it opened; only a failed close, open or kill costs a handle.

* `IsShell`: with -o options never outlive a command and answers never mix,
  because nothing is read from the pipe of commands before the answer is taken;
  with open pipes only the number of lines keeps answers apart, which is right
  for careful programs. An error may be reported for later commands: nobody
  resets it but a listing.
* `Answered`: both sides open the error pipe before the result pipe, at the start
  and, with -o, for every command.

* `IsDrive`: whatever setters a convenience function calls, a motor never runs with
  some settings of one call and some of another, `autoset` is what it was
  afterwards, and success means that the brick has all that this call was asked
  for. A call with a value that is refused changes nothing and fails. The two
  exceptions are the calls of `Overlooked`, a rotation below 0 and a ratio out of
  range, and only when their other settings are taken.
* `InStep`: that flags are never cleared and bytes come back unsigned does no harm
  as long as nothing fails, is held back, or changes by itself. Each of those
  exceptions is needed.

* `OwnBytes`: when every request was taken and no wait was given up, each byte of a
  read was in its register during the call; both exceptions are needed, because
  the code looks at neither.
* `Written`: what was reported written is in the sensor once the bus is free, also
  when a transfer takes several pieces and a later one was first refused. Of a
  change of the address that is reported to have failed it says nothing.
* `AloneWorks`: programs that run one after the other with all replies find handle 0
  free each time and leave it free. One lost reply, a second program or a mounted
  `nxt_modfs` ends that.
* `MapsExact`: pieces of a transfer neither overlap nor leave a gap, in both
  directions and at any offset.
* `Kept`: in-place conversion of several channels reads no sample it has already
  overwritten, rows and data with odd sizes come back, and conversions can be
  repeated without loss, but for the dots of a picture that was once a JPEG of too
  low a quality; of `nxt_calibrate` an exit status of 0 can be believed
  unless a failure had no number or number 256.

**Bounds.** Two bricks of different kinds and two records are enough for a brick
to come back, to reuse memory, and to compete for a slot; three slots leave the
spare one that `NoOrphan` asks for, and `table_fair` has a smaller table.
`MaxLost` bounds only how many handles one device loses. In `NxtNet` two
descriptors around the listening one give every order of `fds_max`, and fewer
descriptors than clients make `accept` fail; `MaxUnread` bounds the packets in
one direction, which is reached only by a client that leaves answers unread;
`Counts` holds three, the most that fit, or four. In `NxtCommand`
the commands are one of each kind of reply (7 bytes like the keepalive's, 3, 64,
repeated, two parts, one that changes the name); `MaxLeft` bounds the replies
left by programs that died and is exact, see above; `Bits` is 8 instead of 32,
which is more than any size of a telegram. In `NxtMount` a chunk has 2 bytes
instead of 50; files of 1 and 3 bytes are a last part alone and a whole chunk
with a last part; 4 bytes of space hold one large and one small file but not two
large ones; two handles are what a rename needs, and a third one may be lost before; `MaxFails` is 1 because a second failure only repeats what the first one
allows, `trouble` being set. In `NxtServerTool` there is one command of each kind,
two options and two results; only one answer is ever under way. In `NxtMotor`
power is negative or 0, and each setter that checks gets a value it takes and one
it refuses; ramping up and down are treated like running.

In `NxtI2C` the calls are one of each shape (one piece and more, several transfers,
refused, nothing to do); the registers are those they reach, and two levels tell
old bytes from new ones. In `NxtMod` maps are long enough for one piece and for two,
two handles are the least with which a second one is taken, one missing reply
leaves a handle open, and the display has 8 rows instead of 64: two pieces instead
of sixteen. `MaxFound` bounds listings that mixed-up handles could extend for ever.
In `NxtConvert` a byte has 4 bits, so that a sound of 257 samples overflows a length; the
pictures are wider than a byte and have an odd number of bytes; a bad JPEG shows one
dot wrong, or all but one; two files are an
input and an output, which may be the same. Two failing telegrams let one hide
the other's error.

**Fairness.** Threads of one process are scheduled: weak fairness of the scanner,
the server and the main loop. A mutex that is released again and again is
granted: strong fairness of the lock actions; without it the scanner could lose
every race for the mutex. A brick that stays there does not fail for ever to
open, to answer an inquiry or to tell its name: strong fairness of those
successes; a device that always fails cannot be listed by any code. TCP
delivers what a living host has sent, and a client that waits reads: weak
fairness. `nxt_server` and its program run, an open that has met returns, and a
program that waits for an answer reads. A program that uses a sensor goes on, that
is its wait ends after two seconds; nothing is assumed of the bus or the sensor. Nothing is assumed of requests,
commands, exits, signals, or bricks' coming and going.

## 4. Proofs

What TLC shows for small sets, these modules prove for every value of the
constants that satisfies the assumptions of the module they are about.

| module | theorem | statement | assumptions |
|---|---|---|---|
| `NxtdTableProofs` | `Invariance` | `Spec => []IInv` | `TableAssumption` |
| | `TypeCorrectness` | `Spec => []TypeOK` | |
| | `NoDanglingSlot` | `Spec => []SlotsAreLive` | |
| | `UniqueHandle` | `Spec => []OneHandlePerBrick` | |
| | `BalancedReferences` | `Spec => []RefsBalanced` | |
| | `PointersAreDevices` | `Spec => PointersStayValid` | |
| | `Refinement` | `Spec => IsRegistry` | |
| | `NoLostRecord` | `Spec => []NoOrphan` | finitely many bricks |
| | `DoubleFree` | `Spec => []TwiceOnlyIfInterrupted` | |
| | `SearchesAreSafe` | `Spec => []CrashOnlyAfterFailure` | |
| `NxtNetProofs` | `NetTypes` | `Spec => []TypeOK` | `NetAssumption` |
| | `AllWatched` | `Spec => []Watched` | |
| | `NoSocketLeaks` | `Spec => []OneSocketEach` | |
| | `NeverWaits` | `Spec => []NeverWaitsForIdle` | |
| | `ExpectedAnswers` | `Spec => []AnswersExpected` | at most three bricks in a LIST |
| | `NetRefinement` | `Spec => IsRpc` | the same, and no client that knows the password is now here and now on another host |
| `NxtCommandProofs` | `CommandTypesHold` | `Spec => []TypeOK` | `CommandAssumption` |
| | `OpeningTidies` | `Spec => []Tidy` | no sharing, at most three replies left by programs that died, at least three motors |
| | `RepliesAreOwn` | `Spec => []OwnReply` | the same |
| | `NamesAgree` | `Spec => NameSet` | the same, and one brick |
| | `CommandsAreRemote` | `Spec => IsRemote` | the same, and one brick |
| `NxtMotorProofs` | `MotorTypes` | `Spec => []TypeOK` | `MotorAssumption` |
| | `SettingsInStep` | `Spec => []InStep` | |
| | `MotorRefinement` | `Spec => IsDrive` | |
| `NxtMountProofs` | `HandlesGivenBack` | `Spec => []HandlesReturned` | `MountAssumption`, `ApartAssumption`, finitely many handles |
| | `MountTypes` | `Spec => []TypeOK` | the same |
| | `MountIsFiles` | `Spec => IsFiles` | the same |
| `NxtToolProofs` | `ServerTypes` | `Spec => []TypeOK` | `ToolAssumption` |
| | `ServerIsShell` | `Spec => IsShell` | a pipe for each command, or a careful program |
| | `FilesAndValuesKept` | `ConvertSpec => []Kept` | `FormatsAssumption`, `ConvertAssumption` |
| | `RicKept` | a picture survives `ric_encode` and `ric_decode` | its size `Fits` |
| | `RsoKept` | a sound survives `rso_encode` and `rso_decode`, cut to its length modulo a word | `FormatsAssumption` |
| | `CalibrationMixed` | what `cal_decode` makes of `cal_encode` | |
| | `FailureLooksValid` | -1 is stored like the largest byte | |
| | `MelodyLost` | `rmd_decode` of `rmd_encode` has no notes | |
| | `SettingsKept` | both halves of the settings byte come back | |
| `NxtI2CProofs` | `I2CTypes` | `Spec => []TypeOK` | `I2CAssumption`, and every call is one of the library's (`CallsAssumption`) |
| | `BytesAreOwn` | `Spec => []OwnBytes` | the same |
| | `WrittenKept` | `Spec => []Written` | the same |
| | `SettersFitGetters` | three setters of the ultrasonic sensor write what their getters read, the fourth does not | |
| `NxtModProofs` | `ModTypes` | `Spec => []TypeOK` | `ModAssumption` |
| | `ModMapsExact` | `Spec => []MapsExact` | |
| | `ModAloneWorks` | `Spec => []AloneWorks` | also `OrderAssumption`: two handles, and the order of functions in a program |

**Table.** `TableAssumption` asks for at least one slot and for distinct bricks and
values. None of the properties is inductive by itself. `IInv` adds to them

* `ScanLocals`, `SrvLocals`: what the threads' locals hold at each step;
* `Locks`: where which thread owns the mutex;
* `Searched`: while the scanner works on a brick, no slot below the one it looks
  at names that brick, and after the search no slot does; this survives the
  server's unlocked steps because they only make names disappear, and it is what
  makes registration safe;
* `NoSharedRecord`: two slots share a record only if one of them is the one
  being cleared, whose record was already handed out again by `malloc`;
* `Packed`: the answer under construction is the table below `si`, which holds
  because a LIST has the mutex and so nothing is registered meanwhile;
* `Owned`, `DeadClosed`: what a record is marked to have it has, but for the step
  between closing and marking, and a freed record has nothing;
* `Failed`: the brick whose transfer failed is in the slot that the removal reads;
* `Untroubled`: before the first failure no slot that the scanner reads again is empty.

While the exit handler runs only types, scanner locals, references and
`DeadClosed` are maintained, for it leaves slots that point to freed records. The
proof goes by component: scanner search, scanner registration, requests, removal,
exit handler, bricks. `GiveBackKeeps` is about closing and freeing, which removal and
exit share. The refinement theorem maps each step to an action of
`NxtRegistry` or to a stutter: registration to Register, a failed transfer to Fail,
the `free` to Drop, a removal that finds the slot empty to Acquit, the
end of a LIST to Answer, the beginning of the exit and a crash to Shutdown. With
`INVARIANT IInv` in `NxtdTable.cfg` the model checker finds it true, too.

**Memory of the table.** `NoOrphan` needs that a scanner with a record in its hand
finds a slot. `Room` says that a free slot is still ahead of it. It holds when the
scanner takes the mutex: the slots in use name different bricks, except one that
is being cleared, the brick in hand is another one, and there are fewer bricks
than slots (a pigeonhole argument over injections). It stays true because only the
scanner fills slots. `ExitInv` follows the exit handler: by what `ToClose` says, slots
not yet visited point to allocated records with names, each once, and what is marked
as open is open, each as long as the signal did not come at the steps of a removal
that undo it (`AtEnd`).

**Connections.** `NInv` is the type invariant and `Watched` with `Sockets` (a client has
at most one descriptor or place in the queue, and none after nxtd closed its end),
`Dropped` (nothing of a closed connection is left), and `Serving` (which client the
loop serves, and that descriptors to come are readable). `OneSocketEach` follows from
`Sockets` by counting. The answers need a second invariant on top, `Traffic`: a
client has one packet under way at most, its request, the request in the buffer or the
answer. An answer to more than three bricks is not read, so that the next answer
queues up behind it and `Traffic` is lost; hence the assumption. With `Admitted`
(who is served was let in), `Traffic` gives the refinement: sending is Call, or CallLost when
nxtd has closed its end; serving is Execute; closing a connection and refusing a password are
Ignore; reading is Return, the end of the stream Fail, an exit Forget. Every other
step is a stutter: so is taking the packet into the buffer, since it stays a request.

**Commands.** The types need no more than `CommandAssumption`. What the properties say
rests on `PInv`: at most one program has a connection (`Alone`), a brick that is not in the
table has an empty pipe (`Unlisted`), replies have sizes of the code (`Sized`), the last
reply in a pipe is the one the program waits for, and no other is (`Replied`), and at
most three replies are left by programs that died (`Few`, the bound of `Leave`). The argument is
`Front`: while a program opens the brick, the pipe is empty, or there is a reply of seven
bytes among the first so many as motors are still to be asked for. It begins with LIST, which
leaves the seven bytes of its keepalive behind at most two other replies, so
at the third place at most, and three motors are asked for (`OpenKeeps`). A question for a motor
expects 25 bytes, and no up to four replies of the code's sizes with one of seven among
them make 25 (`SumsMissBlocked`); so it takes replies before that one (`MotorTakes`), which
brings it forward, or nxtd gets another number of bytes and removes the brick, which
empties the pipe (`EmptyingKeeps`). After the last question the pipe is empty (`Tidy`), and every
command takes its own answer. The refinement maps the telegram that the brick
carries out to Execute and the reply that is believed to Succeed. `NamesAgree` and the refinement
need one brick, because nxtd may give the slot of a program to another brick (section 2).
None of this depends on `Wide`.

**Motors.** `MInv` is the types and `Synced`, which is `InStep` at every point but right
before a telegram. The step that matters is a telegram read back: bytes of bytes are
the same bytes (`ByteRange`), so the settings become what the brick has. The refinement needs
`DInv`: while a convenience function is under way, its settings are those of the last call with what
was asked for (`asked`), except for the settings that are still to come (`Partway`, `Coming`), and `autoset` is off, so that no setter sends them before the last one. When nothing is
left to do, all that was asked for and accepted is in the settings: that is Set, or Overlook when
something was not accepted and nobody looked.

**Mount.** `HandlesReturned` speaks of the time between operations. `HInv` says what
happens within one: the commands still to come are `Orderly`, which is that each
handle that they open is closed before another one takes its place, and that an
operation cut short has nothing open but the old file of a rename, whose close then is
all that is left to do. `Held` is the set of handles that the commands to come will close;
what is open beyond it was counted in `fails`. An answer that is lost on its way back
opens or keeps one handle at most; a program that is killed counts what it has open.
That all this is so for the tail of a sequence of commands, for what is left after
skipping three, and for every sequence of `Steps` are the lemmas on sequences.

The refinement needs to know at each command what the operation has done so far.
`FilesInv` says it. `Placed` is what holds in trouble, too: the commands left take
their `Course`, what the operation does not name is as it was (`OthersKept`), and
transfers stay within buffers and files, which have the lengths that the loops of
`nxt_file_read` and `nxt_file_write` rely on, in whole chunks until the last part (`Parts`).
`Clean` is what holds as long as no transfer has failed: `FilesAre` tells for
each command whether the files are the same, without the old one, with a part of the
new one (`Partly`) or with all of it; `BufferIs` that the buffer has what was read so far;
`NamesAre` that a listing has found only names, and all of them at its end. A command
is then a stutter, or Trouble of `NxtFiles`; when no command is left, `Ended` lists what the
operation may have done, from which Done or Failed follows for each kind. That
a rename can leave both files only after a handle was lost (`NoneOpen`) follows from
`HInv`: it holds no handle itself by then, so one that is open was counted in
`fails`. The types are a part of `FilesInv` and could not be proved without it.

**`nxt_server`.** The refinement needs `Turns`. `Asking` says that the pipe of commands holds
options of one command and then that command, so that the options set so far with those to
come are the ones asked for. `Answering` says that nothing is in the other pipes before the
command has run, and after it has run what is in them, with what is still to be written and
what was already read, is its answer. `Opening` says, with -o, which ends of the pipes of errors and
results may be open at each step of either program: an end of file then means that the
answer is complete. With open pipes it is the number of lines that says so, hence
the hypothesis that the program is careful.

**I2C.** `Reading` says of a call in which everything was taken and waited for that its request is
still on the bus or its bytes have arrived, each from its register as it was at some time in
the call, and that the same is true of the pieces read before. `Writing` says of the last
write whose result the function looks at that each byte sent so far is in its register or in the request on
the bus, and that a request on the bus writes nothing else there. `Addressing` says how many of the commands that
change an address the sensor has taken, so that the address changes with the last
one only. That calls are those of the library (`Proper`) is an assumption, which the model
checker evaluates on the calls of the run. Of the setters of the ultrasonic sensor it says that
they write the register that the getter reads, which is proved of the functions in `NxtSensors`
(`SettersFitGetters`), and not said of that of the divisor, for which it is false (`us.c:107`). It leaves out 160 as an address, since this is
the first byte of that sequence (section 3).

**Modules.** Three invariants, each on top of the one before. `Control` has the types, for every
place in a function which of its steps are still to come (`Place`), and how far a transfer
is: it has moved what lies between its offset and `at`, and ends where it was to end or
where the map does (`Progress`). The types could not be proved without it, since a piece is
no longer than what is left. `ExactInv` says of the bytes between the offset and `at` that map and
program agree, except where others wrote since (`Exact`); a write of another program is in
`since` by then (`Kept`), which is why this survives steps of others. As long as every telegram is
answered, a transfer of the display is complete, so that no byte nobody has set gets
into the picture and from there to the brick (`PictureSet`). `AloneInv` follows a program that
runs alone through its steps: which handles are open at each, so that the lowest free one is 0
(`AllFree`) whenever `nxt_mod_get_id` asks, and what the open handle of a list has left (`Rest`), whose
length with that of what was found is always that of the list of modules. `History` ties the
function under way to the program it is part of: a program that flushes always has the
picture that was there before in its copy once it has refreshed it (`Shown`), and what mounts
or lists no modules is known by its place in the program. That places are as in the
programs of the repository is `OrderAssumption`, which the model checker evaluates on those of the run.

**Formats.** The theorems are about operators on sequences and rest on arithmetic
lemmas on words of two bytes (what is written comes back modulo a word). Three of them state
what goes wrong, for all inputs. That a byte of dots has the bits it was made of (`PackedIs`),
and that a file is cut into the commands it was made of (`CommandsIs`), is about recursive
functions and needs induction. The library's induction theorems take an operator as a
parameter, which the provers cannot instantiate; `Induction` and `Recursion` take sets
and functions instead and follow from the fact that a set of numbers has a least element
(`Least`), which the library's theorem on finite sets ordered by inclusion gives.

**Converters.** `Kept` is not inductive: it does not say that a file can be read again,
nor what `nxt_calibrate` has done so far. `KeptInv` is `FilesInv` and `CalibrateInv`.

* `FilesInv` says of each file with an origin that it `Descends` from it: it is readable
  (`GoodSound`, `GoodPicture`) and the same as the origin, which is what `Kept` says. Each
  conversion is then a lemma on one file: `wav2rso` needs that the loop in place reads no
  sample that it has overwritten (`InPlaceIs`, by induction over the frames: frame `i` reads
  bytes from `2 * i * channels` on and only bytes below `i` have changed), and that the byte it
  writes is the level of the sample (`SampleByte`); back again `ByteSample`. `SoundThrough`
  composes them, with cutting (`FittingIs`): a sound that was cut to its length modulo a
  word has fewer samples than a word and is not cut again. `ricc` needs `RicKept`, and
  that a small loss of JPEG and inverting do not make dark what was light, or the
  other way round (`DarkIs`); of a `blurred` picture only the size is carried on. That a file of users is the same as itself, and readable, is
  where `ConvertAssumption` comes in (`OriginalSound`, `OriginalPicture`).
* `CalibrateInv` says what `nxt_calibrate` has by each of its steps: which readings, and
  in which mode (`Sensed`), and how many handles are open and what is stored (`Opened`).
  It holds while the program is `Clean`: no telegram has failed, or `nxt->error` is still 0,
  and none has failed in a way that an exit status hides. Of `err` it says that it is one of
  four numbers; of these only 0 and 256 are an exit status of 0, and 256 comes from a
  failure that is counted in `mute`.

The run of `NxtConvert` has also been done with `FilesInv` and `CalibrateInv` as invariants.

Every invariant and action property of the runs, and every refinement, is a theorem. Only
model-checked are the liveness properties under fairness (`RequestsEnd`, `UsbBrickListed`,
`CallsReturn`, `Answered`, the end of I2C calls), which are beyond the proof system; and the
run that shows a divergence has a counterexample, which is no matter of proof. The number of bytes in a
pipe of `NxtCommand` is proved for the four replies that it needs.

## 5. Plan

Done: all modules of section 2, and the proofs of section 4. Left:
recording and playing back of motors (`libanxt_tools/tools.c`) on top of `NxtMotor`,
with tacho values.

The number of runs stays small: a new module takes its properties into one
passing run, and a run that shows a divergence gives way to one that matters
more.

## 6. Not modelled

* Command line parsing, logging, the pid file and `daemon` in nxtd: no state that
  another part depends on.
* The dummy and libusb 0.1 backends: alternatives of the build.
* Drawing into the local copy of the display, and fonts with their generator
  (`mkfont.c`): what is drawn is data, and only its way to the brick is control.
* In `libanxt_tools/tools.c`: tables of strings, and recording and playing back of
  motors, loops of the functions in `NxtMotor` with a pause.
* Tools that parse, call one function of the library and print (`motor.c`,
  `upload.c`, `download.c`, `list.c`, `echo.c`, `pollcmd.c` and the like).
* The arithmetic of sensors on their readings, and the key tables of `hid.c`.
* Examples, manual pages and build files.

`PROJECT.json` says for each component what of it is left out.

## 7. Running

`tlc -config NxtdTable.cfg MCNxtdTable.tla`, and likewise for the other
configurations; `tlapm NxtdTableProofs.tla`, and likewise for the other modules whose
name ends in `Proofs`.
