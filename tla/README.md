# TLA+ models of latd (LAT for Linux) and the dnprogs tools

This directory models the parts of `src/` that hold state and react to events:
- the LAT connection engine of `latd`, which carries terminal sessions between
  two Ethernet nodes;
- its session table;
- the latcp control socket;
- the command-line parser and link set-up of the dnprogs tool `dntask`;
- the foundation-services link of `dnlogin` (`found.c`).

Every module is written from the C and C++ source. `PROJECT.json` maps each
definition to the lines it translates, and lists the runs, the mutants, the
findings and the hazards.

## The system

`src/latd/connection.cc` holds `LATConnection`, one LAT virtual circuit to a
remote node.

- **Sequence and window state machine.** `send_message` stamps a frame and
  increments `last_sequence_number`. A DATA frame also increments
  `window_size`, sets `need_ack` and saves `last_message` for retransmission.
  On receipt, `process_session_cmd` does three things:
  - it decrements `window_size`;
  - it discards a frame whose (ack, seq) pair equals the saved pair;
  - it adopts the frame's ack as `last_sequence_number`.
- **Slot dispatch.** `process_session_cmd` hands each slot command to the
  addressed session. Data is 0x00. Start is 0x90: on a server connection it
  allocates a slot with `next_session_number`. Disconnect is 0xC0/0xD0. The
  replies collected are sent at once with `send_message(REPLY)`.
- **Coalescing and the circuit timer.** Sessions queue slot commands with
  `send_slot_message`. `circuit_timer` runs once per tick. It sends a
  keepalive, retransmits (or gives up after the retransmit limit), packs the
  slot queue into pending packets, and sends one pending packet when the
  window allows.
- **Handshake.** `connect` sends CONNECT as a DATA frame, with the numbers
  reset to 0xff. `got_connect_ack` completes it. The server side is created by
  the constructor at lines 41-86 and answers with `send_connect_ack`.
- **Session table.** `sessions[]` and the cursor `next_session` are used by:
  - `create_client_session` and `create_llogin_session`;
  - `remove_session`, which deletes the connection when the table empties;
  - `num_clients`.

  A *queued slave* connection holds a raw pointer `master_conn`, which the
  destructor uses.

`src/latd/latcpcircuit.cc` is latd's end of the socket to the `latcp`
administration tool. `do_command` reads a 3-byte header and a body. Until a
`LATCP_VERSION` request has matched, it refuses everything else. It then
changes server settings and answers with `send_reply`.

`src/dnprogs/dnlogin/found.c` is dnlogin's end of a DECnet SEQPACKET link
to a remote host's foundation services. `found_read` receives one record and
dispatches on its first byte:
- BIND is answered with BINDACCEPT;
- UNBIND ends the link;
- ENTERMODE is answered with NOMODE;
- COMMONDATA is a list of length-prefixed segments, each handed to the
  terminal processor.

`found_common_write` sends one buffer as a COMMONDATA record.

The two ends interact only through frames. A client connection (a local
port) talks to a server connection on the peer. Each connection is driven by
one single-threaded event loop, which handles one frame or one tick at a time
(spec §5).

## Modules

| Module | Models | State | Actions |
|---|---|---|---|
| `LATCircuit` | connection.cc: the two ends of one circuit, with one session each | per end: `alive`, `connected`, `connecting`, `sess`, the sequence members (`lastSeq`, `lastAck`, `lastMsgAcked`, `lastSentSeq`), `window`, `needAck`, `retransmits`, `keepalive`, `lastMessage`, `pending`, `slotsPending`; per direction: a FIFO wire `chan` | `Receive(n)` (process_session_cmd, got_connect_ack, the server constructor and send_connect_ack), `CircuitTimerTick(n)` (the whole circuit_timer), `ClientConnect` (connect), `RemoveSession` (remove_session), the user's `ClientWrite`/`ClientClose`, the network's `LoseFrame` and `CircuitGone` |
| `MC_LATCircuit` | bounds for TLC | constants `MaxFrames`, `MaxChan`; constraint `Bounded` | |
| `SessionTable` | connection.cc: one connection's table, allocator and queued-slave link | `role`, `sessions`, `closing`, `nextSession`, `stray`, `queuedSlave`, `masterConn`, `alive`, `reply` | `StartSession` (0x90), `Disconnect(id)` (0xC0/0xD0), `CreateSession`, `SessionEnds`, `RemoveSession`, `ConnectionDeleted`, `MasterDeleted` |
| `SlotDispatch` | connection.cc 117-415: the slot loop of `process_session_cmd` for one frame | `role`, `sessions`, `left` (slots still to read), `rr`, `reply` (the array `reply[]` and the memory after it), `numReplies`, `replyhere`, `pc`, `sent` | `NoSlots` (num_slots 0), `Dispatch` (one pass of the loop: data, start, port info, attention, disconnect, unknown subtype), `Truncated` (`ptr` reaches `len`), `SendReplies` |
| `DntaskParse` | dntask.c: `parse()` and `setup_link()` | the argument `form`, the parse state `st`, the indices `n0` and `n1`, the fields `node`, `user`, `pass`, `acct`, `fileLen`, `result` | `NodeStep`, `UserStep`, `PasswordStep`, `AccountStep`, `NameStep` (one per case of the switch), `Validate` (the tail validation), `SetupLink` |
| `FoundRead` | found.c: `found_setup_link`, `found_read`, `found_common_write` | `link`, the peer's records `chan`, the record being split `msg` and its `ptr`, the segments `delivered` and `expected`, the records written `out`, `writes` | `SetupLink`, `RecvAgain` (EAGAIN), `RecvError`, one action per record type (`Bind`, `Unbind`, `EnterMode`, `CommonData`, `Ignored` for type 2 and unknown types), `CommonSegment` and `CommonEnd` (the segment loop), `CommonWrite` |
| `LATCPCircuit` | latcpcircuit.cc | `state`, `open`, the request `inbox`, `replies`, the log `handled`, the server settings | `LatcpSend(r)` (the tool), `DoCommand` (do_command, including short reads and the negotiation check) |

Data is abstracted. Payloads are model values. A slot is a record
[cmd, arg]. A frame is [type, seq, ack, rr, slots]. Sequence numbers keep
their unsigned-char width (`Inc(b) == (b+1) % 256`), because the client
starts at 255 and wraps on its first frame. `MaxWindowSize` is 1, as the code
forces, so a packet carries one slot.

Some values are read before they are ever assigned:
- `need_ack`, `last_sent_sequence` and `last_message` of a client connection;
- `last_message_acked` of a server connection.

For these the model chooses from what the heap can hold: the constant
`HeapInit` contains "zeroed" and, optionally, "garbage".

Some code is not under `src/` and is modelled from the spec. Such definitions
are marked `spec_modelled` in the map:
- the LATServer frame dispatch;
- the ClientSession pty;
- a session's own decision to end;
- the latcp tool.

In SessionTable a session is removed only by a later `remove_session`,
because the spec says a connection is never destroyed inside a callback.
LATCircuit gives the server session a "closing" state for the same reason.

## Runs

| Run | Module / cfg | Expect | Checks |
|---|---|---|---|
| circuit | MC_LATCircuit_circuit | pass | `TypeOK`, `DeliveredInOrder`, with one frame lost, data in both directions and retransmit limit 0 |
| dup | MC_LATCircuit_dup | violation | `NoDuplicateDelivery` |
| seqreuse | MC_LATCircuit_seqreuse | violation | `NoSilentLoss` |
| connect | MC_LATCircuit_connect | violation | `ConnectCompletes` (liveness, `FairSpec`) |
| table | SessionTable_table | pass | `TypeOK`, `AllocMatchesReference` |
| master | SessionTable_master | violation | `MasterValidAtDestroy` |
| slotorder | SlotDispatch_order | pass | `TypeOK` (the reply array, counters and slot loop state stay in range) for frames of up to four slots |
| replyoverflow | SlotDispatch_overflow | violation | `ReplyArrayBound` with five slots |
| leak | SessionTable_leak | violation | `SessionsReleased` |
| taskparse | DntaskParse_parse | pass | `ParseMatchesReference` on every argument of the documented form |
| found | FoundRead_link | pass | `DeliveredAsFramed` on every script of well-formed records |
| latcp | LATCPCircuit_run | pass | `TypeOK`, `NoCommandBeforeVersion` and the liveness `ServedOrClosed`, under `FairSpec` |

What the violation runs show (details in `PROJECT.json` "findings"):

- **dup**: a retransmitted frame is delivered twice, on a reliable link. The
  receiver's own reply moves `last_sequence_number` on, so the copy no longer
  matches the saved pair (connection.cc:137).
- **seqreuse**: data is lost on a reliable link. A keepalive crossing a data
  frame carries an old ack, and line 140 rolls `last_sequence_number` back to
  it. The next data frame reuses a number, the peer drops it as a duplicate,
  and its reply acknowledges it. On a lossy link the tick also clears
  `need_ack` without resending (641).
- **connect**: the tick resends only when `last_sequence_number` differs from
  `last_sent_sequence`, and `send_message` has made them equal. A lost CONNECT
  is therefore never resent, and the client stays connecting forever (608).
- **master**: `is_queued_reconnect` sets `queued_slave` before the master is
  looked up. An unknown request id leaves `master_conn` NULL, and the
  destructor dereferences it (982, 518).
- **replyoverflow**: every replying slot command writes `reply[num_replies]`
  with no bound, and `reply` has four entries (128). A peer frame with five
  port-information (0xA0) slots, or five data slots for missing sessions,
  writes past the array on the stack.
- **leak**: spec §5 says destroying a Connection releases all the Sessions
  it owns. The destructor of a queued slave only restarts the master's pty,
  and never deletes the sessions in its own table (516). A slave deleted
  with a session in its table leaves that session alive.

Some hazards are modelled as the code has them, but no run states them:
- the LATCircuit window bound (the keepalive is sent as DATA with the
  window full, 602);
- the missing 0xD1 for the last disconnect (365);
- the resend of a never-assigned `last_message` by a client connection
  whose `need_ack` is heap garbage (635);
- the never-written `reply[0]` sent when only `replyhere` is set (404);
- the START on a full table that stores the new session at `sessions[-1]`
  (289, 323). SessionTable keeps its `stray` flag. The run that stated it
  was retired to keep the number of runs within budget, since a unit test
  that fills the table reaches this case.

They are listed as hazards in `PROJECT.json`.

Every property of a passing run has a mutant in `PROJECT.json`: a plausible
bug in a mapped definition that TLC finds. The mutants are:
- the sequence counter without its 8-bit wrap;
- packing the slot queue newest first;
- the allocator loop bound off by one;
- the allocator without its wrap-around loop;
- send_reply echoing the request code;
- the negotiation check dropped;
- a refused latcp command that leaves the socket open;
- the USER field limit tested with `>` instead of `>=`;
- the commented-out `num_replies++` of the no-echo acknowledgement restored;
- a COMMONDATA segment length read big-endian;

## Bounds and why they are enough

- **LATCircuit.** There are two data items from the client, and one from the
  server in the circuit run. `MaxFrames` (11-12) bounds the frames both ends
  send together. `MaxChan` (1 in the circuit run, 2 in the violation runs)
  bounds the frames in flight towards one end. `MaxLoss` (0 or 1) bounds the
  frames lost. `CircuitTimer` 100 with `KeepaliveTimer` 1 makes a keepalive
  due every two ticks.

  With these values:
  - both data items are delivered;
  - a keepalive crosses a data frame;
  - the client's sequence number wraps from 255 to 0.

  The circuit run has retransmit limit 0 and `MaxChan` 1, so a lost
  frame makes the tick give up on the circuit instead of resending it:
  the run checks ordered delivery on a link that loses a frame, not the
  retransmission path. Resending is reached in the violation runs, whose
  traces lie well inside their bounds.
- **SessionTable.** `MaxSessions` = 4 gives slots 1-3. That is enough to fill
  the table, free a slot below the cursor and wrap. The allocator is checked
  against the set-based `ReferenceNext` in every reachable (table, cursor)
  pair.
- **SlotDispatch.** Two addressable slots and `MaxSlots` 4 (5 in the
  overflow run). Four replying slots fill `reply[]` exactly, and the fifth
  overruns it. Every subtype, every session answer and every header bit is
  a free choice, so each frame of up to that many slots is covered.
- **DntaskParse.** Every argument of the form
  `node"user password account"::name` is generated from the usage text.
  Each field has 0 up to one character over its limit, the closing quote is
  `"` or `'`, and there are 0 to 3 access fields. `MAX_NODE` keeps its value
  of 6. `MAX_USER`, `MAX_PASSWORD` and `MAX_ACCOUNT` are 2 instead of 12:
  each is only compared with `n1`, so the limit and the one-over case behave
  the same. Task names of 0, 1 and 17 characters reach the "TASK" default
  and the 16-character test of `setup_link`. The check compares `parse()`
  with `Expected`, the field split the grammar defines, in all 12288
  arguments.
- **FoundRead.** The peer sends every script of up to three records. A
  record is one of the following:
  - a BIND with OS byte 7 (the only effect of the OS byte is the debug
    print of `hosttype[]`, which is not modelled);
  - UNBIND, ENTERMODE, the reserved type 2 or EXITMODE, which the switch
    does not know;
  - a COMMONDATA record of 0 to 2 segments.

  Segments are 1 or 258 bytes long. 258 has a non-zero high length byte, so
  byte order matters. Records stay below the 1024 bytes of `inbuf`.
  There is one call of `found_common_write`. The run checks 68,876
  states.
- **LATCPCircuit.** Three requests over a socket, one name and two retransmit
  limits. That is enough for a negotiation followed by two commands in any
  order, or for any command sent before negotiation.

## Fairness

`FairSpec` assumes weak fairness of `CircuitTimerTick(n)` and `Receive(n)`
for each end. The event loop polls its sockets and runs the circuit timer
periodically, so an enabled tick or a frame that has arrived is eventually
handled. No fairness is assumed for the user, the network or losses.

LATCPCircuit's `FairSpec` assumes weak fairness of `DoCommand`. latd's main
loop polls every latcp socket and calls `do_command` when one is readable.
Nothing is assumed of the latcp tool.

## Not modelled

- **The queued-connection path of `connect`** (791-826), and the failure
  of its service lookup (758-779), which only tells the session. Port information
  (0xA0), attention (0xB0) and unknown subtypes are modelled in SlotDispatch
  only, because they do not change the circuit state machine.
- **More than one session per circuit in LATCircuit.** SessionTable covers
  the table alone.
- **`interfaces-linux.cc`**: raw socket I/O, abstracted as FIFO wires that
  may lose frames.
- **dntask's I/O loops** (`print_output`, `be_interactive`): they copy
  bytes between the socket and the terminal. Their one hazard, `buf[len-1]`
  with `len` 0 (93), is byte-level.
- **Arguments outside the documented form, and long names**, for
  DntaskParse. The model reads past the nul (`Read` returns any character
  there) but does not track the sizes of `filename`, `acc_acc` and
  `sdn_objname`. The reads past the end of a node without "::" (300), and
  the overflows of a 128-character name (404) or a 40-character LOGNAME
  (429), are listed as hazards, and no run states them.
- **Malformed foundation records**, for FoundRead. The run's peer sends
  only what the framing defines. The code does not check a segment length
  against the record (218), nor the BIND OS byte against `hosttype[]` (195).
  These cases are listed as hazards; no run states them.
- **dnlogin's cterm and tty layers and main loop.** `dnlogin.h` only
  declares them; their code is not in this repository. The terminal
  processor is the sink of `delivered`. The caller is assumed to call
  `found_read` until it returns -1, so no fairness is stated for it.
- **dncopy and fal.** `fal.cc` is option parsing and a call into a server
  class that is not in this repository. `dnetfile_dap.cc` is a set of DAP
  request/reply helpers over message classes that are not in the
  repository either. The order of calls comes from `dnetfile.cc`, which is
  also missing. Its hazards are listed in `PROJECT.json`: a `||` for `|`
  (74), messages not deleted on early returns (153), and a record length
  never compared with the buffer (258).
- **The length of a latcp request body** (latcpcircuit.cc:84). LATCPCircuit
  abstracts a request to its meaning, so an empty body, or a VERSION string
  without its NUL, is not represented.

## Plan for further work

- Model the queued-connection request in LATCircuit, with the master/slave
  link shared with SessionTable.
- Generate dntask arguments outside the documented form, to state the reads
  past the nul and the `filename` overflow in a run of their own.
- Add two sessions per circuit, so that slots coalesce into one packet.
- State an abstract reliable-channel specification and show LATCircuit
  refines it under a corrected duplicate test. As the code stands, the refinement fails.
- Generate malformed foundation records (segment lengths past the record,
  OS bytes outside `hosttype[]`) and state the over-reads of found.c in a
  violation run.
