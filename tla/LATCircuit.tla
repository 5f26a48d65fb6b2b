------------------------------ MODULE LATCircuit ------------------------------
(***************************************************************************)
(* One LAT virtual circuit of latd (src/latd/connection.cc): the CLIENT   *)
(* LATConnection of a client port and the SERVER LATConnection that the   *)
(* remote latd creates when the CONNECT frame arrives, exchanging frames  *)
(* over an Ethernet link that keeps order and may drop frames.            *)
(*                                                                         *)
(* Both ends run the same code, so the peer of each end is the code too.  *)
(* Frame layout is abstracted to the header fields the engine reads       *)
(* (type, sequence, ack, response-requested bit) and the slot records;    *)
(* a session is abstracted to its state and the data it writes/receives.  *)
(***************************************************************************)
EXTENDS Integers, Sequences, SequencesExt, FiniteSets

CONSTANTS
    Client, Server,    \* the two LATConnection objects of the circuit
    ClientData,        \* units of terminal data the client session writes
    ServerData,        \* units of terminal data the server session writes
    NoFrame,           \* the never-assigned value of member last_message
    RetransmitLimit,   \* LATServer::get_retransmit_limit()
    CircuitTimer,      \* LATServer::get_circuit_timer(), 1/100 s per tick
    KeepaliveTimer,    \* LATServer::get_keepalive_timer(), in seconds
    HeapInit,          \* what a member no constructor sets reads as
    MaxLoss            \* frames the Ethernet may drop in one behaviour

ASSUME HeapInit \subseteq {"zeroed", "garbage"} /\ HeapInit # {}
ASSUME MaxLoss \in Nat
ASSUME ClientData \cap ServerData = {}

Payload == ClientData \cup ServerData
ASSUME RetransmitLimit \in Nat /\ CircuitTimer \in Nat \ {0}
ASSUME KeepaliveTimer \in Nat

Ends == {Client, Server}
Peer(n) == IF n = Client THEN Server ELSE Client
Byte == 0..255
\* The increment with the byte width of the sequence numbers lost.
IncUnbounded(b) == b + 1
Inc(b) == (b + 1) % 256                 \* unsigned char ++

\* Constructors: max_window_size = 1 ("All we can manage"), and the
\* slots-per-packet rule that follows from it.
MaxWindowSize == 1
MaxSlotsPerPacket == IF MaxWindowSize < 4 THEN 1 ELSE 4

\* Slot records. The subtype nibble is cmd; arg is the payload of a data
\* slot ("credit" for a zero-length one) or the reason of a disconnect.
StartSlot == [cmd |-> "START", arg |-> "none"]
CreditSlot == [cmd |-> "DATA", arg |-> "credit"]
DataSlot(d) == [cmd |-> "DATA", arg |-> d]
DiscSlot(r) == [cmd |-> "DISC", arg |-> r]
Slot == {StartSlot, CreditSlot} \cup {DataSlot(d) : d \in Payload}
          \cup {DiscSlot(r) : r \in {"D1", "D3", "D7", "disabled", "user"}}

FrameTypes == {"CONNECT", "CONACK", "SESSION", "DISC"}
Frame(type, rr, slots) ==
    [type |-> type, seq |-> 0, ack |-> 0, rr |-> rr, slots |-> slots]

\* Session states: a client session is idle until its device is opened,
\* waits for the circuit, sends its start slot and runs; a server
\* session exists ("running") from the start slot until disconnected,
\* and is "closing" until the server removes it from the table.
SessStates == {"idle", "waiting", "starting", "running", "closing", "none"}

VARIABLES
    alive,          \* the LATConnection object exists
    connected,      \* member connected (client)
    connecting,     \* member connecting (client)
    sess,           \* state of the session in slot 1
    lastSeq,        \* last_sequence_number
    lastAck,        \* last_ack_number
    lastMsgAcked,   \* last_message_acked
    lastSentSeq,    \* last_sent_sequence
    window,         \* window_size
    needAck,        \* need_ack
    retransmits,    \* retransmit_count
    keepalive,      \* keepalive_timer
    lastMessage,    \* last_message, kept for retransmission
    pending,        \* queue<pending_msg> pending: slot lists awaiting the window
    slotsPending,   \* queue<slot_cmd> slots_pending
    chan,           \* chan[n]: frames on the wire towards n
    sent,           \* frames each end has put on the wire (bound only)
    lost,           \* frames the Ethernet has dropped (bound only)
    written,        \* history: payloads each end's session wrote, in order
    delivered       \* history: payloads and start slots each session accepted

connVars == <<alive, connected, connecting, sess>>
seqVars  == <<lastSeq, lastAck, lastMsgAcked, lastSentSeq>>
sendVars == <<window, needAck, retransmits, keepalive, lastMessage>>
queueVars == <<pending, slotsPending>>
vars == <<connVars, seqVars, sendVars, queueVars, chan, sent, lost, written,
          delivered>>

-----------------------------------------------------------------------------
\* Values of members that no constructor initialises (UB): zeroed heap, or
\* the leftovers the duplicate test and the retransmit test can tell apart.
UninitAcked == {0} \cup (IF "garbage" \in HeapInit THEN {1} ELSE {})

Init ==
    /\ alive = [n \in Ends |-> n = Client]
    /\ connected = [n \in Ends |-> FALSE]
    /\ connecting = [n \in Ends |-> FALSE]
    /\ sess = [n \in Ends |-> IF n = Client THEN "idle" ELSE "none"]
    /\ lastSeq = [n \in Ends |-> IF n = Client THEN 255 ELSE 0]
    /\ lastAck = [n \in Ends |-> IF n = Client THEN 255 ELSE 0]
    /\ lastMsgAcked = [n \in Ends |-> 0]
    /\ window = [n \in Ends |-> 0]
    /\ keepalive = [n \in Ends |-> 0]
    /\ \E h \in HeapInit :
         /\ needAck = [n \in Ends |-> n = Client /\ h = "garbage"]
         /\ lastSentSeq = [n \in Ends |-> 0]
         /\ retransmits = [n \in Ends |-> 0]
         /\ lastMessage = [n \in Ends |-> NoFrame]
    /\ pending = [n \in Ends |-> <<>>]
    /\ slotsPending = [n \in Ends |-> <<>>]
    /\ chan = [n \in Ends |-> <<>>]
    /\ sent = [n \in Ends |-> 0]
    /\ lost = 0
    /\ written = [n \in Ends |-> <<>>]
    /\ delivered = [n \in Ends |-> <<>>]

-----------------------------------------------------------------------------
\* LATServer::send_message: put frame f from n on the wire, where ch is the
\* state of the wire after the frame being handled was taken off it.
Transmit(n, f, ch) ==
    /\ chan' = [ch EXCEPT ![Peer(n)] = Append(@, f)]
    /\ sent' = [sent EXCEPT ![n] = @ + 1]

\* send_message(buf, len, type): seq0, ack0 and window0 are the values of
\* last_sequence_number, last_ack_number and window_size at the call.
SendMessage(n, f, type, seq0, ack0, window0, ch) ==
    LET seq == Inc(seq0)
        out == [f EXCEPT !.seq = seq, !.ack = ack0]
    IN /\ lastSeq' = [lastSeq EXCEPT ![n] = seq]
       /\ keepalive' = [keepalive EXCEPT ![n] = 0]
       /\ Transmit(n, out, ch)
       /\ IF type = "DATA"
          THEN /\ retransmits' = [retransmits EXCEPT ![n] = 0]
               /\ lastSentSeq' = [lastSentSeq EXCEPT ![n] = seq]
               /\ window' = [window EXCEPT ![n] = window0 + 1]
               /\ needAck' = [needAck EXCEPT ![n] = TRUE]
               /\ lastMessage' = [lastMessage EXCEPT ![n] = out]
          ELSE /\ window' = [window EXCEPT ![n] = window0]
               /\ needAck' = [needAck EXCEPT ![n] = FALSE]
               /\ UNCHANGED <<retransmits, lastSentSeq, lastMessage>>

\* send_slot_message: a session hands a slot command to its connection.
SendSlotMessage(n, s) ==
    slotsPending' = [slotsPending EXCEPT ![n] = Append(@, s)]


-----------------------------------------------------------------------------
(* process_session_cmd *)

\* sessions[local_session] is not NULL. A client port keeps its
\* ClientSession for the life of the connection.
HasSession(n) == n = Client \/ sess[n] \in {"running", "closing"}

Outcome(replyhere, replies, deliver, newSess, queue) ==
    [replyhere |-> replyhere, replies |-> replies, deliver |-> deliver,
     sess |-> newSess, queue |-> queue]

\* num_slots == 0: only a server answers a bare acknowledgment.
NoSlots(n) == Outcome(n = Server, <<>>, <<>>, sess[n], <<>>)

\* case 0x00: deliver the data; a server whose session will not echo
\* answers at once, and a peer whose credit is <= 2 is granted 15 more.
\* Data for a slot without a session is answered 0xD3.
DataCmd(n, s, noEcho, lowCredit) ==
    IF HasSession(n)
    THEN Outcome(noEcho /\ n = Server,
                 IF lowCredit THEN <<CreditSlot>> ELSE <<>>,
                 IF s.arg \in Payload THEN <<s.arg>> ELSE <<>>,
                 sess[n], <<>>)
    ELSE Outcome(FALSE, <<DiscSlot("D3")>>, <<>>, sess[n], <<>>)

\* case 0x90: a server answers an unknown service 0xD7, else creates a
\* ServerSession whose new_session answers with its own start slot, or
\* fails and sends the disabled message. A client session got_connection.
StartCmd(n, known, ptyOK) ==
    CASE n = Server /\ ~known ->
            Outcome(FALSE, <<DiscSlot("D7")>>, <<>>, sess[n], <<>>)
      [] n = Server /\ ~ptyOK ->
            Outcome(FALSE, <<>>, <<>>, sess[n], <<DiscSlot("disabled")>>)
      [] n = Server ->
            Outcome(FALSE, <<>>, <<"START">>, "running", <<StartSlot>>)
      [] OTHER ->
            Outcome(FALSE, <<>>, <<>>, "running", <<>>)

\* case 0xC0, 0xD0: disconnect the session. A client port keeps its
\* ClientSession, which restarts its pty. A server session is removed from
\* the table only later, off the stack, so num_clients() still counts it
\* and 0xD1 "no more slots on circuit" answers only a slot with no session.
DiscCmd(n) ==
    CASE n = Client ->
            Outcome(FALSE, <<>>, <<>>, "idle", <<>>)
      [] HasSession(n) ->
            Outcome(FALSE, <<>>, <<>>, "closing", <<>>)
      [] OTHER ->
            Outcome(FALSE, <<DiscSlot("D1")>>, <<>>, sess[n], <<>>)

\* The slot loop. Frames of this circuit carry at most MaxSlotsPerPacket
\* (= 1) slots; replies to them carry at most one slot too.
SlotOutcome(n, f, noEcho, lowCredit, known, ptyOK) ==
    IF f.slots = <<>>
    THEN NoSlots(n)
    ELSE LET s == Head(f.slots)
         IN CASE s.cmd = "DATA"  -> DataCmd(n, s, noEcho, lowCredit)
              [] s.cmd = "START" -> StartCmd(n, known, ptyOK)
              [] s.cmd = "DISC"  -> DiscCmd(n)

\* The duplicate test: the incoming (ack, seq) pair equals the saved
\* (last_sequence_number, last_message_acked) pair.
IsDuplicate(n, f) == lastSeq[n] = f.ack /\ lastMsgAcked[n] = f.seq

\* Answer with a REPLY if a slot asked for it, the peer set "response
\* requested", or there are reply slots; w is the decremented window.
SendReplies(n, f, o, w, ch) ==
    IF o.replyhere \/ f.rr \/ o.replies # <<>>
    THEN SendMessage(n, Frame("SESSION", FALSE, o.replies), "REPLY",
                     f.ack, f.seq, w, ch)
    ELSE /\ lastSeq' = [lastSeq EXCEPT ![n] = f.ack]
         /\ window' = [window EXCEPT ![n] = w]
         /\ chan' = ch
         /\ UNCHANGED <<sent, keepalive, retransmits, lastSentSeq, needAck,
                        lastMessage>>

\* window_size--, floored at 0: any received frame frees the window.
WindowReleased(w) == IF w - 1 < 0 THEN 0 ELSE w - 1

\* window_size is decremented before the duplicate test; a duplicate
\* leaves only that decrement behind.
ProcessSessionCmd(n, f, ch) ==
    LET w == WindowReleased(window[n])
    IN /\ lastMsgAcked' = [lastMsgAcked EXCEPT ![n] = f.seq]
       /\ IF IsDuplicate(n, f)
          THEN /\ window' = [window EXCEPT ![n] = w]
               /\ chan' = ch
               /\ UNCHANGED <<lastSeq, lastAck, lastSentSeq, needAck,
                              retransmits, keepalive, lastMessage, sess,
                              slotsPending, delivered, sent>>
          ELSE \E noEcho, lowCredit, known, ptyOK \in BOOLEAN :
               LET o == SlotOutcome(n, f, noEcho, lowCredit, known, ptyOK)
               IN /\ lastAck' = [lastAck EXCEPT ![n] = f.seq]
                  /\ sess' = [sess EXCEPT ![n] = o.sess]
                  /\ slotsPending' = [slotsPending EXCEPT ![n] = @ \o o.queue]
                  /\ delivered' = [delivered EXCEPT ![n] = @ \o o.deliver]
                  /\ SendReplies(n, f, o, w, ch)
       /\ UNCHANGED <<alive, connected, connecting, pending, written>>

-----------------------------------------------------------------------------
(* Connection set-up *)

\* Constructor of a server connection: last_sequence_number = the frame's
\* ack, last_ack_number = its seq; last_message_acked is never set.
NewServerConnection(f) ==
    /\ alive' = [alive EXCEPT ![Server] = TRUE]
    /\ lastAck' = [lastAck EXCEPT ![Server] = f.seq]
    /\ \E junk \in UninitAcked :
          lastMsgAcked' = [lastMsgAcked EXCEPT ![Server] = junk]

\* send_connect_ack: a CONACK sent as DATA on a window of 0.
SendConnectAck(f, ch) ==
    SendMessage(Server, Frame("CONACK", FALSE, <<>>), "DATA", f.ack, f.seq,
                0, ch)

\* LATServer on a CONNECT for no existing circuit.
ServerAccept(f, ch) ==
    /\ NewServerConnection(f)
    /\ SendConnectAck(f, ch)
    /\ UNCHANGED <<connected, connecting, sess, queueVars, written, delivered>>

\* got_connect_ack: adopt the peer's numbers, mark connected, and start
\* the sessions waiting for the circuit.
GotConnectAck(f, ch) ==
    /\ lastSeq' = [lastSeq EXCEPT ![Client] = f.ack]
    /\ lastMsgAcked' = [lastMsgAcked EXCEPT ![Client] = f.seq]
    /\ lastAck' = [lastAck EXCEPT ![Client] = f.seq]
    /\ connected' = [connected EXCEPT ![Client] = TRUE]
    /\ connecting' = [connecting EXCEPT ![Client] = FALSE]
    /\ LET start == IF sess[Client] = "waiting" THEN <<StartSlot>> ELSE <<>>
       IN /\ sess' = [sess EXCEPT ![Client] = IF start # <<>> THEN "starting" ELSE @]
          /\ slotsPending' = [slotsPending EXCEPT ![Client] = @ \o start]
    /\ chan' = ch
    /\ UNCHANGED <<alive, lastSentSeq, sendVars, pending, sent, written,
                   delivered>>

\* remove_session for the disconnected server session: the table is empty,
\* so the connection is deleted; nothing is sent to the peer.
RemoveSession ==
    /\ alive[Server]
    /\ sess[Server] = "closing"
    /\ sess' = [sess EXCEPT ![Server] = "none"]
    /\ alive' = [alive EXCEPT ![Server] = FALSE]
    /\ UNCHANGED <<connected, connecting, seqVars, sendVars, queueVars, chan,
                   sent, lost, written, delivered>>

\* LATServer on a DISC frame: the circuit is gone at this end.
RemoteDisconnect(n, ch) ==
    /\ alive' = [alive EXCEPT ![n] = FALSE]
    /\ chan' = ch
    /\ UNCHANGED <<connected, connecting, sess, seqVars, sendVars, queueVars,
                   sent, written, delivered>>

Discard(ch) ==
    /\ chan' = ch
    /\ UNCHANGED <<connVars, seqVars, sendVars, queueVars, sent, written,
                   delivered>>

\* LATServer's dispatch of the frame at the head of the wire towards n.
Receive(n) ==
    /\ chan[n] # <<>>
    /\ LET f == Head(chan[n])
           ch == [chan EXCEPT ![n] = Tail(@)]
       IN IF f = NoFrame THEN Discard(ch)
          ELSE CASE n = Server /\ ~alive[n] /\ f.type = "CONNECT" ->
                        ServerAccept(f, ch)
                 [] alive[n] /\ f.type = "SESSION" -> ProcessSessionCmd(n, f, ch)
                 [] n = Client /\ alive[n] /\ f.type = "CONACK" ->
                        GotConnectAck(f, ch)
                 [] alive[n] /\ f.type = "DISC" -> RemoteDisconnect(n, ch)
                 [] OTHER -> Discard(ch)
    /\ UNCHANGED lost

\* connect(session), called when the user opens the client device: a
\* first session sends CONNECT (as DATA, with the numbers reset to 0xff),
\* a later one just sends its start slot. The service lookup is taken to
\* succeed: its failure (758-779) only tells the session (reason 7) and
\* changes no circuit state. The queued request (791-826) is not modelled.
ClientConnect ==
    /\ alive[Client]
    /\ sess[Client] = "idle"
    /\ ~connecting[Client]
    /\ IF ~connected[Client]
       THEN /\ sess' = [sess EXCEPT ![Client] = "waiting"]
            /\ connecting' = [connecting EXCEPT ![Client] = TRUE]
            /\ lastAck' = [lastAck EXCEPT ![Client] = 255]
            /\ SendMessage(Client, Frame("CONNECT", FALSE, <<>>), "DATA",
                           255, 255, window[Client], chan)
            /\ UNCHANGED <<alive, connected, lastMsgAcked, queueVars, written,
                           delivered>>
       ELSE /\ sess' = [sess EXCEPT ![Client] = "starting"]
            /\ SendSlotMessage(Client, StartSlot)
            /\ UNCHANGED <<alive, connected, connecting, seqVars, sendVars,
                           pending, chan, sent, written, delivered>>
    /\ UNCHANGED lost

-----------------------------------------------------------------------------
(* circuit_timer *)

Unwritten(n) ==
    (IF n = Client THEN ClientData ELSE ServerData) \ ToSet(written[n])

\* The keepalive timer runs at a server and at a connected client.
KeepaliveRuns(n) == n = Server \/ connected[n]

\* An empty frame sent as DATA when the keepalive timer has expired.
SendKeepalive(n) ==
    /\ SendMessage(n, Frame("SESSION", FALSE, <<>>), "DATA", lastSeq[n],
                   lastAck[n], window[n], chan)
    /\ UNCHANGED <<connVars, lastAck, lastMsgAcked, queueVars, written,
                   delivered>>

\* More than retransmit_limit resends: send DISC (reason 6) raw, delete
\* the connection and remove the node from the service list.
RetransmitLimitHit(n, ka) ==
    /\ needAck' = [needAck EXCEPT ![n] = FALSE]
    /\ retransmits' = [retransmits EXCEPT ![n] = @ + 1]
    /\ keepalive' = [keepalive EXCEPT ![n] = ka]
    /\ Transmit(n, [Frame("DISC", FALSE, <<>>) EXCEPT !.seq = lastSeq[n],
                                                   !.ack = lastAck[n]], chan)
    /\ alive' = [alive EXCEPT ![n] = FALSE]
    /\ UNCHANGED <<connected, connecting, sess, seqVars, window, lastMessage,
                   queueVars, written, delivered>>

\* Resend the saved buffer of the last DATA frame as it was.
Resend(n, ka) ==
    /\ retransmits' = [retransmits EXCEPT ![n] = @ + 1]
    /\ keepalive' = [keepalive EXCEPT ![n] = ka]
    /\ Transmit(n, lastMessage[n], chan)
    /\ UNCHANGED <<connVars, seqVars, window, needAck, lastMessage, queueVars,
                   written, delivered>>

\* read_pty of a server session: it may have data for the peer.
ReadPty(n) ==
    IF n = Server /\ sess[n] = "running"
    THEN {<<>>} \cup {<<DataSlot(d)>> : d \in Unwritten(n)}
    ELSE {<<>>}

\* Coalescing that queues the packets newest first.
RECURSIVE PacketsNewestFirst(_, _)
PacketsNewestFirst(s, k) ==
    IF s = <<>> THEN <<>>
    ELSE LET m == IF Len(s) < k THEN Len(s) ELSE k
         IN PacketsNewestFirst(SubSeq(s, m + 1, Len(s)), k) \o <<SubSeq(s, 1, m)>>

\* Coalesce slot commands into packets of at most k slots.
RECURSIVE Packets(_, _)
Packets(s, k) ==
    IF s = <<>> THEN <<>>
    ELSE LET m == IF Len(s) < k THEN Len(s) ELSE k
         IN <<SubSeq(s, 1, m)>> \o Packets(SubSeq(s, m + 1, Len(s)), k)

\* Send the head pending message if the window allows: a server's data
\* is SDATA, which asks for a response.
SendPending(n, pend) ==
    LET seq == Inc(lastSeq[n])
        out == [Frame("SESSION", n = Server, Head(pend))
                    EXCEPT !.seq = seq, !.ack = lastAck[n]]
    IN /\ lastSeq' = [lastSeq EXCEPT ![n] = seq]
       /\ lastSentSeq' = [lastSentSeq EXCEPT ![n] = seq]
       /\ needAck' = [needAck EXCEPT ![n] = TRUE]
       /\ retransmits' = [retransmits EXCEPT ![n] = 0]
       /\ Transmit(n, out, chan)
       /\ lastMessage' = [lastMessage EXCEPT ![n] = out]
       /\ pending' = [pending EXCEPT ![n] = Tail(pend)]
       /\ window' = [window EXCEPT ![n] = @ + 1]
       /\ keepalive' = [keepalive EXCEPT ![n] = 0]

\* pending.push: coalesced packets join the back of the pending queue.
Push(q, msgs) == q \o msgs

\* The last message counts as acknowledged: poll the sessions, coalesce
\* the slot queue into the pending queue and send its head if we can.
FlushQueues(n, ka) ==
    \E w \in ReadPty(n) :
      LET pend == Push(pending[n], Packets(slotsPending[n] \o w, MaxSlotsPerPacket))
      IN /\ slotsPending' = [slotsPending EXCEPT ![n] = <<>>]
         /\ written' = [written EXCEPT ![n] = @ \o [i \in 1..Len(w) |-> w[i].arg]]
         /\ IF pend # <<>> /\ window[n] < MaxWindowSize
            THEN SendPending(n, pend)
            ELSE /\ pending' = [pending EXCEPT ![n] = pend]
                 /\ needAck' = [needAck EXCEPT ![n] = FALSE]
                 /\ retransmits' = [retransmits EXCEPT ![n] = 0]
                 /\ keepalive' = [keepalive EXCEPT ![n] = ka]
                 /\ UNCHANGED <<lastSeq, lastSentSeq, window, lastMessage,
                                chan, sent>>
         /\ UNCHANGED <<connVars, lastAck, lastMsgAcked, delivered>>

CircuitTimerTick(n) ==
    LET ka == IF KeepaliveRuns(n) THEN keepalive[n] + CircuitTimer
                                  ELSE keepalive[n]
    IN /\ alive[n]
       /\ IF KeepaliveRuns(n) /\ ka > KeepaliveTimer * 100
          THEN SendKeepalive(n)
          ELSE IF needAck[n] /\ lastSeq[n] # lastSentSeq[n]
               THEN IF retransmits[n] + 1 > RetransmitLimit
                    THEN RetransmitLimitHit(n, ka)
                    ELSE Resend(n, ka)
               ELSE FlushQueues(n, ka)
       /\ UNCHANGED lost

-----------------------------------------------------------------------------
(* The environment: the client user and the Ethernet *)

\* The client session reads its pty and queues a data slot.
ClientWrite ==
    /\ alive[Client]
    /\ sess[Client] = "running"
    /\ \E d \in Unwritten(Client) :
          /\ SendSlotMessage(Client, DataSlot(d))
          /\ written' = [written EXCEPT ![Client] = Append(@, d)]
    /\ UNCHANGED <<connVars, seqVars, sendVars, pending, chan, sent, delivered>>
    /\ UNCHANGED lost

\* The user closes the client device: the ClientSession sends a disconnect
\* slot and waits for the device to be opened again.
ClientClose ==
    /\ alive[Client]
    /\ sess[Client] = "running"
    /\ sess' = [sess EXCEPT ![Client] = "idle"]
    /\ SendSlotMessage(Client, DiscSlot("user"))
    /\ UNCHANGED <<alive, connected, connecting, seqVars, sendVars, pending,
                   chan, sent, written, delivered>>
    /\ UNCHANGED lost

LoseFrame(n) ==
    /\ lost < MaxLoss
    /\ lost' = lost + 1
    /\ \E i \in 1..Len(chan[n]) : chan' = [chan EXCEPT ![n] = RemoveAt(@, i)]
    /\ UNCHANGED <<connVars, seqVars, sendVars, queueVars, sent, written,
                   delivered>>

\* Both connection objects are gone: the circuit has ended.
CircuitGone ==
    /\ \A n \in Ends : ~alive[n] /\ chan[n] = <<>>
    /\ UNCHANGED vars

Next ==
    \/ ClientConnect
    \/ ClientWrite
    \/ ClientClose
    \/ RemoveSession
    \/ \E n \in Ends : Receive(n) \/ CircuitTimerTick(n) \/ LoseFrame(n)
    \/ CircuitGone

Spec == Init /\ [][Next]_vars

\* The circuit timer keeps firing at a live end and LATServer keeps reading
\* the socket; the user and the Ethernet's losses are not obliged to act.
FairSpec == Spec /\ \A n \in Ends : WF_vars(CircuitTimerTick(n)) /\ WF_vars(Receive(n))

-----------------------------------------------------------------------------
(* Properties *)

FrameRec == [type : FrameTypes, seq : Byte, ack : Byte, rr : BOOLEAN,
             slots : Seq(Slot)]

\* Every variable has its type; sequence numbers stay unsigned chars
\* (send_message's ++ wraps at 256).
TypeOK ==
    /\ alive \in [Ends -> BOOLEAN]
    /\ connected \in [Ends -> BOOLEAN]
    /\ connecting \in [Ends -> BOOLEAN]
    /\ sess \in [Ends -> SessStates]
    /\ lastSeq \in [Ends -> Byte]
    /\ lastAck \in [Ends -> Byte]
    /\ lastMsgAcked \in [Ends -> Byte]
    /\ lastSentSeq \in [Ends -> Byte]
    /\ window \in [Ends -> Nat]
    /\ needAck \in [Ends -> BOOLEAN]
    /\ retransmits \in [Ends -> Nat]
    /\ keepalive \in [Ends -> Nat]
    /\ lastMessage \in [Ends -> FrameRec \cup {NoFrame}]
    /\ pending \in [Ends -> Seq(Seq(Slot))]
    /\ slotsPending \in [Ends -> Seq(Slot)]
    /\ chan \in [Ends -> Seq(FrameRec \cup {NoFrame})]
    /\ written \in [Ends -> Seq(Payload)]
    /\ delivered \in [Ends -> Seq(Payload \cup {"START"})]

\* The payloads a session accepted, in the order it accepted them.
Received(n) == SelectSeq(delivered[n], LAMBDA x : x \in Payload)

Position(s, x) == CHOOSE i \in 1..Len(s) : s[i] = x

\* Terminal data crosses the circuit in the order the peer's session wrote
\* it (pty reads coalesced into slots_pending, then pending, then one frame
\* at a time under the window of 1): every payload a session accepts was
\* written by the peer, and none is accepted after one written later.
DeliveredInOrder ==
    \A n \in Ends :
      LET r == Received(n)
          w == written[Peer(n)]
      IN /\ \A i \in 1..Len(r) : r[i] \in ToSet(w)
         /\ \A i, j \in 1..Len(r) :
              i < j => Position(w, r[i]) <= Position(w, r[j])

\* A retransmitted or crossing copy of a data frame is recognised as a
\* duplicate by process_session_cmd, so no payload reaches a session twice.
NoDuplicateDelivery == \A n \in Ends : IsInjective(Received(n))

\* Nothing the client's session wrote is lost while both connections live:
\* each payload is delivered, still queued at the client, on the wire, or
\* held in last_message awaiting its acknowledgment.
NoSilentLoss ==
    \A d \in ToSet(written[Client]) :
      \/ d \in ToSet(Received(Server))
      \/ ~alive[Client] \/ ~alive[Server]
      \/ DataSlot(d) \in ToSet(slotsPending[Client])
      \/ \E i \in 1..Len(pending[Client]) : DataSlot(d) \in ToSet(pending[Client][i])
      \/ \E i \in 1..Len(chan[Server]) :
            chan[Server][i] # NoFrame /\ DataSlot(d) \in ToSet(chan[Server][i].slots)
      \/ needAck[Client] /\ lastMessage[Client] # NoFrame
         /\ DataSlot(d) \in ToSet(lastMessage[Client].slots)

\* A client connection that sent CONNECT eventually has its circuit up or
\* is gone.
ConnectCompletes ==
    \A n \in Ends : connecting[n] ~> (connected[n] \/ ~alive[n])

=============================================================================
