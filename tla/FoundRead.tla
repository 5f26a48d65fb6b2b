----------------------------- MODULE FoundRead -----------------------------
(***************************************************************************)
(* dnlogin's foundation-services link (src/dnprogs/dnlogin/found.c):      *)
(* found_setup_link() opens the DECnet connection, found_read() receives  *)
(* one record of the SEQPACKET socket and dispatches it on its first     *)
(* byte, and found_common_write() frames a buffer of terminal data as a  *)
(* COMMONDATA message. A COMMONDATA record holds, after its two-byte     *)
(* header, a list of segments, each a two-byte little-endian length and  *)
(* that many bytes, which the loop at lines 215-226 hands one by one to   *)
(* the terminal processor.                                                 *)
(*                                                                         *)
(* The peer is the remote host. It sends a script of records chosen at   *)
(* the start; SEQPACKET keeps their order and boundaries. The caller     *)
(* (dnlogin's main loop, not in this repository) calls found_read() until *)
(* it returns -1, and may call found_common_write() in between.          *)
(***************************************************************************)
EXTENDS Integers, Sequences, SequencesExt

CONSTANTS OsBytes,    \* values of a BIND's OS byte (inbuf[4]) the peer sends
          SegLens,    \* lengths of the COMMONDATA segments
          MaxSegs,    \* segments in one COMMONDATA record
          MaxMsgs,    \* records the peer sends
          MaxWrites   \* calls of found_common_write

\* A data byte ('A'); Garbage is a byte read past the record, which the
\* peer did not send.
Data    == 65
Garbage == -1

Fill(n) == [i \in 1 .. n |-> Data]

\* A two-byte length in DECnet (little-endian) order, as dn_htons gives it.
LenBytes(n) == <<n % 256, n \div 256>>

\* The segment list of a COMMONDATA record after its header.
Frame(seg) == LenBytes(Len(seg)) \o seg

CommonMsg(segs) == <<9, 0>> \o FlattenSeq([i \in DOMAIN segs |-> Frame(segs[i])])

\* The records the peer may send, with the segments a COMMONDATA one carries.
Rec(b, s) == [bytes |-> b, segs |-> s]

PeerMsgs ==
    {Rec(<<1, 2, 4, 0, o, 0, 16, 0>>, <<>>) : o \in OsBytes}     \* BIND
    \cup {Rec(<<3, 0>>, <<>>), Rec(<<5, 1>>, <<>>)}             \* UNBIND, ENTERMODE
    \cup {Rec(<<2>>, <<>>), Rec(<<6>>, <<>>)}                   \* reserved, EXITMODE
    \cup {Rec(CommonMsg(s), s) : s \in SeqOf({Fill(n) : n \in SegLens}, MaxSegs)}

BindAccept == <<4, 2, 4, 0, 7, 0, 16, 0>>
NoMode     == <<8>>

VARIABLES
    link,       \* "init", "failed", "up" or "down" (found_read returned -1)
    chan,       \* the records the peer has sent and found_read not received
    msg,        \* inbuf[0 .. len-1] of the COMMONDATA record being split
    ptr,        \* ptr of the segment loop
    pc,         \* "recv" or "common" (inside the segment loop)
    delivered,  \* segments handed to terminal_processor
    expected,   \* segments of the COMMONDATA records received
    out,        \* records written to the socket
    writes      \* calls of found_common_write

vars == <<link, chan, msg, ptr, pc, delivered, expected, out, writes>>

Init ==
    /\ link = "init"
    /\ chan \in SeqOf(PeerMsgs, MaxMsgs)
    /\ msg = <<>> /\ ptr = 0 /\ pc = "recv"
    /\ delivered = <<>> /\ expected = <<>>
    /\ out = <<>> /\ writes = 0

\* getnodebyname(), socket() or connect() may fail; then found_read is
\* never called.
SetupLink ==
    /\ link = "init"
    /\ link' \in {"up", "failed"}
    /\ UNCHANGED <<chan, msg, ptr, pc, delivered, expected, out, writes>>

Receiving == link = "up" /\ pc = "recv"

Head1 == Head(chan).bytes

\* dnet_recv with MSG_DONTWAIT finds no record: found_read returns 0.
RecvAgain ==
    /\ Receiving
    /\ UNCHANGED vars

\* dnet_recv returns 0 or an error other than EAGAIN: -1.
RecvError ==
    /\ Receiving
    /\ link' = "down"
    /\ UNCHANGED <<chan, msg, ptr, pc, delivered, expected, out, writes>>

\* A record of type t is received.
Consume(t) == Receiving /\ chan # <<>> /\ Head1[1] = t /\ chan' = Tail(chan)

\* BIND: BINDACCEPT is written, and a short write returns -1. (With debug
\* set, hosttype[inbuf[4]-1] is only printed.)
Bind ==
    /\ Consume(1)
    /\ \E ok \in BOOLEAN :
         IF ok THEN out' = Append(out, BindAccept) /\ UNCHANGED link
               ELSE link' = "down" /\ UNCHANGED out
    /\ UNCHANGED <<msg, ptr, pc, delivered, expected, writes>>

\* UNBIND: found_read returns -1.
Unbind ==
    /\ Consume(3)
    /\ link' = "down"
    /\ UNCHANGED <<msg, ptr, pc, delivered, expected, out, writes>>

\* ENTERMODE: NOMODE is written; the result of write() is ignored.
EnterMode ==
    /\ Consume(5)
    /\ out' \in {out, Append(out, NoMode)}
    /\ UNCHANGED <<link, msg, ptr, pc, delivered, expected, writes>>

\* The reserved type 2 and unknown types are dropped.
Ignored ==
    /\ Receiving /\ chan # <<>> /\ Head1[1] \notin {1, 3, 5, 9}
    /\ chan' = Tail(chan)
    /\ UNCHANGED <<link, msg, ptr, pc, delivered, expected, out, writes>>

\* COMMONDATA: the segment loop starts at ptr = 2.
CommonData ==
    /\ Consume(9)
    /\ msg' = Head1 /\ ptr' = 2 /\ pc' = "common"
    /\ expected' = expected \o Head(chan).segs
    /\ UNCHANGED <<link, delivered, out, writes>>

\* inbuf[k]: past the record the buffer holds bytes the peer did not send.
Byte(k) == IF k < Len(msg) THEN msg[k + 1] ELSE Garbage

\* A length read past the record is whatever the stack holds.
LenByte(k) == IF k < Len(msg) THEN {msg[k + 1]} ELSE {0, 1}

CommonSegmentBigEndian ==
    /\ pc = "common"
    /\ ptr < Len(msg)
    /\ \E lo \in LenByte(ptr), hi \in LenByte(ptr + 1) :
         LET msglen == lo * 256 + hi IN
         /\ delivered' = Append(delivered, [i \in 1 .. msglen |-> Byte(ptr + 1 + i)])
         /\ ptr' = ptr + 2 + msglen
    /\ UNCHANGED <<link, chan, msg, pc, expected, out, writes>>

\* One pass of while (ptr < len): msglen = inbuf[ptr] | inbuf[ptr+1] << 8,
\* then inbuf+ptr+2 .. +msglen goes to the terminal processor.
CommonSegment ==
    /\ pc = "common"
    /\ ptr < Len(msg)
    /\ \E lo \in LenByte(ptr), hi \in LenByte(ptr + 1) :
         LET msglen == lo + hi * 256 IN
         /\ delivered' = Append(delivered, [i \in 1 .. msglen |-> Byte(ptr + 1 + i)])
         /\ ptr' = ptr + 2 + msglen
    /\ UNCHANGED <<link, chan, msg, pc, expected, out, writes>>

\* ptr has reached len: break, and found_read returns 0.
CommonEnd ==
    /\ pc = "common"
    /\ ptr >= Len(msg)
    /\ pc' = "recv" /\ msg' = <<>> /\ ptr' = 0
    /\ UNCHANGED <<link, chan, delivered, expected, out, writes>>

\* found_common_write: the header {COMMONDATA, 0, dn_htons(len)} and the
\* buffer go out as one record; sendmsg may fail.
CommonWrite ==
    /\ link = "up" /\ pc = "recv"
    /\ writes < MaxWrites
    /\ writes' = writes + 1
    /\ \E n \in SegLens : out' \in {out, Append(out, <<9, 0>> \o LenBytes(n) \o Fill(n))}
    /\ UNCHANGED <<link, chan, msg, ptr, pc, delivered, expected>>

\* dnlogin has stopped using the link.
Done ==
    /\ link \in {"failed", "down"}
    /\ UNCHANGED vars

Next ==
    \/ SetupLink \/ RecvAgain \/ RecvError
    \/ Bind \/ Unbind \/ EnterMode \/ Ignored \/ CommonData
    \/ CommonSegment \/ CommonEnd \/ CommonWrite \/ Done

Spec == Init /\ [][Next]_vars

-----------------------------------------------------------------------------
\* Between two calls of found_read, the terminal processor has been handed
\* exactly the segments of the COMMONDATA records received so far, whole
\* and in the order the peer framed them, across records and segments.
DeliveredAsFramed ==
    pc = "recv" => delivered = expected

=============================================================================
