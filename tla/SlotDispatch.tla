---------------------------- MODULE SlotDispatch ----------------------------
(***************************************************************************)
(* The slot loop of LATConnection::process_session_cmd                     *)
(* (src/latd/connection.cc 160-415) for one frame that passed the         *)
(* duplicate test: each slot command of the frame is dispatched in turn,  *)
(* the replies it calls for are written to the local array reply[4] at    *)
(* index num_replies, and after the loop the reply frame is built from    *)
(* reply[0 .. num_replies-1] (or reply[0] alone when only "replyhere" is *)
(* set).                                                                   *)
(*                                                                         *)
(* The peer chooses the slot commands: the header's num_slots (up to      *)
(* MaxSlots here), and for each slot its subtype and the local slot it    *)
(* addresses. What the sessions answer (send_data_to_process, remote      *)
(* credit, new_session) is session code outside this repository and is a  *)
(* free choice.                                                            *)
(***************************************************************************)
EXTENDS Integers, Sequences

CONSTANTS SlotIds,      \* local slot numbers the peer may address
          MaxSlots,     \* num_slots the peer may put in one header
          ReplyLen      \* the declared length of reply[] (4)

ASSUME MaxSlots \in Nat /\ ReplyLen \in Nat \ {0}

\* reply[] as the stack holds it: indices past ReplyLen - 1 stand for the
\* memory after the array.
Indices == 0 .. MaxSlots

\* An entry of reply[] that nothing has written.
Unset == [code |-> "unset", slot |-> 0]

\* A reply slot record: its status code and the slot it answers.
ReplyRec == [code : {"ACK", "CREDIT", "D1", "D3", "D7"}, slot : SlotIds \cup {0}]

VARIABLES
    role,        \* SERVER or CLIENT
    sessions,    \* { i : sessions[i] # NULL } for the addressed slots
    left,        \* slot commands of the header not yet dispatched
    rr,          \* the header's "response requested" bit
    reply,       \* reply[] and the memory after it
    numReplies,  \* num_replies
    replyhere,   \* replyhere
    pc,          \* "noslots", "slots", "send" or "done"
    sent         \* slot records of the reply frame handed to send_message

vars == <<role, sessions, left, rr, reply, numReplies, replyhere, pc, sent>>

Init ==
    /\ role \in {"SERVER", "CLIENT"}
    /\ sessions \in SUBSET SlotIds
    /\ left \in 0 .. MaxSlots
    /\ rr \in BOOLEAN
    /\ reply = [k \in Indices |-> Unset]
    /\ numReplies = 0
    /\ replyhere = FALSE
    /\ pc = IF left = 0 THEN "noslots" ELSE "slots"
    /\ sent = <<>>

Rec(c, id) == [code |-> c, slot |-> id]

\* reply[k] = rec without counting it (the no-echo acknowledgement).
Write(k, rec) == reply' = [reply EXCEPT ![k] = rec]

\* reply[num_replies] = rec; num_replies++
Counted(rec) ==
    /\ Write(numReplies, rec)
    /\ numReplies' = numReplies + 1

NoReply == UNCHANGED <<reply, numReplies>>

-----------------------------------------------------------------------------
\* num_slots == 0: a server acknowledges with reply[0], adding 15 credits
\* when the session has none left. The slot record is read from past the
\* header, so the slot it names is whatever the buffer holds there.
NoSlots ==
    /\ pc = "noslots"
    /\ \E id \in SlotIds \cup {0}, noCredit \in BOOLEAN :
         IF role = "SERVER"
         THEN /\ Write(0, Rec(IF noCredit /\ id \in sessions THEN "CREDIT" ELSE "ACK", id))
              /\ replyhere' = TRUE
         ELSE UNCHANGED <<reply, replyhere>>
    /\ pc' = "send"
    /\ UNCHANGED <<role, sessions, left, rr, numReplies, sent>>

DataSlotCountAck(id) ==
    \E noEcho, lowCredit \in BOOLEAN :
      LET ack == noEcho /\ role = "SERVER" IN
      CASE id \notin sessions ->
              Counted(Rec("D3", id)) /\ UNCHANGED replyhere
        [] ack /\ lowCredit ->
              /\ reply' = [reply EXCEPT ![numReplies] = Rec("ACK", id),
                                        ![numReplies + 1] = Rec("CREDIT", id)]
              /\ numReplies' = numReplies + 2
              /\ replyhere' = TRUE
        [] lowCredit ->
              Counted(Rec("CREDIT", id)) /\ UNCHANGED replyhere
        [] ack ->
              Counted(Rec("ACK", id)) /\ replyhere' = TRUE
        [] OTHER -> NoReply /\ UNCHANGED replyhere

\* case 0x00, data for slot id. A session that will not echo gets an
\* uncounted acknowledgement on a server; a session low on remote credit
\* (<= 2) gets a counted credit reply; a missing session gets 0xD3.
DataSlot(id) ==
    \E noEcho, lowCredit \in BOOLEAN :
      CASE id \notin sessions ->
              Counted(Rec("D3", id)) /\ UNCHANGED replyhere
        [] lowCredit ->
              Counted(Rec("CREDIT", id))
              /\ replyhere' = (replyhere \/ (noEcho /\ role = "SERVER"))
        [] noEcho /\ role = "SERVER" ->
              Write(numReplies, Rec("ACK", id)) /\ replyhere' = TRUE
              /\ UNCHANGED numReplies
        [] OTHER -> NoReply /\ UNCHANGED replyhere

\* case 0x90 on a server: an unknown service gets 0xD7; otherwise a
\* session is created in a free slot (new_session may fail). A client
\* passes the start on to its session.
StartSlot ==
    IF role = "CLIENT"
    THEN NoReply /\ UNCHANGED sessions
    ELSE \/ Counted(Rec("D7", 0)) /\ UNCHANGED sessions
         \/ NoReply /\ \E s \in SlotIds \ sessions : sessions' = sessions \cup {s}
         \/ NoReply /\ UNCHANGED sessions

\* case 0xC0, 0xD0: the session is only marked for removal, so 0xD1 is
\* sent when the table was already empty.
DiscSlot(id) ==
    IF sessions = {} THEN Counted(Rec("D1", id)) ELSE NoReply

\* One pass of for (i = 0; i < num_slots && ptr < len; i++).
Dispatch ==
    /\ pc = "slots"
    /\ left > 0
    /\ left' = left - 1
    /\ pc' = IF left = 1 THEN "send" ELSE "slots"
    /\ \/ \E id \in SlotIds : DataSlot(id) /\ UNCHANGED sessions
       \/ StartSlot /\ UNCHANGED replyhere
       \/ \E id \in SlotIds : \* case 0xA0, port information: always answered
             Counted(Rec("ACK", id)) /\ UNCHANGED <<sessions, replyhere>>
       \/ \* case 0xB0, attention: nothing
             NoReply /\ UNCHANGED <<sessions, replyhere>>
       \/ \E id \in SlotIds : DiscSlot(id) /\ UNCHANGED <<sessions, replyhere>>
       \/ \* default: an unknown subtype asks for a reply
             NoReply /\ replyhere' = TRUE /\ UNCHANGED sessions
    /\ UNCHANGED <<role, rr, sent>>

\* ptr reaches len before num_slots slots were read: the loop ends early.
Truncated ==
    /\ pc = "slots"
    /\ pc' = "send"
    /\ UNCHANGED <<role, sessions, left, rr, reply, numReplies, replyhere, sent>>

\* After the loop: honour "response requested", then send
\* reply[0 .. num_replies-1], or reply[0] when there is none.
SendReplies ==
    /\ pc = "send"
    /\ pc' = "done"
    /\ replyhere' = (replyhere \/ rr)
    /\ sent' = IF replyhere' \/ numReplies > 0
               THEN [k \in 1 .. IF numReplies = 0 THEN 1 ELSE numReplies |-> reply[k - 1]]
               ELSE <<>>
    /\ UNCHANGED <<role, sessions, left, rr, reply, numReplies>>

\* The frame has been handled.
Done ==
    /\ pc = "done"
    /\ UNCHANGED vars

Next == NoSlots \/ Dispatch \/ Truncated \/ SendReplies \/ Done

Spec == Init /\ [][Next]_vars

-----------------------------------------------------------------------------
\* Every variable has its type; reply[] entries are unset or reply records.
TypeOK ==
    /\ role \in {"SERVER", "CLIENT"}
    /\ sessions \subseteq SlotIds
    /\ left \in 0 .. MaxSlots
    /\ rr \in BOOLEAN
    /\ reply \in [Indices -> ReplyRec \cup {Unset}]
    /\ numReplies \in 0 .. MaxSlots
    /\ replyhere \in BOOLEAN
    /\ pc \in {"noslots", "slots", "send", "done"}
    /\ sent \in Seq(ReplyRec \cup {Unset})

\* No reply is written past the end of reply[4], whatever slot commands
\* the peer puts in one frame.
ReplyArrayBound ==
    \A k \in Indices : k >= ReplyLen => reply[k] = Unset

=============================================================================
