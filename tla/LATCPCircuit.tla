---------------------------- MODULE LATCPCircuit ----------------------------
(***************************************************************************)
(* The latd end of the latcp control socket (src/latd/latcpcircuit.cc):   *)
(* do_command() reads a 3-byte header and a length-prefixed body, refuses  *)
(* every command but LATCP_VERSION until the versions have matched, then   *)
(* carries the command out on the server and answers through send_reply(). *)
(* A false return makes the server close the socket.                       *)
(*                                                                         *)
(* Requests are records [cmd, arg]; names and values are model values.    *)
(* The latcp tool, which is not part of this repository, is modelled as   *)
(* any sequence of requests.                                               *)
(***************************************************************************)
EXTENDS Integers, Sequences

CONSTANTS Names,        \* service and port names
          Limits,       \* values a SETRETRANS body may carry
          MaxRequests   \* requests latcp sends over one socket

ASSUME MaxRequests \in Nat /\ Limits \subseteq Int

Cmds == {"VERSION", "SHOWSERVICE", "SHOWCHAR", "SETRESPONDER", "UNLOCK",
         "ADDSERVICE", "REMSERVICE", "REMPORT", "SETMULTICAST", "SETRETRANS",
         "SETKEEPALIVE", "ADDPORT", "SHUTDOWN", "UNKNOWN"}

\* The argument a request carries, by command.
Args(c) ==
    CASE c = "VERSION"                          -> {"match", "mismatch"}
      [] c = "SETRESPONDER"                     -> BOOLEAN
      [] c \in {"ADDSERVICE", "REMSERVICE", "REMPORT", "ADDPORT"} -> Names
      [] c = "SETRETRANS"                       -> Limits
      [] OTHER                                  -> {"none"}

Requests == UNION {[cmd : {c}, arg : Args(c)] : c \in Cmds}

Replies == {"VERSION", "ERRORMSG", "SHOWSERVICE", "SHOWCHAR", "ACK"}

VARIABLES
    state,        \* STARTING or RUNNING
    open,         \* the server still polls this socket
    inbox,        \* requests written by latcp and not yet read
    sentReqs,     \* requests latcp has written
    replies,      \* replies written back, in order
    handled,      \* commands carried out, with the reply each got
    services,     \* local services published by the server
    ports,        \* client ports the server has set up
    responder,    \* LATServer::SetResponder
    retransLimit, \* LATServer::set_retransmit_limit
    shutdown      \* LATServer::Shutdown requested

vars == <<state, open, inbox, sentReqs, replies, handled, services, ports,
          responder, retransLimit, shutdown>>

Init ==
    /\ state = "STARTING"
    /\ open = TRUE
    /\ inbox = <<>>
    /\ sentReqs = 0
    /\ replies = <<>>
    /\ handled = <<>>
    /\ services = {}
    /\ ports = {}
    /\ responder = FALSE
    /\ retransLimit \in Limits
    /\ shutdown = FALSE

\* latcp writes one request.
LatcpSend(r) ==
    /\ open
    /\ sentReqs < MaxRequests
    /\ inbox' = Append(inbox, r)
    /\ sentReqs' = sentReqs + 1
    /\ UNCHANGED <<state, open, replies, handled, services, ports, responder,
                   retransLimit, shutdown>>

\* Commands other than LATCP_VERSION are refused before negotiation.
AcceptedInStateAlways(c) == TRUE
Accepted(c) == c = "VERSION" \/ state = "RUNNING"

\* send_reply(cmd, ...) and the command recorded as carried out.
AnswerEcho(c, rc) == /\ replies' = Append(replies, c)
                     /\ handled' = Append(handled, [cmd |-> c, reply |-> c])
Answer(c, rc) == /\ replies' = Append(replies, rc)
                 /\ handled' = Append(handled, [cmd |-> c, reply |-> rc])
Silent(c) == /\ replies' = replies
             /\ handled' = Append(handled, [cmd |-> c, reply |-> "none"])

\* The switch of do_command() for a request read in full.
Execute(r) ==
    LET c == r.cmd IN
    CASE c = "VERSION" /\ r.arg = "match" ->
            state' = "RUNNING" /\ Answer(c, "VERSION")
            /\ UNCHANGED <<open, services, ports, responder, retransLimit, shutdown>>
      [] c = "VERSION" ->
            open' = FALSE /\ Answer(c, "ERRORMSG")
            /\ UNCHANGED <<state, services, ports, responder, retransLimit, shutdown>>
      [] c \in {"SHOWSERVICE", "SHOWCHAR"} ->
            Answer(c, c) /\ UNCHANGED <<state, open, services, ports, responder, retransLimit, shutdown>>
      [] c = "SETRESPONDER" ->
            responder' = r.arg /\ Silent(c)
            /\ UNCHANGED <<state, open, services, ports, retransLimit, shutdown>>
      [] c = "UNLOCK" ->
            Silent(c) /\ UNCHANGED <<state, open, services, ports, responder, retransLimit, shutdown>>
      [] c = "ADDSERVICE" ->
            services' = services \cup {r.arg} /\ Answer(c, "ACK")
            /\ UNCHANGED <<state, open, ports, responder, retransLimit, shutdown>>
      [] c = "REMSERVICE" ->
            services' = services \ {r.arg}
            /\ Answer(c, IF r.arg \in services THEN "ACK" ELSE "ERRORMSG")
            /\ UNCHANGED <<state, open, ports, responder, retransLimit, shutdown>>
      [] c = "REMPORT" ->
            ports' = ports \ {r.arg}
            /\ Answer(c, IF r.arg \in ports THEN "ACK" ELSE "ERRORMSG")
            /\ UNCHANGED <<state, open, services, responder, retransLimit, shutdown>>
      [] c \in {"SETMULTICAST", "SETKEEPALIVE"} ->
            Answer(c, "ACK") /\ UNCHANGED <<state, open, services, ports, responder, retransLimit, shutdown>>
      [] c = "SETRETRANS" ->
            retransLimit' = r.arg /\ Answer(c, "ACK")
            /\ UNCHANGED <<state, open, services, ports, responder, shutdown>>
      [] c = "ADDPORT" ->
            \* make_client_connection fails when the service is unknown
            \/ ports' = ports \cup {r.arg} /\ Answer(c, "ACK")
               /\ UNCHANGED <<state, open, services, responder, retransLimit, shutdown>>
            \/ Answer(c, "ERRORMSG")
               /\ UNCHANGED <<state, open, services, ports, responder, retransLimit, shutdown>>
      [] c = "SHUTDOWN" ->
            shutdown' = TRUE /\ Silent(c)
            /\ UNCHANGED <<state, open, services, ports, responder, retransLimit>>
      [] OTHER ->
            open' = FALSE
            /\ UNCHANGED <<state, replies, handled, services, ports, responder, retransLimit, shutdown>>

\* A refused command that leaves the socket open.
DoCommandNoClose ==
    /\ open
    /\ inbox # <<>>
    /\ inbox' = Tail(inbox)
    /\ UNCHANGED sentReqs
    /\ \/ /\ open' = FALSE
          /\ UNCHANGED <<state, replies, handled, services, ports, responder,
                         retransLimit, shutdown>>
       \/ /\ ~Accepted(Head(inbox).cmd)
          /\ UNCHANGED <<state, open, replies, handled, services, ports, responder,
                         retransLimit, shutdown>>
       \/ /\ Accepted(Head(inbox).cmd)
          /\ Execute(Head(inbox))

\* do_command(): the socket is readable. A read of the header or the body
\* may return fewer bytes than asked for (the request has not all arrived);
\* do_command then gives up and the socket is closed.
DoCommand ==
    /\ open
    /\ inbox # <<>>
    /\ inbox' = Tail(inbox)
    /\ UNCHANGED sentReqs
    /\ \/ /\ open' = FALSE
          /\ UNCHANGED <<state, replies, handled, services, ports, responder,
                         retransLimit, shutdown>>
       \/ /\ ~Accepted(Head(inbox).cmd)
          /\ open' = FALSE
          /\ UNCHANGED <<state, replies, handled, services, ports, responder,
                         retransLimit, shutdown>>
       \/ /\ Accepted(Head(inbox).cmd)
          /\ Execute(Head(inbox))

\* The socket is closed; latcp has finished with it.
Closed ==
    /\ ~open \/ (inbox = <<>> /\ sentReqs = MaxRequests)
    /\ UNCHANGED vars

Next ==
    \/ \E r \in Requests : LatcpSend(r)
    \/ DoCommand
    \/ Closed

Spec == Init /\ [][Next]_vars

\* latd's main loop polls every latcp socket, so a socket with a request
\* waiting is eventually read.
FairSpec == Spec /\ WF_vars(DoCommand)

-----------------------------------------------------------------------------
\* Every variable holds a value the socket's state, the server settings
\* and the reply codes of send_reply() can take.
TypeOK ==
    /\ state \in {"STARTING", "RUNNING"}
    /\ open \in BOOLEAN
    /\ inbox \in Seq(Requests)
    /\ sentReqs \in 0 .. MaxRequests
    /\ replies \in Seq(Replies)
    /\ handled \in Seq([cmd : Cmds, reply : Replies \cup {"none"}])
    /\ services \subseteq Names
    /\ ports \subseteq Names
    /\ responder \in BOOLEAN
    /\ retransLimit \in Limits
    /\ shutdown \in BOOLEAN

\* No server setting is changed by a socket whose latcp has not first
\* matched latd's version: every command carried out is preceded by a
\* LATCP_VERSION that was answered with LATCP_VERSION.
NoCommandBeforeVersion ==
    \A i \in 1 .. Len(handled) :
        handled[i].cmd # "VERSION" =>
            \E j \in 1 .. i - 1 : handled[j] = [cmd |-> "VERSION", reply |-> "VERSION"]

\* Every request latcp writes is eventually carried out by do_command(),
\* or the socket is closed: latcp is never left waiting on an open socket
\* for a request the server has dropped.
ServedOrClosed ==
    \A k \in 1 .. MaxRequests :
        (sentReqs >= k) ~> (Len(handled) >= k \/ ~open)

=============================================================================
