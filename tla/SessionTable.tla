---------------------------- MODULE SessionTable ----------------------------
(***************************************************************************)
(* The session table of one LATConnection (src/latd/connection.cc): the   *)
(* array sessions[1..MAX_SESSIONS-1], the allocation cursor next_session   *)
(* and next_session_number(), the slot commands that fill and empty the    *)
(* table (0x90 start, 0xC0/0xD0 disconnect), create_client_session and     *)
(* create_llogin_session, remove_session, num_clients, and the "queued    *)
(* slave" link to a master connection used by the destructor.             *)
(*                                                                         *)
(* A session is a slot number; its contents are left out. Sessions are   *)
(* removed off the stack: disconnect_session marks a session as closing   *)
(* and remove_session later frees its slot (the session code is not part  *)
(* of this repository, and a connection is never destroyed inside a       *)
(* callback, so removal is a step of its own).                             *)
(***************************************************************************)
EXTENDS Integers, FiniteSets, FiniteSetsExt

CONSTANT MaxSessions    \* MAX_SESSIONS; 256 in the code

ASSUME MaxSessions \in Nat /\ MaxSessions >= 2

\* Slot 0 is never handed out; slots run from 1 to MAX_SESSIONS - 1.
Slots == 1 .. (MaxSessions - 1)

\* The value master_conn holds: never assigned, the NULL that
\* get_connection returns for an unknown request id, a live master
\* connection, or a master connection that has since been deleted.
MasterRefs == {"unset", "null", "live", "freed"}

\* Reply slot codes the table operations produce.
ReplyCodes == {"none", "D1", "D7"}

VARIABLES
    role,          \* SERVER or CLIENT, fixed at construction
    sessions,      \* { i \in Slots : sessions[i] # NULL }
    closing,       \* sessions disconnected and awaiting remove_session
    nextSession,   \* next_session
    stray,         \* a session pointer was stored at sessions[-1]
    queuedSlave,   \* queued_slave
    masterConn,    \* what master_conn points to
    alive,         \* the connection has not been deleted
    reply          \* reply slot built by the last slot command handled

vars == <<role, sessions, closing, nextSession, stray, queuedSlave,
          masterConn, alive, reply>>

Init ==
    /\ role \in {"SERVER", "CLIENT"}
    /\ sessions = {}
    /\ closing = {}
    /\ nextSession = 1
    /\ stray = FALSE
    /\ queuedSlave = FALSE
    /\ masterConn = "unset"
    /\ alive = TRUE
    /\ reply = "none"

-----------------------------------------------------------------------------
(* next_session_number()                                                   *)

\* for (i = lo; i < hi; i++) if (!sessions[i]) return i; falling out: -1
RECURSIVE FirstFreeToEnd(_, _, _)
FirstFreeToEnd(tbl, lo, hi) ==
    CASE lo > hi        -> -1
      [] lo \notin tbl  -> lo
      [] OTHER          -> FirstFreeToEnd(tbl, lo + 1, hi)

RECURSIVE FirstFree(_, _, _)
FirstFree(tbl, lo, hi) ==
    CASE lo >= hi       -> -1
      [] lo \notin tbl  -> lo
      [] OTHER          -> FirstFree(tbl, lo + 1, hi)

NextSessionNumberNoWrap(tbl, nxt) == FirstFree(tbl, nxt, MaxSessions)

\* The first loop scans from the cursor to the end, the second wraps
\* round from slot 1 up to the cursor.
NextSessionNumber(tbl, nxt) ==
    LET above == FirstFree(tbl, nxt, MaxSessions)
    IN  IF above # -1 THEN above ELSE FirstFree(tbl, 1, nxt)

\* next_session after the call: one past the slot found, untouched if none.
NextCursor(tbl, nxt) ==
    LET i == NextSessionNumber(tbl, nxt)
    IN  IF i = -1 THEN nxt ELSE i + 1

\* sessions[newsessionnum] = newsession, with newsessionnum = -1 when the
\* table is full: the pointer lands before the array.
Store(i) ==
    IF i = -1
    THEN /\ stray' = TRUE
         /\ UNCHANGED sessions
    ELSE /\ sessions' = sessions \cup {i}
         /\ UNCHANGED stray

\* Allocate a slot and construct a session in it; new_session() may fail,
\* in which case the session is deleted (the cursor has already moved).
AllocateSession ==
    /\ nextSession' = NextCursor(sessions, nextSession)
    /\ \/ Store(NextSessionNumber(sessions, nextSession))
       \/ UNCHANGED <<sessions, stray>>

\* num_clients()
NumClients(tbl) == Cardinality(tbl)

-----------------------------------------------------------------------------
(* Slot commands                                                           *)

\* case 0x90 on a server connection. is_queued_reconnect() sets
\* queued_slave as soon as it finds parameter 2, before the master
\* connection is looked up; an unknown request id or service gets 0xD7.
StartSession ==
    /\ alive
    /\ role = "SERVER"
    /\ \/ \* queued reconnect: get_connection(request id)
          /\ queuedSlave' = TRUE
          /\ \/ /\ masterConn' = "null"
                /\ reply' = "D7"
                /\ UNCHANGED <<sessions, nextSession, stray>>
             \/ /\ masterConn' = "live"
                /\ reply' = "none"
                /\ AllocateSession
       \/ \* ordinary connect: is_local_service(name)
          /\ UNCHANGED <<queuedSlave, masterConn>>
          /\ \/ /\ reply' = "D7"
                /\ UNCHANGED <<sessions, nextSession, stray>>
             \/ /\ reply' = "none"
                /\ AllocateSession
    /\ UNCHANGED <<role, closing, alive>>

\* case 0xC0, 0xD0 for local slot id: disconnect its session (if any),
\* clear queued_slave, and answer 0xD1 if num_clients() is then 0. A
\* server session closes and waits to be removed; a client port keeps
\* its session.
Disconnect(id) ==
    /\ alive
    /\ closing' = IF id \in sessions /\ role = "SERVER"
                  THEN closing \cup {id} ELSE closing
    /\ queuedSlave' = FALSE
    /\ reply' = IF NumClients(sessions) = 0 THEN "D1" ELSE "none"
    /\ UNCHANGED <<role, sessions, nextSession, stray, masterConn, alive>>

\* create_client_session / create_llogin_session on a client connection.
CreateSession ==
    /\ alive
    /\ role = "CLIENT"
    /\ AllocateSession
    /\ reply' = "none"
    /\ UNCHANGED <<role, closing, queuedSlave, masterConn, alive>>

\* A session ends by itself (its pty or login closes) and asks to go.
SessionEnds(id) ==
    /\ alive
    /\ id \in sessions \ closing
    /\ closing' = closing \cup {id}
    /\ UNCHANGED <<role, sessions, nextSession, stray, queuedSlave,
                   masterConn, alive, reply>>

\* ~LATConnection(): a queued slave restarts the pty of the master's
\* sessions[1] through master_conn; any other connection deletes its
\* sessions.
Destroy(tbl) ==
    /\ alive' = FALSE
    /\ sessions' = IF queuedSlave THEN tbl ELSE {}
    /\ closing' = {}

\* remove_session(id): free the slot; with no sessions left the
\* connection is deleted.
RemoveSession(id) ==
    /\ alive
    /\ id \in closing
    /\ IF NumClients(sessions \ {id}) = 0
       THEN Destroy(sessions \ {id})
       ELSE /\ sessions' = sessions \ {id}
            /\ closing' = closing \ {id}
            /\ UNCHANGED alive
    /\ UNCHANGED <<role, nextSession, stray, queuedSlave, masterConn, reply>>

\* The connection is deleted with sessions still in it: the retransmit
\* limit is reached, or the peer's DISC frame arrives at LATServer.
ConnectionDeleted ==
    /\ alive
    /\ Destroy(sessions)
    /\ UNCHANGED <<role, nextSession, stray, queuedSlave, masterConn, reply>>

\* LATServer deletes the master connection this one points to.
MasterDeleted ==
    /\ alive
    /\ masterConn = "live"
    /\ masterConn' = "freed"
    /\ UNCHANGED <<role, sessions, closing, nextSession, stray, queuedSlave,
                   alive, reply>>

\* A deleted connection takes no further steps.
Gone ==
    /\ ~alive
    /\ UNCHANGED vars

Next ==
    \/ StartSession
    \/ CreateSession
    \/ \E id \in Slots : Disconnect(id) \/ SessionEnds(id) \/ RemoveSession(id)
    \/ ConnectionDeleted
    \/ MasterDeleted
    \/ Gone

Spec == Init /\ [][Next]_vars

-----------------------------------------------------------------------------
(* Properties                                                              *)

\* Every variable has its type; in particular next_session stays within
\* 1..MAX_SESSIONS and only slots 1..MAX_SESSIONS-1 are ever filled.
TypeOK ==
    /\ role \in {"SERVER", "CLIENT"}
    /\ sessions \subseteq Slots
    /\ closing \subseteq sessions
    /\ nextSession \in 1 .. MaxSessions
    /\ stray \in BOOLEAN
    /\ queuedSlave \in BOOLEAN
    /\ masterConn \in MasterRefs
    /\ alive \in BOOLEAN
    /\ reply \in ReplyCodes

\* The slot the allocator should hand out (spec: slots are unique and
\* never 0; after a full table, removing session k makes k the next slot):
\* the lowest free slot at or after the cursor, else the lowest free
\* slot, else -1.
ReferenceNext(tbl, nxt) ==
    LET free  == Slots \ tbl
        ahead == {i \in free : i >= nxt}
    IN  CASE ahead # {} -> Min(ahead)
          [] free # {}  -> Min(free)
          [] OTHER      -> -1

\* next_session_number() agrees with the reference for the table and
\* cursor of every reachable state.
AllocMatchesReference ==
    NextSessionNumber(sessions, nextSession) = ReferenceNext(sessions, nextSession)

\* ~LATConnection() of a queued slave dereferences master_conn: whenever
\* the connection is deleted as a queued slave, master_conn points to a
\* live connection.
MasterValidAtDestroy ==
    [][alive /\ ~alive' /\ queuedSlave => masterConn = "live"]_vars

\* Destroying a connection releases all the sessions it owns (spec §5):
\* once the connection is deleted, none of its sessions is left.
SessionsReleased == ~alive => sessions = {}

=============================================================================
