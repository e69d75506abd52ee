---------------------------- MODULE BridgeServer ----------------------------
(***************************************************************************)
(* bridge/bridge.py: the mpythonrun child that serves one MBP connection,  *)
(* and what its methods do to MULTI.  A call into MULTI takes as long as   *)
(* it takes, so every one is a step of its own and the child may be killed *)
(* between any two of them.                                                *)
(***************************************************************************)
EXTENDS Naturals, Sequences

CONSTANTS
    None,           \* no request, no answer
    Prepares        \* the values Connection.Preparation may have: does a cold
                    \* open also run prepare_target?

VARIABLES
    mode,           \* the --session-mode of the child: "cold" or "warm"
    preparation,    \* the open request asks for prepare_target
    child,          \* "none", "running" or "exited"
    ready,          \* the ready file: "absent", "valid" or "invalid"
    conn,           \* the TCP connection: which ends are open, and the handshake line
    server,         \* [pc, window]: where serve is, and which window is bound
    request,        \* the request frame on its way to, or held by, the child
    answer,         \* the response frame on its way back
    link,           \* the target connection in MULTI: "none", "bridge" or "operator"
    mishaps         \* what went wrong outside the daemon (a history variable)

serverVars == <<mode, preparation, child, ready, conn, server, request, answer, link, mishaps>>

Methods == {"open", "close", "cores", "route", "state", "halt", "resume"}

\* What the driver can make of a response.  "refused" is an error envelope, "odd" a result the
\* driver rejects as a protocol error, "n1" and "n2" list one or two program components, a
\* program name is the selected process of a routed P, "halted" a state the driver asks H about.
Programs == {"elf0", "elf1", "other", "unstable"}
Results == {"done", "refused", "odd", "n1", "n2", "halted", "running"} \cup Programs

NoConnection == [client |-> FALSE, server |-> FALSE, hello |-> "none"]

ServerInit ==
    /\ mode \in {"cold", "warm"}
    /\ preparation \in (IF mode = "cold" THEN Prepares ELSE {FALSE})
    /\ child = "none"
    /\ ready = "absent"
    /\ conn = NoConnection
    /\ server = [pc |-> "boot", window |-> FALSE]
    /\ request = None
    /\ answer = None
    /\ link = IF mode = "warm" THEN "operator" ELSE "none"
    /\ mishaps = {}

-----------------------------------------------------------------------------
\* Startup of the child.

\* listen, then _write_ready_file.  The daemon accepts any script as its bridge; a foreign one
\* may publish something else.
Publish ==
    /\ child = "running"
    /\ server.pc = "boot"
    /\ server' = [server EXCEPT !.pc = "listening"]
    /\ ready' \in {"valid", "invalid"}
    /\ UNCHANGED <<mode, preparation, child, conn, request, answer, link, mishaps>>

\* accept, and the handshake line of handle_connection.
Accept ==
    /\ child = "running"
    /\ server.pc = "listening"
    /\ conn.server
    /\ server' = [server EXCEPT !.pc = "idle"]
    /\ conn' \in {[conn EXCEPT !.hello = h] : h \in {"valid", "invalid"}}
    /\ UNCHANGED <<mode, preparation, child, ready, request, answer, link, mishaps>>

\* The process is gone, and its sockets with it.  What MULTI was made to do stays done.
Exited ==
    /\ child' = "exited"
    /\ conn' = [conn EXCEPT !.server = FALSE]
    /\ server' = [pc |-> "gone", window |-> FALSE]
    /\ request' = None

\* The child dies without being asked to: an exception before the connection is served, a
\* crash of mpythonrun, someone ending it.
ChildDies ==
    /\ child = "running"
    /\ Exited
    /\ mishaps' = mishaps \cup {"died"}
    /\ UNCHANGED <<mode, preparation, ready, answer, link>>

\* The read of handle_connection meets the end of the stream; cleanup, and main returns.
PeerClosed ==
    /\ child = "running"
    /\ server.pc = "idle"
    /\ ~conn.client
    /\ Exited
    /\ UNCHANGED <<mode, preparation, ready, answer, link, mishaps>>

-----------------------------------------------------------------------------
\* Requests, one at a time.

\* process_request has a result or an error envelope, and handle_connection sends it.  Nobody
\* reads what is sent to a connection the client has closed; the next read then ends the child.
Respond(result) ==
    /\ answer' = IF conn.client THEN [result |-> result, current |-> request.current] ELSE answer
    /\ request' = None

Receives(method) ==
    /\ child = "running"
    /\ server.pc = "idle"
    /\ request # None
    /\ request.method = method

\* open: a warm open binds the one matching window, or refuses; it changes nothing in MULTI.
OpenWarm ==
    /\ Receives("open")
    /\ mode = "warm"
    /\ \E bound \in BOOLEAN :
        /\ server' = [server EXCEPT !.window = bound]
        /\ Respond(IF bound THEN "done" ELSE "refused")
    /\ UNCHANGED <<mode, preparation, child, ready, conn, link, mishaps>>

\* open: DebugProgram, refused or followed by ConnectToTarget.
DebugProgram ==
    /\ Receives("open")
    /\ mode = "cold"
    /\ \/ /\ Respond("refused")
          /\ UNCHANGED server
       \/ /\ server' = [server EXCEPT !.pc = "connecting"]
          /\ UNCHANGED <<request, answer>>
    /\ UNCHANGED <<mode, preparation, child, ready, conn, link, mishaps>>

ConnectToTarget ==
    /\ child = "running"
    /\ server.pc = "connecting"
    /\ \/ /\ link' = "bridge"
          /\ server' = [server EXCEPT !.pc = IF preparation THEN "preparing" ELSE "opened"]
          /\ UNCHANGED <<request, answer>>
       \/ /\ Respond("refused")
          /\ server' = [server EXCEPT !.pc = "idle"]
          /\ UNCHANGED link
    /\ UNCHANGED <<mode, preparation, child, ready, conn, mishaps>>

\* prepare_target: a refusal or an exception goes to the disconnect.
PrepareTarget ==
    /\ child = "running"
    /\ server.pc = "preparing"
    /\ \E next \in {"opened", "undoing"} : server' = [server EXCEPT !.pc = next]
    /\ UNCHANGED <<mode, preparation, child, ready, conn, request, answer, link, mishaps>>

\* Disconnect(0), or an exception instead of it.
Disconnects ==
    \/ /\ link' = "none"
       /\ UNCHANGED mishaps
    \/ /\ mishaps' = mishaps \cup {"disconnect"}
       /\ UNCHANGED link

\* Preparation failed: disconnect before the failure is reported, whichever failure it is then.
UndoOpen ==
    /\ child = "running"
    /\ server.pc = "undoing"
    /\ Disconnects
    /\ Respond("refused")
    /\ server' = [server EXCEPT !.pc = "idle"]
    /\ UNCHANGED <<mode, preparation, child, ready, conn>>

\* The last statements of a cold open: the window is bound and will be disconnected on close.
OpenCold ==
    /\ child = "running"
    /\ server.pc = "opened"
    /\ Respond("done")
    /\ server' = [pc |-> "idle", window |-> TRUE]
    /\ UNCHANGED <<mode, preparation, child, ready, conn, link, mishaps>>

\* close: only a cold session is disconnected; the window is forgotten also when that raises.
CloseSession ==
    /\ Receives("close")
    /\ IF server.window /\ mode = "cold" THEN Disconnects ELSE UNCHANGED <<link, mishaps>>
    /\ Respond(IF server.window /\ mishaps' = mishaps THEN "done" ELSE "refused")
    /\ server' = [server EXCEPT !.window = FALSE]
    /\ UNCHANGED <<mode, preparation, child, ready, conn>>

\* What the reading methods and resume may return: cores the list of components, a routed
\* command the selected process, state a status, H its text.  Any may be refused, and any text
\* may be one the driver rejects.
Replies(method) ==
    CASE method = "cores"  -> {"n1", "n2", "odd", "refused"}
      [] method = "route"  -> Programs \cup {"odd", "refused"}
      [] method = "state"  -> {"halted", "running", "odd", "refused"}
      [] method = "halt"   -> {"done", "odd", "refused"}
      [] method = "resume" -> {"done", "refused"}

ReadSession ==
    /\ \E method \in Methods \ {"open", "close"} : Receives(method)
    /\ \E result \in (IF server.window THEN Replies(request.method) ELSE {"refused"}) : Respond(result)
    /\ UNCHANGED <<mode, preparation, child, ready, conn, server, link, mishaps>>

ServerNext ==
    \/ Publish \/ Accept \/ ChildDies \/ PeerClosed
    \/ OpenWarm \/ DebugProgram \/ ConnectToTarget \/ PrepareTarget \/ UndoOpen \/ OpenCold
    \/ CloseSession \/ ReadSession

=============================================================================
