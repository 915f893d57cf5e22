---------------------------- MODULE LocalEndpoint ----------------------------
(***************************************************************************)
(* The local IPC of crates/ipc/src/lib.rs on a Unix socket: daemons that   *)
(* bind one endpoint behind a lock file (LocalServer::bind) and serve one  *)
(* request per connection (serve_exchange), and clients that ask           *)
(* (LocalClient::exchange).  Lock, socket file and connections belong to   *)
(* the system: a daemon that dies loses its lock and its connections and   *)
(* leaves its socket file behind; a listener that is dropped removes the   *)
(* file at its path.                                                       *)
(***************************************************************************)
EXTENDS Integers, Sequences

CONSTANTS
  Daemons, Clients,
  None,          \* no daemon, no client, no file
  Stale,         \* a file no listener is bound to
  MaxFailures,   \* bound: crashes, cancellations and failed system calls
  MaxExchanges   \* bound: connections one client makes

ASSUME EndpointAssumption ==
  /\ {None, Stale} \cap (Daemons \union Clients) = {} /\ None # Stale
  /\ {MaxFailures, MaxExchanges} \subseteq Nat

VARIABLES
  lock,       \* the daemon that holds the lock file
  path,       \* the daemon whose listener the socket file leads to
  server,     \* where each daemon stands
  cancelled,  \* each daemon's CancellationToken
  queue,      \* connections made and not yet accepted, in order
  peer,       \* the client each daemon is serving
  conn,       \* each client's exchange
  handled,    \* history: how often the handler ran for that exchange
  failures    \* how many failures there were

vars == <<lock, path, server, cancelled, queue, peer, conn, handled, failures>>
endpoint == <<lock, path>>
clients == <<conn, handled>>

Stage ==
  {"down", "locked", "cleared", "created",                   \* bind
   "idle", "accept", "authorize", "prefix", "payload",       \* serve_exchange
   "handle", "write",
   "unlinked"}                                               \* drop
Serving == {"idle", "accept", "authorize", "prefix", "payload", "handle", "write"}

(* What a client's write_frame leaves in the stream. *)
Frame == {"none", "good", "partial", "oversized", "malformed"}
NoConn == [stage |-> "idle", open |-> FALSE, frame |-> "none", answer |-> FALSE, nth |-> 0]

Init ==
  /\ lock = None /\ path \in {None, Stale}
  /\ server = [d \in Daemons |-> "down"] /\ cancelled = [d \in Daemons |-> FALSE]
  /\ queue = [d \in Daemons |-> <<>>] /\ peer = [d \in Daemons |-> None]
  /\ conn = [c \in Clients |-> NoConn] /\ handled = [c \in Clients |-> 0]
  /\ failures = 0

Fail == failures < MaxFailures /\ failures' = failures + 1

Goto(d, stage) == server' = [server EXCEPT ![d] = stage]

-----------------------------------------------------------------------------
(* LocalServer::bind                                                       *)

(* try_lock_exclusive; a contended lock is EndpointActive and changes      *)
(* nothing.                                                                *)
TryLock(d) ==
  /\ server[d] = "down" /\ lock = None
  /\ lock' = d /\ Goto(d, "locked")
  /\ UNCHANGED <<path, cancelled, queue, peer, clients, failures>>

(* Mutant of RemoveStale: a file that is there is left alone. *)
RemoveStaleSkipped(d) ==
  /\ server[d] = "locked"
  /\ Goto(d, "cleared")
  /\ UNCHANGED <<endpoint, cancelled, queue, peer, clients, failures>>

(* The socket file, if there is one, is removed. *)
RemoveStale(d) ==
  /\ server[d] = "locked"
  /\ path' = None /\ Goto(d, "cleared")
  /\ UNCHANGED <<lock, cancelled, queue, peer, clients, failures>>

(* create_listener does not overwrite: over a file it fails, and the lock  *)
(* is dropped.                                                             *)
CreateListener(d) ==
  /\ server[d] = "cleared"
  /\ IF path = None
     THEN path' = d /\ Goto(d, "created") /\ UNCHANGED lock
     ELSE lock' = None /\ Goto(d, "down") /\ UNCHANGED path
  /\ UNCHANGED <<cancelled, queue, peer, clients, failures>>

(* set_permissions, and the server is bound. *)
SetPermissions(d) ==
  /\ server[d] = "created"
  /\ cancelled' = [cancelled EXCEPT ![d] = FALSE] /\ Goto(d, "idle")
  /\ UNCHANGED <<endpoint, queue, peer, clients, failures>>

(* A system call of bind fails before there is a listener. *)
BindFails(d) ==
  /\ server[d] \in {"locked", "cleared"} /\ Fail
  /\ lock' = None /\ Goto(d, "down")
  /\ UNCHANGED <<path, cancelled, queue, peer, clients>>

-----------------------------------------------------------------------------
(* Dropping the server: its fields in order, the listener before the lock. *)

Closed(set) == [c \in Clients |-> IF c \in set THEN [conn[c] EXCEPT !.open = FALSE] ELSE conn[c]]

Connected(d) == {c \in Clients : \E i \in DOMAIN queue[d] : queue[d][i] = c} \union ({peer[d]} \ {None})

(* Mutant of DropListener: the lock goes first, the file after it. *)
DropListenerLate(d) ==
  \/ /\ \/ server[d] = "created" /\ Fail
        \/ server[d] = "idle" /\ UNCHANGED failures
     /\ lock' = None
     /\ Goto(d, "unlinked")
     /\ conn' = Closed(Connected(d)) /\ queue' = [queue EXCEPT ![d] = <<>>]
     /\ UNCHANGED <<path, cancelled, peer, handled>>
  \/ /\ server[d] = "unlinked"
     /\ path' = None /\ Goto(d, "down")
     /\ UNCHANGED <<lock, cancelled, queue, peer, clients, failures>>

(* Why the listener goes: set_permissions failed, or the caller of         *)
(* serve_exchange is done with the server.                                 *)
DropListener(d) ==
  /\ \/ server[d] = "created" /\ Fail
     \/ server[d] = "idle" /\ UNCHANGED failures
  /\ path' = None
  /\ Goto(d, "unlinked")
  /\ conn' = Closed(Connected(d)) /\ queue' = [queue EXCEPT ![d] = <<>>]
  /\ UNCHANGED <<lock, cancelled, peer, handled>>

DropOwnership(d) ==
  /\ server[d] = "unlinked"
  /\ lock' = None /\ Goto(d, "down")
  /\ UNCHANGED <<path, cancelled, queue, peer, clients, failures>>

(* The daemon dies: the system closes what it had open. *)
Crash(d) ==
  /\ server[d] # "down" /\ Fail
  /\ Goto(d, "down")
  /\ lock' = IF lock = d THEN None ELSE lock
  /\ path' = IF path = d THEN Stale ELSE path
  /\ conn' = Closed(Connected(d))
  /\ queue' = [queue EXCEPT ![d] = <<>>] /\ peer' = [peer EXCEPT ![d] = None]
  /\ UNCHANGED <<cancelled, handled>>

-----------------------------------------------------------------------------
(* serve_exchange                                                          *)

(* CancellationToken::cancel, from any thread. *)
Cancel(d) ==
  /\ server[d] \in Serving /\ ~cancelled[d] /\ Fail
  /\ cancelled' = [cancelled EXCEPT ![d] = TRUE]
  /\ UNCHANGED <<endpoint, server, queue, peer, clients>>

(* Mutant of Return: the stream outlives the exchange. *)
ReturnKeepsStream(d, answer) ==
  /\ conn' = [conn EXCEPT ![peer[d]].answer = answer]
  /\ peer' = [peer EXCEPT ![d] = None] /\ Goto(d, "idle")

(* serve_exchange returns, with or without an error: the stream is         *)
(* dropped, the listener stays.                                            *)
Return(d, answer) ==
  /\ conn' = [conn EXCEPT ![peer[d]].open = FALSE, ![peer[d]].answer = answer]
  /\ peer' = [peer EXCEPT ![d] = None] /\ Goto(d, "idle")

(* The first check; a cancelled call returns at once. *)
Enter(d) ==
  /\ server[d] = "idle" /\ ~cancelled[d]
  /\ Goto(d, "accept")
  /\ UNCHANGED <<endpoint, cancelled, queue, peer, clients, failures>>

(* accept blocks until there is a connection, cancelled or not. *)
AcceptConnection(d) ==
  /\ server[d] = "accept" /\ queue[d] # <<>>
  /\ peer' = [peer EXCEPT ![d] = Head(queue[d])]
  /\ queue' = [queue EXCEPT ![d] = Tail(@)]
  /\ Goto(d, "authorize")
  /\ UNCHANGED <<endpoint, cancelled, clients, failures>>

(* The accept call itself fails. *)
AcceptFails(d) ==
  /\ server[d] = "accept" /\ Fail
  /\ Goto(d, "idle")
  /\ UNCHANGED <<endpoint, cancelled, queue, peer, clients>>

(* authorize_peer, then the checks before the first read. *)
Authorize(d) ==
  /\ server[d] = "authorize"
  /\ \/ ~cancelled[d] /\ Goto(d, "prefix") /\ UNCHANGED <<peer, conn, failures>>
     \/ cancelled[d] /\ Return(d, FALSE) /\ UNCHANGED failures
     \/ Fail /\ Return(d, FALSE)
  /\ UNCHANGED <<endpoint, cancelled, queue, handled>>

(* The client has closed its end. *)
Gone(c) == conn[c].stage = "left"

(* read_frame up to the check after the length. *)
ReadPrefix(d) ==
  /\ server[d] = "prefix"
  /\ LET c == peer[d]
     IN  /\ conn[c].frame # "none" \/ Gone(c)
         /\ IF conn[c].frame \in {"none", "oversized"} \/ cancelled[d]
            THEN Return(d, FALSE)
            ELSE Goto(d, "payload") /\ UNCHANGED <<peer, conn>>
  /\ UNCHANGED <<endpoint, cancelled, queue, handled, failures>>

(* Mutant of ReadPayload: what cannot be parsed is handled all the same. *)
ReadPayloadUnparsed(d) ==
  /\ server[d] = "payload"
  /\ Goto(d, "handle")
  /\ UNCHANGED <<endpoint, cancelled, queue, peer, clients, failures>>

(* The rest of read_frame: a payload cut short blocks until the client is  *)
(* gone.                                                                   *)
ReadPayload(d) ==
  /\ server[d] = "payload"
  /\ LET c == peer[d]
     IN  /\ conn[c].frame = "partial" => Gone(c)
         /\ IF conn[c].frame = "good"
            THEN Goto(d, "handle") /\ UNCHANGED <<peer, conn>>
            ELSE Return(d, FALSE)
  /\ UNCHANGED <<endpoint, cancelled, queue, handled, failures>>

Handle(d) ==
  /\ server[d] = "handle"
  /\ handled' = [handled EXCEPT ![peer[d]] = @ + 1]
  /\ Goto(d, "write")
  /\ UNCHANGED <<endpoint, cancelled, queue, peer, conn, failures>>

(* write_frame: nothing is written once cancelled, to a client that has    *)
(* gone, or of a response longer than a frame.                             *)
WriteResponse(d, fits) ==
  /\ server[d] = "write"
  /\ Return(d, fits /\ ~cancelled[d] /\ ~Gone(peer[d]))
  /\ UNCHANGED <<endpoint, cancelled, queue, handled, failures>>

-----------------------------------------------------------------------------
(* LocalClient::exchange; a client makes its next connection once its last *)
(* one is out of every daemon's hands.                                     *)

(* Connecting to no file, or to a stale one, fails and changes nothing. *)
Connect(c) ==
  /\ conn[c].stage \in {"idle", "done", "left"} /\ conn[c].nth < MaxExchanges
  /\ \A d \in Daemons : c \notin Connected(d)
  /\ path \in Daemons
  /\ conn' = [conn EXCEPT ![c] =
       [NoConn EXCEPT !.stage = "connected", !.open = TRUE, !.nth = conn[c].nth + 1]]
  /\ handled' = [handled EXCEPT ![c] = 0]
  /\ queue' = [queue EXCEPT ![path] = Append(@, c)]
  /\ UNCHANGED <<endpoint, server, cancelled, peer, failures>>

(* write_frame, by a client that keeps to the protocol or does not. *)
Send(c, frame) ==
  /\ conn[c].stage = "connected"
  /\ conn' = [conn EXCEPT ![c].stage = "sent", ![c].frame = frame]
  /\ UNCHANGED <<endpoint, server, cancelled, queue, peer, handled, failures>>

(* The client is cancelled, or dies. *)
Leave(c) ==
  /\ conn[c].stage \in {"connected", "sent"}
  /\ conn' = [conn EXCEPT ![c].stage = "left"]
  /\ UNCHANGED <<endpoint, server, cancelled, queue, peer, handled, failures>>

(* read_frame: the response, or Disconnected. *)
ReadResponse(c) ==
  /\ conn[c].stage \in {"connected", "sent"} /\ ~conn[c].open
  /\ conn' = [conn EXCEPT ![c].stage = "done"]
  /\ UNCHANGED <<endpoint, server, cancelled, queue, peer, handled, failures>>

Bind(d) ==
  TryLock(d) \/ RemoveStale(d) \/ CreateListener(d) \/ SetPermissions(d)

Serve(d) ==
  \/ Enter(d) \/ AcceptConnection(d) \/ Authorize(d) \/ ReadPrefix(d) \/ ReadPayload(d)
  \/ Handle(d) \/ \E fits \in BOOLEAN : WriteResponse(d, fits)

Next ==
  \/ \E d \in Daemons :
       \/ Bind(d) \/ BindFails(d) \/ Serve(d) \/ Cancel(d)
       \/ AcceptFails(d) \/ DropListener(d) \/ DropOwnership(d) \/ Crash(d)
  \/ \E c \in Clients :
       \/ Connect(c) \/ Leave(c) \/ ReadResponse(c)
       \/ \E frame \in Frame \ {"none"} : Send(c, frame)

Spec == Init /\ [][Next]_vars

(***************************************************************************)
(* Daemons keep trying to bind; their caller serves again or drops the     *)
(* server, and drops it once cancelled; a client that is connected sends   *)
(* or leaves in the end, and leaves if it sent half a frame.               *)
(***************************************************************************)
Fairness ==
  /\ \A d \in Daemons :
       /\ WF_vars(Bind(d)) /\ WF_vars(DropOwnership(d))
       /\ WF_vars(Serve(d)) /\ WF_vars(cancelled[d] /\ DropListener(d))
  /\ \A c \in Clients :
       /\ WF_vars(conn[c].stage = "connected" /\ (Leave(c) \/ \E frame \in Frame \ {"none"} : Send(c, frame)))
       /\ WF_vars(conn[c].frame = "partial" /\ Leave(c))
       /\ WF_vars(ReadResponse(c))

FairSpec == Spec /\ Fairness

-----------------------------------------------------------------------------
(* Every variable has its type, and a daemon has a peer exactly while it is *)
(* between accept and the end of the exchange.                             *)
TypeOK ==
  /\ lock \in Daemons \union {None}
  /\ path \in Daemons \union {None, Stale}
  /\ server \in [Daemons -> Stage] /\ cancelled \in [Daemons -> BOOLEAN]
  /\ \A d \in Daemons : peer[d] \in Clients \union {None} /\ queue[d] \in Seq(Clients)
  /\ \A d \in Daemons :
       peer[d] # None <=> server[d] \in {"authorize", "prefix", "payload", "handle", "write"}
  /\ \A c \in Clients : conn[c].frame \in Frame /\ conn[c].nth \in 0..MaxExchanges
  /\ failures \in 0..MaxFailures

(***************************************************************************)
(* docs/ipc.md: the lock avoids replacing a live daemon's socket.  From    *)
(* the lock to the end of its drop a daemon is the only one in the middle  *)
(* of anything, and while its listener lives the socket file leads to it:  *)
(* no bind, failed bind, drop or crash of another daemon takes it away.    *)
(***************************************************************************)
SocketReachesServer ==
  \A d \in Daemons :
    /\ server[d] # "down" => lock = d
    /\ server[d] \in Serving \union {"created"} => path = d

(***************************************************************************)
(* A response that a client can read comes from exactly one run of the     *)
(* handler, on a whole request, and no exchange runs the handler twice,    *)
(* however peers leave, frames break and cancellation falls.               *)
(***************************************************************************)
HandledOnce ==
  \A c \in Clients :
    /\ handled[c] <= 1
    /\ handled[c] = 1 => conn[c].frame = "good"
    /\ conn[c].answer => handled[c] = 1

(***************************************************************************)
(* docs/ipc.md: broken frames, disconnects and cancellation do not         *)
(* terminate the listener.  A client that got its connection is answered   *)
(* or disconnected in the end, whatever the clients before it did.         *)
(***************************************************************************)
ClientsFinish ==
  \A c \in Clients : conn[c].stage = "sent" /\ conn[c].frame # "partial" ~> conn[c].stage \in {"done", "left"}

(***************************************************************************)
(* A socket file left by a crash does not keep the endpoint down: the next *)
(* owner of the lock removes it and serves.                                *)
(***************************************************************************)
EndpointRecovers == path = Stale ~> \E d \in Daemons : server[d] \in Serving
=============================================================================
