------------------------ MODULE LocalEndpointProofs ------------------------
(***************************************************************************)
(* SocketReachesServer and HandledOnce for any number of daemons and       *)
(* clients.  The two halves of the first need each other: a daemon that    *)
(* removes or creates the file holds the lock, so every other daemon is    *)
(* down and has no listener to lose.  The second needs to know where each  *)
(* connection is: waiting in one queue, in the hands of one daemon, or in  *)
(* nobody's.                                                               *)
(***************************************************************************)
EXTENDS LocalEndpoint, TLAPS

(* The invariant, with the type of the one variable it looks into. *)
Owned == server \in [Daemons -> Stage] /\ SocketReachesServer

LEMMA OwnedInit == Init => Owned
BY DEF Init, Owned, SocketReachesServer, Stage, Serving

(* A step of d that changes neither file and does not bring d up or down   *)
(* keeps the invariant.                                                    *)
LEMMA OwnedServe ==
  ASSUME Owned, NEW d \in Daemons, NEW stage \in Serving,
         server[d] \in Serving \union {"created"}, Goto(d, stage), UNCHANGED endpoint
  PROVE  Owned'
BY DEF Owned, SocketReachesServer, Goto, endpoint, Stage, Serving

(* A step of d that leaves every daemon where it is. *)
LEMMA OwnedElsewhere ==
  ASSUME Owned, UNCHANGED <<server, endpoint>>
  PROVE  Owned'
BY DEF Owned, SocketReachesServer, endpoint

LEMMA OwnedBind ==
  ASSUME Owned, NEW d \in Daemons,
         Bind(d) \/ BindFails(d) \/ DropListener(d) \/ DropOwnership(d) \/ Crash(d)
  PROVE  Owned'
<1>0. None \notin Daemons /\ Stale \notin Daemons /\ None # Stale
  BY EndpointAssumption
<1>1. CASE TryLock(d)
  BY <1>0, <1>1 DEF Owned, SocketReachesServer, TryLock, Goto, Stage, Serving
<1>2. CASE RemoveStale(d)
  BY <1>0, <1>2 DEF Owned, SocketReachesServer, RemoveStale, Goto, Stage, Serving
<1>3. CASE CreateListener(d)
  BY <1>0, <1>3 DEF Owned, SocketReachesServer, CreateListener, Goto, Stage, Serving
<1>4. CASE SetPermissions(d)
  BY <1>4, OwnedServe DEF SetPermissions, Serving
<1>5. CASE BindFails(d)
  BY <1>0, <1>5 DEF Owned, SocketReachesServer, BindFails, Goto, Stage, Serving
<1>6. CASE DropListener(d)
  <2>1. server[d] \in Serving \union {"created"} /\ path' = None /\ Goto(d, "unlinked")
        /\ UNCHANGED lock
    BY <1>6 DEF DropListener, Serving
  <2> QED BY <1>0, <2>1 DEF Owned, SocketReachesServer, Goto, Stage, Serving
<1>7. CASE DropOwnership(d)
  BY <1>0, <1>7 DEF Owned, SocketReachesServer, DropOwnership, Goto, Stage, Serving
<1>8. CASE Crash(d)
  BY <1>0, <1>8 DEF Owned, SocketReachesServer, Crash, Goto, Stage, Serving
<1> QED BY <1>1, <1>2, <1>3, <1>4, <1>5, <1>6, <1>7, <1>8 DEF Bind

LEMMA OwnedExchange ==
  ASSUME Owned, NEW d \in Daemons, Serve(d) \/ AcceptFails(d)
  PROVE  Owned'
<1>1. \E stage \in Serving :
        server[d] \in Serving \union {"created"} /\ Goto(d, stage) /\ UNCHANGED endpoint
  <2>1. CASE Enter(d)
    BY <2>1 DEF Enter, Serving
  <2>2. CASE AcceptConnection(d)
    BY <2>2 DEF AcceptConnection, Serving
  <2>3. CASE Authorize(d)
    BY <2>3 DEF Authorize, Return, Serving
  <2>4. CASE ReadPrefix(d)
    BY <2>4 DEF ReadPrefix, Return, Serving
  <2>5. CASE ReadPayload(d)
    BY <2>5 DEF ReadPayload, Return, Serving
  <2>6. CASE Handle(d)
    BY <2>6 DEF Handle, Serving
  <2>7. CASE \E fits \in BOOLEAN : WriteResponse(d, fits)
    BY <2>7 DEF WriteResponse, Return, Serving
  <2>8. CASE AcceptFails(d)
    BY <2>8 DEF AcceptFails, Serving
  <2> QED BY <2>1, <2>2, <2>3, <2>4, <2>5, <2>6, <2>7, <2>8 DEF Serve
<1> QED BY <1>1, OwnedServe

LEMMA OwnedStep == Owned /\ [Next]_vars => Owned'
<1> SUFFICES ASSUME Owned, [Next]_vars PROVE Owned'
  OBVIOUS
<1>1. CASE UNCHANGED vars
  BY <1>1, OwnedElsewhere DEF vars, endpoint
<1>2. ASSUME NEW d \in Daemons, Cancel(d) PROVE Owned'
  BY <1>2, OwnedElsewhere DEF Cancel
<1>3. ASSUME NEW c \in Clients,
             Connect(c) \/ Leave(c) \/ ReadResponse(c)
               \/ \E frame \in Frame \ {"none"} : Send(c, frame)
      PROVE  Owned'
  BY <1>3, OwnedElsewhere DEF Connect, Leave, ReadResponse, Send
<1> QED BY <1>1, <1>2, <1>3, OwnedBind, OwnedExchange DEF Next

(***************************************************************************)
(* LocalServer::bind and the drop of a LocalServer keep the endpoint's     *)
(* promise: a daemon that is bound holds the lock, and the socket file     *)
(* leads to it.                                                            *)
(***************************************************************************)
THEOREM EndpointOwned == Spec => []SocketReachesServer
<1>1. Owned => SocketReachesServer
  BY DEF Owned
<1> QED BY <1>1, OwnedInit, OwnedStep, PTL DEF Spec

-----------------------------------------------------------------------------
(* Exchanges.                                                              *)

Exchange == {"authorize", "prefix", "payload", "handle", "write"}

ConnType ==
  [stage : {"idle", "connected", "sent", "done", "left"}, open : BOOLEAN,
   frame : Frame, answer : BOOLEAN, nth : 0..MaxExchanges]

EndpointTypes ==
  /\ lock \in Daemons \union {None} /\ path \in Daemons \union {None, Stale}
  /\ cancelled \in [Daemons -> BOOLEAN] /\ failures \in 0..MaxFailures

ExchangeTypes ==
  /\ server \in [Daemons -> Stage]
  /\ queue \in [Daemons -> Seq(Clients)] /\ peer \in [Daemons -> Clients \union {None}]
  /\ conn \in [Clients -> ConnType] /\ handled \in [Clients -> Nat]

PeerWhileServing == \A d \in Daemons : peer[d] # None <=> server[d] \in Exchange

(* A connection is in one place. *)
Apart ==
  \A d, e \in Daemons :
    /\ peer[d] # None /\ peer[d] = peer[e] => d = e
    /\ \A i \in 1..Len(queue[d]) :
         /\ queue[d][i] # peer[e]
         /\ \A j \in 1..Len(queue[e]) : queue[d][i] = queue[e][j] => d = e /\ i = j

(* A connection that waits was neither handled nor answered. *)
Waiting ==
  \A d \in Daemons : \A i \in 1..Len(queue[d]) :
    handled[queue[d][i]] = 0 /\ ~conn[queue[d][i]].answer

(* One that is served is handled on a whole request, and not yet answered. *)
Served ==
  \A d \in Daemons : server[d] \in Exchange =>
    /\ ~conn[peer[d]].answer
    /\ handled[peer[d]] = (IF server[d] = "write" THEN 1 ELSE 0)
    /\ server[d] \in {"handle", "write"} => conn[peer[d]].frame = "good"

Unsent == \A c \in Clients : conn[c].stage = "connected" => conn[c].frame = "none"

ExchangeInv ==
  /\ ExchangeTypes /\ PeerWhileServing /\ Apart /\ Waiting /\ Served /\ Unsent
  /\ HandledOnce

LEMMA ExchangeInit == Init => ExchangeInv /\ EndpointTypes
<1> SUFFICES ASSUME Init PROVE ExchangeInv /\ EndpointTypes
  OBVIOUS
<1> USE EndpointAssumption
<1>1. NoConn \in ConnType
  BY DEF NoConn, ConnType, Frame
<1>2. <<>> \in Seq(Clients) /\ Len(<<>>) = 0
  OBVIOUS
<1>3. ExchangeTypes
  BY <1>1, <1>2 DEF Init, ExchangeTypes, Stage
<1>4. PeerWhileServing /\ Served
  BY DEF Init, PeerWhileServing, Served, Exchange
<1>5. Apart /\ Waiting
  BY <1>2 DEF Init, Apart, Waiting
<1>6. Unsent /\ HandledOnce
  BY DEF Init, Unsent, HandledOnce, NoConn
<1>7. EndpointTypes
  BY DEF Init, EndpointTypes
<1> QED BY <1>3, <1>4, <1>5, <1>6, <1>7 DEF ExchangeInv

(* A step of d that touches no connection: it stays out of an exchange, or *)
(* goes on in one, to the handler only on a whole request.                 *)
LEMMA StageStep ==
  ASSUME ExchangeInv, NEW d \in Daemons, NEW stage \in Stage,
         Goto(d, stage), UNCHANGED <<queue, peer, conn, handled>>,
         \/ server[d] \notin Exchange /\ stage \notin Exchange
         \/ /\ server[d] \in Exchange \ {"write"} /\ stage \in Exchange \ {"write"}
            /\ stage = "handle" => conn[peer[d]].frame = "good"
  PROVE  ExchangeInv'
<1>1. /\ server' \in [Daemons -> Stage] /\ server'[d] = stage
      /\ \A e \in Daemons : e # d => server'[e] = server[e]
  BY DEF ExchangeInv, ExchangeTypes, Goto
<1>2. ExchangeTypes' /\ Apart' /\ Waiting' /\ Unsent' /\ HandledOnce'
  BY <1>1 DEF ExchangeInv, ExchangeTypes, Apart, Waiting, Unsent, HandledOnce
<1>3. PeerWhileServing'
  BY <1>1 DEF ExchangeInv, PeerWhileServing
<1>4. Served'
  BY <1>1 DEF ExchangeInv, Served, Exchange
<1> QED BY <1>2, <1>3, <1>4 DEF ExchangeInv

(* Daemons that let go of connections keep the others apart. *)
LEMMA LettingGo ==
  ASSUME ExchangeTypes, Apart,
         \A d \in Daemons : peer'[d] \in {peer[d], None} /\ queue'[d] \in {queue[d], <<>>}
  PROVE  Apart'
<1>1. \A d \in Daemons : \A i \in 1..Len(queue[d]) : queue[d][i] \in Clients /\ queue[d][i] # None
  BY EndpointAssumption DEF ExchangeTypes
<1>2. \A d \in Daemons : \A i \in 1..Len(queue'[d]) : queue'[d] = queue[d]
  OBVIOUS
<1> SUFFICES ASSUME NEW d \in Daemons, NEW e \in Daemons PROVE Apart!(d, e)'
  BY DEF Apart
<1>3. peer'[d] # None /\ peer'[d] = peer'[e] => d = e
  BY DEF Apart
<1>4. ASSUME NEW i \in 1..Len(queue'[d]) PROVE queue'[d][i] # peer'[e]
  BY <1>1, <1>2 DEF Apart
<1>5. ASSUME NEW i \in 1..Len(queue'[d]), NEW j \in 1..Len(queue'[e]),
             queue'[d][i] = queue'[e][j]
      PROVE  d = e /\ i = j
  BY <1>2, <1>5 DEF Apart
<1> QED BY <1>3, <1>4, <1>5

(* serve_exchange returns: an answer only after the handler. *)
LEMMA ReturnStep ==
  ASSUME ExchangeInv, NEW d \in Daemons, NEW answer \in BOOLEAN,
         server[d] \in Exchange, answer => server[d] = "write",
         Return(d, answer), UNCHANGED <<queue, handled>>
  PROVE  ExchangeInv'
<1> USE EndpointAssumption
<1>a. peer[d] \in Clients /\ peer[d] # None
  BY DEF ExchangeInv, ExchangeTypes, PeerWhileServing
<1> DEFINE c == peer[d]
<1>b. conn \in [Clients -> ConnType] /\ conn[c] \in ConnType
  BY <1>a DEF ExchangeInv, ExchangeTypes
<1>c. conn' = [conn EXCEPT ![c] = [conn[c] EXCEPT !.open = FALSE, !.answer = answer]]
  BY <1>b DEF Return
<1>d. [conn[c] EXCEPT !.open = FALSE, !.answer = answer] \in ConnType
  BY <1>b DEF ConnType
<1>1. /\ conn' \in [Clients -> ConnType]
      /\ \A x \in Clients : /\ x # c => conn'[x] = conn[x]
                           /\ conn'[x].frame = conn[x].frame /\ conn'[x].stage = conn[x].stage
      /\ conn'[c].answer = answer
  BY <1>a, <1>b, <1>c, <1>d DEF ConnType
<1>2. /\ server' \in [Daemons -> Stage] /\ server'[d] = "idle"
      /\ \A e \in Daemons : e # d => server'[e] = server[e]
  BY DEF ExchangeInv, ExchangeTypes, Return, Goto, Stage
<1>3. /\ peer' \in [Daemons -> Clients \union {None}] /\ peer'[d] = None
      /\ \A e \in Daemons : e # d => peer'[e] = peer[e]
  BY DEF ExchangeInv, ExchangeTypes, Return
<1>4. ExchangeTypes'
  BY <1>1, <1>2, <1>3 DEF ExchangeInv, ExchangeTypes
<1>5. PeerWhileServing'
  BY <1>2, <1>3 DEF ExchangeInv, PeerWhileServing, Exchange
<1>6. Apart'
  BY <1>3, LettingGo DEF ExchangeInv
<1>7. \A e \in Daemons : \A i \in 1..Len(queue[e]) : queue[e][i] \in Clients /\ queue[e][i] # c
  BY DEF ExchangeInv, ExchangeTypes, Apart
<1>8. Waiting'
  BY <1>1, <1>7 DEF ExchangeInv, Waiting
<1>9. Served'
  <2> SUFFICES ASSUME NEW e \in Daemons, server'[e] \in Exchange PROVE Served!(e)!2'
    BY DEF Served
  <2>1. e # d /\ peer'[e] = peer[e] /\ server'[e] = server[e]
    BY <1>2, <1>3 DEF Exchange
  <2>2. peer[e] \in Clients /\ peer[e] # c
    BY <1>a, <2>1 DEF ExchangeInv, ExchangeTypes, PeerWhileServing, Apart
  <2> QED BY <1>1, <2>1, <2>2 DEF ExchangeInv, Served
<1>10. Unsent'
  BY <1>1 DEF ExchangeInv, Unsent
<1>11. HandledOnce'
  <2>1. answer => handled[c] = 1
    BY DEF ExchangeInv, Served
  <2> QED BY <1>1, <2>1 DEF ExchangeInv, HandledOnce
<1> QED BY <1>4, <1>5, <1>6, <1>8, <1>9, <1>10, <1>11 DEF ExchangeInv

(* The handler runs for a connection that it has not run for. *)
LEMMA HandleStep ==
  ASSUME ExchangeInv, NEW d \in Daemons, Handle(d)
  PROVE  ExchangeInv'
<1> USE EndpointAssumption
<1>a. server[d] = "handle" /\ UNCHANGED <<queue, peer, conn>>
  BY DEF Handle
<1>b. peer[d] \in Clients /\ peer[d] # None
  BY <1>a DEF ExchangeInv, ExchangeTypes, PeerWhileServing, Exchange
<1> DEFINE c == peer[d]
<1>c. handled[c] = 0 /\ conn[c].frame = "good"
  BY <1>a DEF ExchangeInv, Served, Exchange
<1>1. /\ handled' \in [Clients -> Nat] /\ handled'[c] = 1
      /\ \A x \in Clients : x # c => handled'[x] = handled[x]
  BY <1>b, <1>c DEF Handle, ExchangeInv, ExchangeTypes
<1>2. /\ server' \in [Daemons -> Stage] /\ server'[d] = "write"
      /\ \A e \in Daemons : e # d => server'[e] = server[e]
  BY DEF ExchangeInv, ExchangeTypes, Handle, Goto, Stage
<1>3. ExchangeTypes' /\ Apart' /\ Unsent'
  BY <1>a, <1>1, <1>2 DEF ExchangeInv, ExchangeTypes, Apart, Unsent
<1>4. PeerWhileServing'
  BY <1>a, <1>2 DEF ExchangeInv, PeerWhileServing, Exchange
<1>5. \A e \in Daemons : \A i \in 1..Len(queue[e]) : queue[e][i] \in Clients /\ queue[e][i] # c
  BY DEF ExchangeInv, ExchangeTypes, Apart
<1>6. Waiting'
  BY <1>a, <1>1, <1>5 DEF ExchangeInv, Waiting
<1>7. Served'
  <2> SUFFICES ASSUME NEW e \in Daemons, server'[e] \in Exchange PROVE Served!(e)!2'
    BY DEF Served
  <2>1. CASE e = d
    BY <1>a, <1>c, <1>1, <1>2, <2>1 DEF ExchangeInv, Served, Exchange
  <2>2. CASE e # d
    <3>1. peer[e] \in Clients /\ peer[e] # c
      BY <1>b, <1>2, <2>2 DEF ExchangeInv, ExchangeTypes, PeerWhileServing, Apart
    <3> QED BY <1>a, <1>1, <1>2, <2>2, <3>1 DEF ExchangeInv, Served
  <2> QED BY <2>1, <2>2
<1>8. HandledOnce'
  BY <1>a, <1>c, <1>1 DEF ExchangeInv, HandledOnce
<1> QED BY <1>3, <1>4, <1>6, <1>7, <1>8 DEF ExchangeInv

(* accept moves the head of the queue into the daemon's hands. *)
LEMMA AcceptStep ==
  ASSUME ExchangeInv, NEW d \in Daemons, AcceptConnection(d)
  PROVE  ExchangeInv'
<1> USE EndpointAssumption
<1>a. server[d] = "accept" /\ queue[d] # <<>> /\ UNCHANGED <<conn, handled>>
  BY DEF AcceptConnection, clients
<1>b. /\ queue[d] \in Seq(Clients) /\ Len(queue[d]) \in Nat /\ Len(queue[d]) > 0
      /\ \A e \in Daemons : \A i \in 1..Len(queue[e]) : queue[e][i] \in Clients
  BY <1>a DEF ExchangeInv, ExchangeTypes
<1> DEFINE c == queue[d][1]
<1>c. c \in Clients /\ c # None /\ peer[d] = None
  BY <1>a, <1>b DEF ExchangeInv, PeerWhileServing, Exchange
<1>1. /\ queue' \in [Daemons -> Seq(Clients)] /\ queue'[d] = Tail(queue[d])
      /\ \A e \in Daemons : e # d => queue'[e] = queue[e]
  BY <1>a, <1>b DEF AcceptConnection, ExchangeInv, ExchangeTypes
<1>2. /\ Len(queue'[d]) \in Nat /\ Len(queue'[d]) = Len(queue[d]) - 1
      /\ \A i \in 1..Len(queue'[d]) : queue'[d][i] = queue[d][i + 1]
  BY <1>b, <1>1
<1>3. /\ peer' \in [Daemons -> Clients \union {None}] /\ peer'[d] = c
      /\ \A e \in Daemons : e # d => peer'[e] = peer[e]
  BY <1>a, <1>b DEF AcceptConnection, ExchangeInv, ExchangeTypes
<1>4. /\ server' \in [Daemons -> Stage] /\ server'[d] = "authorize"
      /\ \A e \in Daemons : e # d => server'[e] = server[e]
  BY DEF ExchangeInv, ExchangeTypes, AcceptConnection, Goto, Stage
<1>5. ExchangeTypes' /\ Unsent' /\ HandledOnce'
  BY <1>a, <1>1, <1>3, <1>4 DEF ExchangeInv, ExchangeTypes, Unsent, HandledOnce
<1>6. PeerWhileServing'
  BY <1>c, <1>3, <1>4 DEF ExchangeInv, PeerWhileServing, Exchange
(* Where a place of the new queues was in the old ones. *)
<1> DEFINE Was(e, i) == IF e = d THEN i + 1 ELSE i
<1>7. \A e \in Daemons : \A i \in 1..Len(queue'[e]) :
        Was(e, i) \in 1..Len(queue[e]) /\ queue'[e][i] = queue[e][Was(e, i)] /\ i \in Nat
        /\ (e = d => Was(e, i) # 1)
  <2> SUFFICES ASSUME NEW e \in Daemons, NEW i \in 1..Len(queue'[e])
               PROVE  Was(e, i) \in 1..Len(queue[e]) /\ queue'[e][i] = queue[e][Was(e, i)]
                      /\ i \in Nat /\ (e = d => Was(e, i) # 1)
    OBVIOUS
  <2>1. CASE e = d
    BY <1>b, <1>2, <2>1
  <2>2. CASE e # d
    BY <1>1, <2>2
  <2> QED BY <2>1, <2>2
<1> HIDE DEF Was
<1>8. \A e \in Daemons : \A i \in 1..Len(queue'[e]) : queue'[e][i] # c
  <2> SUFFICES ASSUME NEW e \in Daemons, NEW i \in 1..Len(queue'[e]), queue'[e][i] = c
               PROVE  FALSE
    OBVIOUS
  <2>1. /\ Was(e, i) \in 1..Len(queue[e]) /\ queue[e][Was(e, i)] = queue[d][1]
        /\ 1 \in 1..Len(queue[d])
    BY <1>b, <1>7
  <2>2. e = d /\ Was(e, i) = 1
    BY <2>1 DEF ExchangeInv, Apart
  <2> QED BY <1>7, <2>2
<1>9. \A e \in Daemons : e # d => peer[e] # c
  BY <1>b DEF ExchangeInv, Apart
<1>10. Apart'
  <2> SUFFICES ASSUME NEW e \in Daemons, NEW f \in Daemons PROVE Apart!(e, f)'
    BY DEF Apart
  <2>1. peer'[e] # None /\ peer'[e] = peer'[f] => e = f
    BY <1>3, <1>9 DEF ExchangeInv, Apart
  <2>2. ASSUME NEW i \in 1..Len(queue'[e]) PROVE queue'[e][i] # peer'[f]
    <3>1. CASE f = d
      BY <1>3, <1>8, <3>1
    <3>2. CASE f # d
      <4>1. queue[e][Was(e, i)] # peer[f]
        BY <1>7 DEF ExchangeInv, Apart
      <4> QED BY <1>3, <1>7, <3>2, <4>1
    <3> QED BY <3>1, <3>2
  <2>3. ASSUME NEW i \in 1..Len(queue'[e]), NEW j \in 1..Len(queue'[f]),
               queue'[e][i] = queue'[f][j]
        PROVE  e = f /\ i = j
    <3>1. /\ Was(e, i) \in 1..Len(queue[e]) /\ Was(f, j) \in 1..Len(queue[f])
          /\ queue[e][Was(e, i)] = queue[f][Was(f, j)]
      BY <1>7, <2>3
    <3>2. e = f /\ Was(e, i) = Was(f, j)
      BY <3>1 DEF ExchangeInv, Apart
    <3>3. i \in Nat /\ j \in Nat
      BY <1>7
    <3> QED BY <3>2, <3>3 DEF Was
  <2> QED BY <2>1, <2>2, <2>3
<1>11. Waiting'
  <2> SUFFICES ASSUME NEW e \in Daemons, NEW i \in 1..Len(queue'[e])
               PROVE  handled[queue'[e][i]] = 0 /\ ~conn[queue'[e][i]].answer
    BY <1>a DEF Waiting
  <2>1. Was(e, i) \in 1..Len(queue[e]) /\ queue'[e][i] = queue[e][Was(e, i)]
    BY <1>7
  <2> QED BY <2>1 DEF ExchangeInv, Waiting
<1>12. handled[c] = 0 /\ ~conn[c].answer
  BY <1>b DEF ExchangeInv, Waiting
<1>13. Served'
  <2> SUFFICES ASSUME NEW e \in Daemons, server'[e] \in Exchange PROVE Served!(e)!2'
    BY DEF Served
  <2>1. CASE e = d
    BY <1>a, <1>3, <1>4, <1>12, <2>1
  <2>2. CASE e # d
    BY <1>a, <1>3, <1>4, <2>2 DEF ExchangeInv, Served
  <2> QED BY <2>1, <2>2
<1> QED BY <1>5, <1>6, <1>10, <1>11, <1>13 DEF ExchangeInv

(* Closing connections changes what they are open for, and nothing else. *)
LEMMA ClosedKeeps ==
  ASSUME conn \in [Clients -> ConnType], NEW set, conn' = Closed(set)
  PROVE  /\ conn' \in [Clients -> ConnType]
         /\ \A c \in Clients : /\ conn'[c].frame = conn[c].frame /\ conn'[c].stage = conn[c].stage
                              /\ conn'[c].answer = conn[c].answer
BY DEF Closed, ConnType

(* The listener goes, or the daemon with it. *)
LEMMA LetGoStep ==
  ASSUME ExchangeInv, NEW d \in Daemons, DropListener(d) \/ Crash(d)
  PROVE  ExchangeInv'
<1>1. /\ conn' \in [Clients -> ConnType]
      /\ \A c \in Clients : /\ conn'[c].frame = conn[c].frame /\ conn'[c].stage = conn[c].stage
                           /\ conn'[c].answer = conn[c].answer
  BY ClosedKeeps DEF ExchangeInv, ExchangeTypes, DropListener, Crash
<1>2. /\ queue' \in [Daemons -> Seq(Clients)] /\ queue'[d] = <<>>
      /\ \A e \in Daemons : e # d => queue'[e] = queue[e]
  <2>1. queue' = [queue EXCEPT ![d] = <<>>] /\ <<>> \in Seq(Clients)
    BY DEF DropListener, Crash
  <2> QED BY <2>1 DEF ExchangeInv, ExchangeTypes
<1>3. /\ server' \in [Daemons -> Stage] /\ server'[d] \notin Exchange
      /\ \A e \in Daemons : e # d => server'[e] = server[e]
  <2>1. PICK stage \in {"unlinked", "down"} : Goto(d, stage)
    BY DEF DropListener, Crash
  <2> QED BY <2>1 DEF ExchangeInv, ExchangeTypes, Goto, Stage, Exchange
<1>4. /\ peer' \in [Daemons -> Clients \union {None}] /\ peer'[d] = None
      /\ \A e \in Daemons : e # d => peer'[e] = peer[e]
  <2>1. CASE DropListener(d)
    BY <2>1 DEF ExchangeInv, ExchangeTypes, PeerWhileServing, DropListener, Exchange
  <2>2. CASE Crash(d)
    BY <2>2 DEF ExchangeInv, ExchangeTypes, Crash
  <2> QED BY <2>1, <2>2
<1>5. handled' = handled
  BY DEF DropListener, Crash
<1>6. ExchangeTypes'
  BY <1>1, <1>2, <1>3, <1>4, <1>5 DEF ExchangeInv, ExchangeTypes
<1>7. PeerWhileServing'
  BY <1>3, <1>4 DEF ExchangeInv, PeerWhileServing
<1>8. Apart'
  BY <1>2, <1>4, LettingGo DEF ExchangeInv
<1>9. Waiting'
  <2> SUFFICES ASSUME NEW e \in Daemons, NEW i \in 1..Len(queue'[e]) PROVE Waiting!(e)!(i)'
    BY DEF Waiting
  <2>1. e # d /\ queue'[e] = queue[e] /\ queue[e][i] \in Clients
    BY <1>2 DEF ExchangeInv, ExchangeTypes
  <2> QED BY <1>1, <1>5, <2>1 DEF ExchangeInv, Waiting
<1>10. Served'
  <2> SUFFICES ASSUME NEW e \in Daemons, server'[e] \in Exchange PROVE Served!(e)!2'
    BY DEF Served
  <2>1. e # d /\ peer'[e] = peer[e] /\ server'[e] = server[e]
    BY <1>3, <1>4
  <2>2. peer[e] \in Clients
    BY <2>1 DEF ExchangeInv, ExchangeTypes, PeerWhileServing
  <2> QED BY <1>1, <1>5, <2>1, <2>2 DEF ExchangeInv, Served
<1>11. Unsent' /\ HandledOnce'
  BY <1>1, <1>5 DEF ExchangeInv, Unsent, HandledOnce
<1> QED BY <1>6, <1>7, <1>8, <1>9, <1>10, <1>11 DEF ExchangeInv

(* A new connection is in nobody's hands before it joins the queue. *)
LEMMA ConnectStep ==
  ASSUME ExchangeInv, NEW c \in Clients, Connect(c)
  PROVE  ExchangeInv'
<1> USE EndpointAssumption
<1> DEFINE fresh == [NoConn EXCEPT !.stage = "connected", !.open = TRUE, !.nth = conn[c].nth + 1]
<1>a. path \in Daemons /\ UNCHANGED <<server, peer>>
  BY DEF Connect
<1>b. /\ conn[c] \in ConnType /\ conn[c].nth < MaxExchanges
      /\ \A d \in Daemons : queue[d] \in Seq(Clients) /\ Len(queue[d]) \in Nat
  BY DEF ExchangeInv, ExchangeTypes, Connect
<1>c. conn[c].nth + 1 \in 0..MaxExchanges
  BY <1>b DEF ConnType
<1>d. fresh \in ConnType /\ fresh.frame = "none" /\ fresh.answer = FALSE
  BY <1>c DEF ConnType, NoConn, Frame
<1> HIDE DEF fresh
<1>1. /\ conn' \in [Clients -> ConnType] /\ conn'[c] = fresh
      /\ \A x \in Clients : x # c => conn'[x] = conn[x]
  <2>1. conn' = [conn EXCEPT ![c] = fresh]
    BY DEF Connect, fresh
  <2> QED BY <1>d, <2>1 DEF ExchangeInv, ExchangeTypes
<1>2. /\ handled' \in [Clients -> Nat] /\ handled'[c] = 0
      /\ \A x \in Clients : x # c => handled'[x] = handled[x]
  BY DEF Connect, ExchangeInv, ExchangeTypes
<1>3. /\ queue' \in [Daemons -> Seq(Clients)] /\ queue'[path] = Append(queue[path], c)
      /\ \A e \in Daemons : e # path => queue'[e] = queue[e]
  BY <1>a, <1>b DEF Connect, ExchangeInv, ExchangeTypes
<1>4. /\ \A e \in Daemons : peer[e] # c
      /\ \A e \in Daemons : \A i \in 1..Len(queue[e]) : queue[e][i] # c /\ queue[e][i] \in Clients
  BY <1>b DEF Connect, Connected
<1>5. /\ \A i \in 1..Len(queue[path]) : queue'[path][i] = queue[path][i]
      /\ Len(queue'[path]) = Len(queue[path]) + 1 /\ queue'[path][Len(queue[path]) + 1] = c
  BY <1>a, <1>b, <1>3
<1>6. \A e \in Daemons : \A i \in 1..Len(queue'[e]) :
        \/ i \in 1..Len(queue[e]) /\ queue'[e][i] = queue[e][i]
        \/ e = path /\ i = Len(queue[path]) + 1 /\ queue'[e][i] = c
  <2> SUFFICES ASSUME NEW e \in Daemons, NEW i \in 1..Len(queue'[e])
               PROVE  \/ i \in 1..Len(queue[e]) /\ queue'[e][i] = queue[e][i]
                      \/ e = path /\ i = Len(queue[path]) + 1 /\ queue'[e][i] = c
    OBVIOUS
  <2>1. CASE e = path
    <3>1. i \in 1..Len(queue[path]) \/ i = Len(queue[path]) + 1
      BY <1>a, <1>b, <1>5, <2>1
    <3> QED BY <1>5, <2>1, <3>1
  <2>2. CASE e # path
    BY <1>3, <2>2
  <2> QED BY <2>1, <2>2
<1>7. ExchangeTypes' /\ PeerWhileServing'
  BY <1>a, <1>1, <1>2, <1>3 DEF ExchangeInv, ExchangeTypes, PeerWhileServing
<1>8. Apart'
  <2> SUFFICES ASSUME NEW e \in Daemons, NEW f \in Daemons PROVE Apart!(e, f)'
    BY DEF Apart
  <2>1. peer'[e] # None /\ peer'[e] = peer'[f] => e = f
    BY <1>a DEF ExchangeInv, Apart
  <2>2. ASSUME NEW i \in 1..Len(queue'[e]) PROVE queue'[e][i] # peer'[f]
    BY <1>a, <1>4, <1>6 DEF ExchangeInv, Apart
  <2>3. ASSUME NEW i \in 1..Len(queue'[e]), NEW j \in 1..Len(queue'[f]),
               queue'[e][i] = queue'[f][j]
        PROVE  e = f /\ i = j
    <3>1. CASE queue'[e][i] = c
      <4>1. e = path /\ i = Len(queue[path]) + 1
        BY <1>4, <1>6, <3>1
      <4>2. f = path /\ j = Len(queue[path]) + 1
        BY <1>4, <1>6, <2>3, <3>1
      <4> QED BY <4>1, <4>2
    <3>2. CASE queue'[e][i] # c
      <4>1. /\ i \in 1..Len(queue[e]) /\ j \in 1..Len(queue[f])
            /\ queue[e][i] = queue[f][j]
        BY <1>6, <2>3, <3>2
      <4> QED BY <4>1 DEF ExchangeInv, Apart
    <3> QED BY <3>1, <3>2
  <2> QED BY <2>1, <2>2, <2>3
<1>9. Waiting'
  <2> SUFFICES ASSUME NEW e \in Daemons, NEW i \in 1..Len(queue'[e]) PROVE Waiting!(e)!(i)'
    BY DEF Waiting
  <2>1. CASE queue'[e][i] = c
    BY <1>d, <1>1, <1>2, <2>1
  <2>2. CASE queue'[e][i] # c
    <3>1. i \in 1..Len(queue[e]) /\ queue'[e][i] = queue[e][i] /\ queue[e][i] \in Clients
      BY <1>4, <1>6, <2>2
    <3> QED BY <1>1, <1>2, <2>2, <3>1 DEF ExchangeInv, Waiting
  <2> QED BY <2>1, <2>2
<1>10. Served'
  <2> SUFFICES ASSUME NEW e \in Daemons, server'[e] \in Exchange PROVE Served!(e)!2'
    BY DEF Served
  <2>1. peer'[e] = peer[e] /\ server'[e] = server[e] /\ peer[e] # c
    BY <1>a, <1>4
  <2>2. peer[e] \in Clients
    BY <2>1 DEF ExchangeInv, ExchangeTypes, PeerWhileServing
  <2> QED BY <1>1, <1>2, <2>1, <2>2 DEF ExchangeInv, Served
<1>11. Unsent' /\ HandledOnce'
  BY <1>d, <1>1, <1>2 DEF ExchangeInv, Unsent, HandledOnce
<1> QED BY <1>7, <1>8, <1>9, <1>10, <1>11 DEF ExchangeInv

(* The rest of LocalClient::exchange: only a connection on which nothing    *)
(* was sent gets a frame.                                                   *)
LEMMA ClientStep ==
  ASSUME ExchangeInv, NEW c \in Clients,
         Leave(c) \/ ReadResponse(c) \/ \E frame \in Frame \ {"none"} : Send(c, frame)
  PROVE  ExchangeInv'
<1>a. UNCHANGED <<server, queue, peer, handled>>
  BY DEF Leave, ReadResponse, Send
<1>b. conn \in [Clients -> ConnType] /\ conn[c] \in ConnType
  BY DEF ExchangeInv, ExchangeTypes
<1>1. /\ conn' \in [Clients -> ConnType] /\ conn'[c].answer = conn[c].answer
      /\ conn'[c].frame = conn[c].frame \/ conn[c].stage = "connected"
      /\ conn'[c].stage # "connected"
      /\ \A x \in Clients : x # c => conn'[x] = conn[x]
  <2>1. CASE Leave(c) \/ ReadResponse(c)
    <3>1. PICK stage \in {"left", "done"} : conn' = [conn EXCEPT ![c] = [conn[c] EXCEPT !.stage = stage]]
      BY <1>b, <2>1 DEF Leave, ReadResponse
    <3> QED BY <1>b, <3>1 DEF ConnType
  <2>2. ASSUME NEW frame \in Frame \ {"none"}, Send(c, frame) PROVE <1>1!:
    <3>1. /\ conn' = [conn EXCEPT ![c] = [conn[c] EXCEPT !.stage = "sent", !.frame = frame]]
          /\ conn[c].stage = "connected"
      BY <1>b, <2>2 DEF Send
    <3> QED BY <1>b, <3>1 DEF ConnType
  <2> QED BY <2>1, <2>2
<1>2. conn[c].frame = "good" => conn'[c].frame = "good"
  BY <1>1 DEF ExchangeInv, Unsent
<1>3. \A x \in Clients : conn[x].frame = "good" => conn'[x].frame = "good"
  BY <1>1, <1>2
<1>3a. \A x \in Clients : conn'[x].answer = conn[x].answer
  BY <1>1
<1>4. ExchangeTypes' /\ PeerWhileServing' /\ Apart'
  BY <1>a, <1>1 DEF ExchangeInv, ExchangeTypes, PeerWhileServing, Apart
<1>5. Waiting'
  <2> SUFFICES ASSUME NEW e \in Daemons, NEW i \in 1..Len(queue[e])
               PROVE  handled[queue[e][i]] = 0 /\ ~conn'[queue[e][i]].answer
    BY <1>a DEF Waiting
  <2>1. queue[e][i] \in Clients
    BY DEF ExchangeInv, ExchangeTypes
  <2>2. handled[queue[e][i]] = 0 /\ ~conn[queue[e][i]].answer
    BY DEF ExchangeInv, Waiting
  <2> QED BY <1>3a, <2>1, <2>2
<1>6. Served'
  <2> SUFFICES ASSUME NEW e \in Daemons, server'[e] \in Exchange PROVE Served!(e)!2'
    BY DEF Served
  <2>1. peer[e] \in Clients
    BY <1>a DEF ExchangeInv, ExchangeTypes, PeerWhileServing
  <2>2. Served!(e)!2
    BY <1>a DEF ExchangeInv, Served
  <2> QED BY <1>a, <1>3, <1>3a, <2>1, <2>2
<1>7. Unsent' /\ HandledOnce'
  BY <1>a, <1>1, <1>3, <1>3a DEF ExchangeInv, Unsent, HandledOnce
<1> QED BY <1>4, <1>5, <1>6, <1>7 DEF ExchangeInv

(* The steps of serve_exchange. *)
LEMMA ServeStep ==
  ASSUME ExchangeInv, NEW d \in Daemons, Serve(d) \/ AcceptFails(d)
  PROVE  ExchangeInv'
<1> USE DEF Exchange, Stage
<1>1. CASE Enter(d) \/ AcceptFails(d)
  BY <1>1, StageStep DEF Enter, AcceptFails, clients
<1>2. CASE AcceptConnection(d)
  BY <1>2, AcceptStep
<1>3. CASE Authorize(d)
  <2>1. CASE Goto(d, "prefix") /\ UNCHANGED <<peer, conn>>
    BY <1>3, <2>1, StageStep DEF Authorize
  <2>2. CASE Return(d, FALSE)
    BY <1>3, <2>2, ReturnStep DEF Authorize
  <2> QED BY <1>3, <2>1, <2>2 DEF Authorize
<1>4. CASE ReadPrefix(d)
  <2>1. CASE Goto(d, "payload") /\ UNCHANGED <<peer, conn>>
    BY <1>4, <2>1, StageStep DEF ReadPrefix
  <2>2. CASE Return(d, FALSE)
    BY <1>4, <2>2, ReturnStep DEF ReadPrefix
  <2> QED BY <1>4, <2>1, <2>2 DEF ReadPrefix
<1>5. CASE ReadPayload(d)
  <2>1. CASE conn[peer[d]].frame = "good" /\ Goto(d, "handle") /\ UNCHANGED <<peer, conn>>
    BY <1>5, <2>1, StageStep DEF ReadPayload
  <2>2. CASE Return(d, FALSE)
    BY <1>5, <2>2, ReturnStep DEF ReadPayload
  <2> QED BY <1>5, <2>1, <2>2 DEF ReadPayload
<1>6. CASE Handle(d)
  BY <1>6, HandleStep
<1>7. ASSUME NEW fits \in BOOLEAN, WriteResponse(d, fits) PROVE ExchangeInv'
  <2>1. (fits /\ ~cancelled[d] /\ ~Gone(peer[d])) \in BOOLEAN
    OBVIOUS
  <2>2. server[d] = "write" /\ Return(d, fits /\ ~cancelled[d] /\ ~Gone(peer[d]))
        /\ UNCHANGED <<queue, handled>>
    BY <1>7 DEF WriteResponse
  <2> QED BY <2>1, <2>2, ReturnStep
<1> QED BY <1>1, <1>2, <1>3, <1>4, <1>5, <1>6, <1>7 DEF Serve

(* The steps of bind, and the end of the drop. *)
LEMMA BindStep ==
  ASSUME ExchangeInv, NEW d \in Daemons, Bind(d) \/ BindFails(d) \/ DropOwnership(d)
  PROVE  ExchangeInv'
<1>1. /\ server[d] \notin Exchange /\ UNCHANGED <<queue, peer, conn, handled>>
      /\ \E stage \in Stage \ Exchange : Goto(d, stage)
  <2>1. CASE TryLock(d)
    BY <2>1 DEF TryLock, clients, Exchange, Stage
  <2>2. CASE RemoveStale(d)
    BY <2>2 DEF RemoveStale, clients, Exchange, Stage
  <2>3. CASE CreateListener(d)
    BY <2>3 DEF CreateListener, clients, Exchange, Stage
  <2>4. CASE SetPermissions(d)
    BY <2>4 DEF SetPermissions, clients, Exchange, Stage
  <2>5. CASE BindFails(d)
    BY <2>5 DEF BindFails, clients, Exchange, Stage
  <2>6. CASE DropOwnership(d)
    BY <2>6 DEF DropOwnership, clients, Exchange, Stage
  <2> QED BY <2>1, <2>2, <2>3, <2>4, <2>5, <2>6 DEF Bind
<1> QED BY <1>1, StageStep

LEMMA ExchangeStep == ExchangeInv /\ [Next]_vars => ExchangeInv'
<1> SUFFICES ASSUME ExchangeInv, [Next]_vars PROVE ExchangeInv'
  OBVIOUS
<1>1. ASSUME UNCHANGED <<server, queue, peer, conn, handled>> PROVE ExchangeInv'
  BY <1>1 DEF ExchangeInv, ExchangeTypes, PeerWhileServing, Apart, Waiting, Served, Unsent, HandledOnce
<1>2. CASE UNCHANGED vars
  BY <1>1, <1>2 DEF vars
<1>3. ASSUME NEW d \in Daemons, Cancel(d) PROVE ExchangeInv'
  BY <1>1, <1>3 DEF Cancel, clients
<1> QED BY <1>2, <1>3, BindStep, ServeStep, LetGoStep, ConnectStep, ClientStep DEF Next

(* What the system keeps stays within its type. *)
LEMMA EndpointStep == EndpointTypes /\ [Next]_vars => EndpointTypes'
<1> SUFFICES ASSUME EndpointTypes, [Next]_vars PROVE EndpointTypes'
  OBVIOUS
<1>1. ASSUME Fail PROVE failures' \in 0..MaxFailures
  BY <1>1, EndpointAssumption DEF Fail, EndpointTypes
<1>2. CASE UNCHANGED vars
  BY <1>2 DEF vars, EndpointTypes
<1>3. ASSUME NEW d \in Daemons, Bind(d) \/ BindFails(d) \/ DropOwnership(d)
      PROVE  EndpointTypes'
  BY <1>1, <1>3 DEF EndpointTypes, Bind, TryLock, RemoveStale, CreateListener, SetPermissions,
     BindFails, DropOwnership, endpoint
<1>4. ASSUME NEW d \in Daemons, DropListener(d) \/ Crash(d) PROVE EndpointTypes'
  BY <1>1, <1>4 DEF EndpointTypes, DropListener, Crash
<1>5. ASSUME NEW d \in Daemons, Serve(d) \/ AcceptFails(d) PROVE EndpointTypes'
  BY <1>1, <1>5 DEF EndpointTypes, Serve, Enter, AcceptConnection, Authorize, ReadPrefix,
     ReadPayload, Handle, WriteResponse, AcceptFails, endpoint
<1>6. ASSUME NEW d \in Daemons, Cancel(d) PROVE EndpointTypes'
  BY <1>1, <1>6 DEF EndpointTypes, Cancel, endpoint
<1>7. ASSUME NEW c \in Clients,
             Connect(c) \/ Leave(c) \/ ReadResponse(c)
               \/ \E frame \in Frame \ {"none"} : Send(c, frame)
      PROVE  EndpointTypes'
  BY <1>7 DEF EndpointTypes, Connect, Leave, ReadResponse, Send, endpoint
<1> QED BY <1>2, <1>3, <1>4, <1>5, <1>6, <1>7 DEF Next

(***************************************************************************)
(* The types of serve_exchange, and a daemon has a peer exactly while it   *)
(* serves one, for any number of daemons, clients and failures.            *)
(***************************************************************************)
THEOREM EndpointTyped == Spec => []TypeOK
<1>1. ExchangeInv /\ EndpointTypes => TypeOK
  <2> SUFFICES ASSUME ExchangeInv, EndpointTypes PROVE TypeOK
    OBVIOUS
  <2>1. \A d \in Daemons : peer[d] \in Clients \union {None} /\ queue[d] \in Seq(Clients)
    BY DEF ExchangeInv, ExchangeTypes
  <2>2. \A c \in Clients : conn[c].frame \in Frame /\ conn[c].nth \in 0..MaxExchanges
    BY DEF ExchangeInv, ExchangeTypes, ConnType
  <2> QED BY <2>1, <2>2 DEF TypeOK, ExchangeInv, ExchangeTypes, EndpointTypes, PeerWhileServing, Exchange
<1> QED BY <1>1, ExchangeInit, ExchangeStep, EndpointStep, PTL DEF Spec

(***************************************************************************)
(* A response that a client can read comes from exactly one run of the     *)
(* handler on a whole request, whatever daemons die, clients leave and     *)
(* frames break, because a connection is in one place at a time and the    *)
(* handler runs only between a whole frame and the response.               *)
(***************************************************************************)
THEOREM HandlerRunsOnce == Spec => []HandledOnce
<1>1. ExchangeInv => HandledOnce
  BY DEF ExchangeInv
<1> QED BY <1>1, ExchangeInit, ExchangeStep, PTL DEF Spec
=============================================================================
