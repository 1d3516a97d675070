--------------------------- MODULE HolesailClient ---------------------------
(***************************************************************************)
(* HolesailClient (client.cpp) with the proxy that feeds it: TcpProxy      *)
(* (pipe.cpp), one connection for each accepted socket, or UdpProxy        *)
(* (udp_pipe.cpp), one for each source address it hears from.              *)
(*                                                                         *)
(* A Conn is seen from outside: which callbacks are still owed to it and   *)
(* which of its resources are open.  TcpPipe says what its pipe does with  *)
(* the bytes.  UdpProxy::clients_ maps an address to the StreamSide of a   *)
(* Conn, here to its id; all the proxy knows of a stream event is the      *)
(* address of the Conn it came from.                                       *)
(***************************************************************************)
EXTENDS Naturals, FiniteSets

CONSTANTS
    MaxConns,  \* bound: connections ever made
    Addrs,     \* source addresses of local datagrams
    None       \* no entry, no address

ASSUME ConnsAssumption == MaxConns \in Nat \ {0}
ASSUME NoneAssumption == None \notin Addrs \cup Nat

VARIABLES
    \* the client object
    object,     \* the HolesailClient: in memory or deleted
    destroyed,  \* destroyed_
    query,      \* query_
    proxy,      \* the proxy that start_proxy() chose
    state,      \* state_
    nextId,     \* next_id_
    conns,      \* keys of conns_
    \* its connections, by id
    dialing,    \* those with connect_pending
    sock,       \* those that hold an accepted socket
    stream,     \* the encrypted stream
    ending,     \* those whose stream was told to close
    pipe,       \* the pipe
    hooked,     \* those whose pipe still has its on_destroy_
    addr,       \* client_id, None for a TCP connection
    \* UdpProxy
    clients,    \* clients_: address -> id of the Conn whose side it holds
    \* history
    misused     \* a callback used the client after its deletion

objectVars == <<object, destroyed, query, proxy, state>>
connVars   == <<nextId, conns, dialing, sock, stream, ending, pipe, hooked, addr,
                clients>>
vars       == <<objectVars, connVars, misused>>

Ids == 1..MaxConns

StreamStates == {"none", "opening", "open", "closed"}

\* "live": bridging; "flushing": the stream has closed, writes to the local
\* socket are outstanding; "closing": uv_close issued; "done": pipe_done.
PipeStates == {"none", "live", "flushing", "closing", "done"}

TypeOK ==
    /\ object \in {"alive", "deleted"}
    /\ destroyed \in BOOLEAN
    /\ query \in BOOLEAN
    /\ proxy \in {"none", "tcp", "udp", "closed"}
    /\ state \in {"", "waiting", "listening", "paused", "destroyed"}
    /\ nextId \in 1..(MaxConns + 1)
    /\ conns \subseteq Ids
    /\ dialing \subseteq Ids
    /\ sock \subseteq Ids
    /\ stream \in [Ids -> StreamStates]
    /\ ending \subseteq Ids
    /\ pipe \in [Ids -> PipeStates]
    /\ hooked \subseteq Ids
    /\ addr \in [Ids -> Addrs \cup {None}]
    /\ clients \in [Addrs -> Ids \cup {None}]
    /\ misused \in BOOLEAN

Init ==
    /\ object = "alive"
    /\ destroyed = FALSE
    /\ query = FALSE
    /\ proxy = "none"
    /\ state = ""
    /\ nextId = 1
    /\ conns = {}
    /\ dialing = {}
    /\ sock = {}
    /\ stream = [i \in Ids |-> "none"]
    /\ ending = {}
    /\ pipe = [i \in Ids |-> "none"]
    /\ hooked = {}
    /\ addr = [i \in Ids |-> None]
    /\ clients = [a \in Addrs |-> None]
    /\ misused = FALSE

StreamLive(i) == stream[i] \in {"opening", "open"}

-----------------------------------------------------------------------------
(* Looking up the record and starting the proxy                            *)

\* listen() of the proxies.  What fails on the way closes the proxy again.
TcpListen == proxy' = "tcp"
UdpListen == proxy' = "udp"

\* start_proxy(): the record and the options decide which proxy.  Listening
\* may fail, which leaves the state as connect() or pause() set it.
StartProxy(before) ==
    \/ (TcpListen \/ UdpListen) /\ state' = "listening"
    \/ proxy' = proxy /\ state' = before

\* connect(), called once: start the query, or go on without a record.
Connect ==
    /\ object = "alive" /\ ~destroyed /\ state = ""
    /\ \/ query' = TRUE /\ state' = "waiting" /\ proxy' = proxy
       \/ query' = FALSE /\ StartProxy("waiting")
    /\ UNCHANGED <<object, destroyed, connVars, misused>>

\* mutable_done_cb.  destroy() cancels the query, so that it finds the client
\* destroyed only from inside that call.
QueryDone ==
    /\ query
    /\ query' = FALSE
    /\ StartProxy(state)
    /\ UNCHANGED <<object, destroyed, connVars, misused>>

\* pause() and resume() set the state whatever it was, once connect() ran.
Pause ==
    /\ object = "alive" /\ ~destroyed /\ state # ""
    /\ state' = "paused"
    /\ UNCHANGED <<object, destroyed, query, proxy, connVars, misused>>

Resume ==
    /\ object = "alive" /\ ~destroyed /\ state # ""
    /\ state' = "listening"
    /\ UNCHANGED <<object, destroyed, query, proxy, connVars, misused>>

-----------------------------------------------------------------------------
(* reap() and shutdown_conn()                                              *)

\* Mutant: the pipe is not waited for.
OwedNoPipe(i) == i \in dialing' \/ stream'[i] \in {"opening", "open"}

\* What keeps a Conn in the map: a connect callback, a stream, a pipe.
Owed(i) ==
    \/ i \in dialing'
    \/ stream'[i] \in {"opening", "open"}
    \/ pipe'[i] \notin {"none", "done"}

\* reap() of the ids in S, at the end of a callback.
Reap(S) == conns' = {i \in conns : i \in S => Owed(i)}

\* UdpProxy::on_stream_close() for the connections in S: entries go by
\* address, whichever Conn they hold.
Forget(S) ==
    clients' = [a \in Addrs |-> IF \E i \in S : addr[i] = a THEN None ELSE clients[a]]

\* The pipes of S after TcpPipe::destroy().
PipesDestroyed(S) ==
    [i \in Ids |-> IF i \in S /\ pipe[i] \in {"live", "flushing"} THEN "closing"
                                                                 ELSE pipe[i]]

\* Mutant: a stream that has no pipe is left open.
LetGoPipesOnly(S) ==
    /\ sock' = sock \ S
    /\ pipe' = PipesDestroyed(S)
    /\ ending' = ending \cup {i \in S : StreamLive(i) /\ pipe[i] # "none"}
    /\ Reap(S)

\* shutdown_conn() of the connections in S but for the proxy: close the socket
\* nobody adopted, destroy the pipe or else close the stream, reap.
LetGo(S) ==
    /\ sock' = sock \ S
    /\ pipe' = PipesDestroyed(S)
    /\ ending' = ending \cup {i \in S : StreamLive(i)}
    /\ Reap(S)

Shutdown(S) == Forget(S) /\ LetGo(S)

-----------------------------------------------------------------------------
(* New connections                                                         *)

\* begin_dht_connect() for a new Conn.
Dial(i) ==
    /\ i = nextId /\ i \in Ids
    /\ nextId' = i + 1
    /\ conns' = conns \cup {i}
    /\ dialing' = dialing \cup {i}
    /\ UNCHANGED <<stream, ending, pipe, hooked>>

\* A dial that cannot start: the Conn is shut down on the spot and leaves
\* nothing behind but its id.
DialRefused ==
    /\ nextId \in Ids
    /\ nextId' = nextId + 1
    /\ UNCHANGED <<conns, dialing, sock, stream, ending, pipe, hooked, addr, clients>>

\* on_local_connection(): the Conn holds the socket until there is a pipe.
OnLocalConnection(i) ==
    /\ Dial(i)
    /\ sock' = sock \cup {i}
    /\ UNCHANGED <<addr, clients>>

\* TcpProxy::connection_cb, with a socket that was accepted.
LocalConnection ==
    /\ proxy = "tcp"
    /\ (\E i \in Ids : OnLocalConnection(i)) \/ DialRefused
    /\ UNCHANGED <<objectVars, misused>>

OpenUdpStream(i, a) ==
    /\ Dial(i)
    /\ addr' = [addr EXCEPT ![i] = a]
    /\ sock' = sock

\* UdpProxy::recv_cb from an address without an entry.  The first datagram
\* goes to the pending buffer.
FirstDatagram(a) ==
    /\ proxy = "udp" /\ clients[a] = None
    /\ \/ \E i \in Ids :
             /\ OpenUdpStream(i, a)
             /\ clients' = [clients EXCEPT ![a] = i]
       \/ DialRefused
    /\ UNCHANGED <<objectVars, misused>>

\* recv_cb from a known address whose stream refuses the write: the entry is
\* erased and the stream closed.  A datagram that is accepted, buffered or
\* dropped changes nothing here.
DatagramRefused(a) ==
    /\ proxy = "udp" /\ clients[a] # None /\ stream[clients[a]] \in {"open", "closed"}
    /\ clients' = [clients EXCEPT ![a] = None]
    /\ ending' = ending \cup {i \in {clients[a]} : StreamLive(i)}
    /\ UNCHANGED <<objectVars, nextId, conns, dialing, sock, stream, pipe, hooked, addr,
                   misused>>

-----------------------------------------------------------------------------
(* Callbacks of hyperdht.  Each carries a weak reference to its Conn, which  *)
(* locks exactly while the Conn is in conns_.                                *)

\* connect_cb: the stream is opened at once, or the Conn is shut down.
ConnectCb(i) ==
    /\ i \in dialing
    /\ dialing' = dialing \ {i}
    /\ \/ /\ i \in conns /\ ~destroyed
          /\ stream' = [stream EXCEPT ![i] = "opening"]
          /\ UNCHANGED <<conns, sock, ending, pipe, clients>>
       \/ /\ i \in conns
          /\ stream' = stream
          /\ Shutdown({i})
       \/ /\ i \notin conns
          /\ UNCHANGED <<conns, sock, stream, ending, pipe, clients>>
    /\ UNCHANGED <<objectVars, nextId, hooked, addr, misused>>

\* on_stream_open(): flush what was buffered; a TCP connection gets its pipe,
\* which adopts the socket.
OnStreamOpen(i) ==
    /\ stream' = [stream EXCEPT ![i] = "open"]
    /\ dialing' = dialing
    /\ \/ /\ pipe' = [pipe EXCEPT ![i] = IF i \in sock THEN "live" ELSE @]
          /\ hooked' = hooked \cup ({i} \cap sock)
          /\ sock' = sock \ {i}
          /\ UNCHANGED <<conns, ending, clients>>
       \/ /\ addr[i] # None          \* only datagrams are buffered
          /\ Shutdown({i})
          /\ hooked' = hooked
    /\ UNCHANGED <<objectVars, nextId, addr, misused>>

StreamOpenCb(i) == stream[i] = "opening" /\ i \in conns /\ OnStreamOpen(i)

\* UdpProxy::on_stream_data() with a frame that is too long.  The decoder is
\* looked up by address: the stream that is closed is that of the entry.
OversizedFrame(i) ==
    /\ proxy = "udp"
    /\ clients[addr[i]] # None
    /\ clients' = [clients EXCEPT ![addr[i]] = None]
    /\ ending' = ending \cup {k \in {clients[addr[i]]} : StreamLive(k)}
    /\ UNCHANGED <<objectVars, nextId, conns, dialing, sock, stream, pipe, hooked, addr,
                   misused>>

\* stream_data_cb.  Data for a pipe changes nothing here.
StreamDataCb(i) ==
    /\ stream[i] = "open" /\ i \in conns /\ addr[i] # None
    /\ OversizedFrame(i)

\* Mutant: the entry of the proxy stays.
StreamClosedKeepsEntry(i) ==
    /\ sock' = sock \ {i}
    /\ clients' = clients
    /\ \/ pipe' = PipesDestroyed({i})
       \/ pipe[i] = "live" /\ pipe' = [pipe EXCEPT ![i] = "flushing"]
    /\ Reap({i})

\* stream_close_cb of a Conn that is still there: the proxy forgets the
\* address, or the pipe flushes and destroys itself, or the socket that never
\* got a pipe is closed.
StreamClosed(i) ==
    /\ sock' = sock \ {i}
    /\ Forget({i})
    /\ \/ pipe' = PipesDestroyed({i})
       \/ pipe[i] = "live" /\ pipe' = [pipe EXCEPT ![i] = "flushing"]
    /\ Reap({i})

StreamCloseCb(i) ==
    /\ StreamLive(i)
    /\ stream' = [stream EXCEPT ![i] = "closed"]
    /\ dialing' = dialing
    /\ IF i \in conns THEN StreamClosed(i) ELSE UNCHANGED <<conns, sock, pipe, clients>>
    /\ UNCHANGED <<objectVars, nextId, ending, hooked, addr, misused>>

-----------------------------------------------------------------------------
(* The pipe                                                                  *)

\* The local socket ends: the pipe half-closes the stream and goes on.
LocalEof(i) ==
    /\ pipe[i] = "live"
    /\ ending' = ending \cup {i}
    /\ UNCHANGED <<objectVars, nextId, conns, dialing, sock, stream, pipe, hooked, addr,
                   clients, misused>>

\* The pipe destroys itself: an error, or the last write after the close.
PipeEnds(i) ==
    /\ pipe[i] \in {"live", "flushing"}
    /\ pipe' = [pipe EXCEPT ![i] = "closing"]
    /\ ending' = ending \cup {k \in {i} : StreamLive(k)}
    /\ UNCHANGED <<objectVars, nextId, conns, dialing, sock, stream, hooked, addr, clients,
                   misused>>

\* Mutant: pipe_done is set, and that is all.
HandleClosedNoReap(i) ==
    /\ pipe[i] = "closing"
    /\ pipe' = [pipe EXCEPT ![i] = "done"]
    /\ hooked' = hooked \ {i}
    /\ UNCHANGED <<objectVars, nextId, conns, dialing, sock, stream, ending, addr,
                   clients, misused>>

\* closed_cb -> on_destroy_: pipe_done, then reap.
HandleClosed(i) ==
    /\ pipe[i] = "closing"
    /\ pipe' = [pipe EXCEPT ![i] = "done"]
    /\ hooked' = hooked \ {i}
    /\ misused' = (misused \/ (i \in hooked /\ object = "deleted"))
    /\ UNCHANGED <<dialing, stream>>
    /\ Reap({i})
    /\ UNCHANGED <<objectVars, nextId, sock, ending, addr, clients>>

-----------------------------------------------------------------------------
(* Teardown                                                                  *)

\* close() of both proxies: the UDP one clears its map.
CloseProxies ==
    /\ proxy' = "closed"
    /\ clients' = [a \in Addrs |-> None]

\* destroy(): cancel the query, close the proxies, shut every Conn down.
Teardown ==
    /\ destroyed' = TRUE
    /\ query' = FALSE
    /\ CloseProxies
    /\ state' = "destroyed"
    /\ UNCHANGED <<dialing, stream>>
    /\ LetGo(conns)

Destroy ==
    /\ object = "alive" /\ ~destroyed
    /\ Teardown
    /\ UNCHANGED <<object, nextId, hooked, addr, misused>>

\* Mutant: the pipes that are still closing keep their on_destroy_.
StillHookedAfterDelete == hooked

\* The destructor orphans those pipes: it takes their on_destroy_ away.
HookedAfterDelete == hooked \ conns

Delete ==
    /\ object = "alive" /\ destroyed
    /\ object' = "deleted"
    /\ hooked' = HookedAfterDelete
    /\ conns' = {}
    /\ UNCHANGED <<destroyed, query, proxy, state, nextId, dialing, sock, stream, ending,
                   pipe, addr, clients, misused>>

-----------------------------------------------------------------------------

Next ==
    \/ Connect \/ QueryDone \/ Pause \/ Resume
    \/ LocalConnection
    \/ \E a \in Addrs : FirstDatagram(a) \/ DatagramRefused(a)
    \/ \E i \in Ids : \/ ConnectCb(i) \/ StreamOpenCb(i) \/ StreamDataCb(i)
                     \/ StreamCloseCb(i)
                     \/ LocalEof(i) \/ PipeEnds(i) \/ HandleClosed(i)
    \/ Destroy \/ Delete

\* hyperdht answers a dial and closes a stream that was told to close; libuv
\* reports a queued write and closes a closing handle.
Fairness ==
    \A i \in Ids :
        /\ WF_vars(ConnectCb(i))
        /\ WF_vars(i \in ending /\ StreamCloseCb(i))
        /\ WF_vars(pipe[i] = "flushing" /\ PipeEnds(i))
        /\ WF_vars(HandleClosed(i))

Spec == Init /\ [][Next]_vars /\ Fairness

-----------------------------------------------------------------------------
(* Properties                                                                *)

\* A Conn that has left the map is finished: no connect callback, stream or
\* pipe will call back for it, and its socket is not lost with it
\* (client.cpp:14-19, 447-456).  Until the client itself is deleted.
ReapedOwesNothing ==
    object = "alive" =>
        \A i \in Ids \ conns :
            /\ i \notin dialing \cup sock
            /\ ~StreamLive(i)
            /\ pipe[i] \in {"none", "done"}

\* The proxy never holds the side of a Conn that is gone or that belongs to
\* another address: a datagram is not written to a dead stream
\* (udp_pipe.cpp:321-349, client.cpp:326).
EntriesAreLive ==
    object = "alive" =>
        \A a \in Addrs : clients[a] # None =>
            clients[a] \in conns /\ addr[clients[a]] = a

\* A pipe that is still closing when the client is deleted never calls into
\* it (client.cpp:83-97).
OrphansAreSilent == ~misused

\* A connection that came to its end, in whatever order its stream and its
\* pipe finish, is reaped: the map does not grow with dead connections.
EndedIsReaped ==
    \A i \in Ids :
        (i \notin dialing /\ stream[i] \in {"none", "closed"}) ~> i \notin conns

\* destroy() lets go of everything: sockets at once, connections in the end.
DestroyDrains == destroyed ~> conns = {} /\ sock = {}

\* udp_pipe.hpp:70-71: "one encrypted stream per source address".  The close
\* of a stream that the proxy had already dropped erases the entry of the
\* stream that replaced it; the next datagram then opens another beside it.
OneStreamPerAddress ==
    \A a \in Addrs :
        Cardinality({i \in conns : addr[i] = a /\ StreamLive(i) /\ i \notin ending}) <= 1
=============================================================================
