--------------------------- MODULE HolesailServer ---------------------------
(***************************************************************************)
(* HolesailServer (server.cpp): the life of the server object, the map of  *)
(* its inbound connections and its refresh timer.                          *)
(*                                                                         *)
(* A connection is seen from outside: its stream and how far its pipe is.  *)
(* TcpPipe and ServerConn say what happens inside.  The map is keyed by    *)
(* the address of the stream.  hyperdht frees a stream when its close      *)
(* callback returns (server.cpp:420), so a later stream may have the same  *)
(* address: Streams is the small pool the addresses come from.             *)
(***************************************************************************)
EXTENDS Naturals, FiniteSets

CONSTANTS
    Conns,     \* the connections that may ever arrive
    Streams,   \* addresses of hyperdht_stream_t
    None,      \* a null pointer
    MaxGets    \* bound: mutable_gets in flight at once

ASSUME NoneAssumption == None \notin Conns \cup Streams
ASSUME GetsAssumption == MaxGets \in Nat \ {0}

VARIABLES
    object,     \* the HolesailServer: in memory or deleted
    srv,        \* srv_
    timer,      \* refresh_
    state,      \* state_
    published,  \* record_ is not empty
    gets,       \* GetCtx in flight
    misused,    \* history: a callback used the object after its deletion
    stream,     \* Conn::stream, by connection
    pipe,       \* the pipe of the Conn, by connection
    conns       \* conns_: stream address -> weak reference

connVars == <<stream, pipe, conns>>
vars     == <<object, srv, timer, state, published, gets, misused, connVars>>

\* "unused": not arrived yet; "idle": start()/connect() failed before there
\* was a handle, and nobody looked at its result; "live": bridging;
\* "flushing": the stream has closed, writes to the service are outstanding;
\* "closing": uv_close issued; "gone": on_destroy_ has fired.
PipeStates == {"unused", "idle", "live", "flushing", "closing", "gone"}

TypeOK ==
    /\ object \in {"alive", "deleted"}
    /\ srv \in BOOLEAN
    /\ timer \in BOOLEAN
    /\ state \in {"", "listening", "paused", "destroyed"}
    /\ published \in BOOLEAN
    /\ gets \in 0..MaxGets
    /\ misused \in BOOLEAN
    /\ stream \in [Conns -> Streams \cup {None}]
    /\ pipe \in [Conns -> PipeStates]
    /\ conns \in [Streams -> Conns \cup {None}]

Init ==
    /\ object = "alive"
    /\ srv = FALSE
    /\ timer = FALSE
    /\ state = ""
    /\ published = FALSE
    /\ gets = 0
    /\ misused = FALSE
    /\ stream = [c \in Conns |-> None]
    /\ pipe = [c \in Conns |-> "unused"]
    /\ conns = [s \in Streams |-> None]

\* A Conn lives until its stream has closed (reference A) and its pipe is
\* gone (reference B): this is when the weak reference of conns_ expires.
Expired(c) == stream[c] = None /\ pipe[c] = "gone"

-----------------------------------------------------------------------------
(* The object                                                              *)

\* publish(): a get is started, or could not be.
Publish == gets' \in {gets, gets + 1} /\ gets' <= MaxGets

\* start(), called once.  Creating the server may fail, and so may listening,
\* which leaves srv_ set without record or timer.
Start ==
    /\ object = "alive" /\ ~srv /\ state = "" /\ ~published
    /\ srv' = TRUE
    /\ \/ UNCHANGED <<timer, published, gets>>
       \/ timer' = TRUE /\ published' = TRUE /\ Publish
    /\ UNCHANGED <<object, state, misused, connVars>>

ListeningCb ==
    /\ srv /\ published
    /\ state' = "listening"
    /\ UNCHANGED <<object, srv, timer, published, gets, misused, connVars>>

\* pause() and resume() set the state whatever it was.
Pause ==
    /\ object = "alive" /\ srv
    /\ state' = "paused"
    /\ UNCHANGED <<object, srv, timer, published, gets, misused, connVars>>

Resume ==
    /\ object = "alive" /\ srv
    /\ state' = "listening"
    /\ UNCHANGED <<object, srv, timer, published, gets, misused, connVars>>

RefreshCb ==
    /\ timer /\ published
    /\ Publish
    /\ UNCHANGED <<object, srv, timer, state, published, misused, connVars>>

\* Mutant: the put is made whether or not the server is still there.
PutsRecordAlways == TRUE

\* The guard of get_done_cb: alive_ has not expired.
PutsRecord == object = "alive"

\* get_done_cb: frees the context, then puts the record through the server.
GetDone ==
    /\ gets > 0
    /\ gets' = gets - 1
    /\ misused' = (misused \/ (PutsRecord /\ object = "deleted"))
    /\ UNCHANGED <<object, srv, timer, state, published, connVars>>

-----------------------------------------------------------------------------
(* Connections                                                             *)

\* Mutant: entries whose stream has closed are pruned with the expired ones.
PrunedEarly ==
    [s \in Streams |-> IF conns[s] # None /\ pipe[conns[s]] \in {"closing", "gone"}
                       THEN None ELSE conns[s]]

\* connection_cb first drops the entries whose Conn is dead.
Pruned ==
    [s \in Streams |-> IF conns[s] # None /\ Expired(conns[s])
                       THEN None ELSE conns[s]]

\* The address of a stream that is open is not given out again.
FreeAddress(s) == \A c \in Conns : stream[c] # s

\* How UdpPipe::start() or TcpPipe::connect() may leave a pipe: running,
\* failed before it had a handle, or failed later and destroyed.
Started == {"live", "idle", "closing"}

\* connection_cb: open the stream, enter the Conn, start its pipe,
\* whose result is not looked at.
Accept(c) ==
    /\ srv /\ pipe[c] = "unused"
    /\ \E s \in Streams :
          /\ FreeAddress(s)
          /\ stream' = [stream EXCEPT ![c] = s]
          /\ conns' = [Pruned EXCEPT ![s] = c]
    /\ \E p \in Started : pipe' = [pipe EXCEPT ![c] = p]
    /\ UNCHANGED <<object, srv, timer, state, published, gets, misused>>

\* connection_cb when hyperdht_stream_open fails.
AcceptFails ==
    /\ srv
    /\ conns' = Pruned
    /\ UNCHANGED <<object, srv, timer, state, published, gets, misused, stream, pipe>>

\* Mutant: a pipe without a handle is passed over.
DestroyedWithHandle(p) == IF p \in {"live", "flushing"} THEN "closing" ELSE p

\* What TcpPipe::destroy() or UdpPipe::destroy() makes of a pipe: without a
\* handle on_destroy_ fires at once.
Destroyed(p) ==
    CASE p = "idle"                 -> "gone"
      [] p \in {"live", "flushing"} -> "closing"
      [] OTHER                      -> p

\* stream_close_cb: the pipe is destroyed, at once or, for TCP, after the
\* writes to the service have been reported.
StreamClose(c) ==
    /\ stream[c] # None
    /\ stream' = [stream EXCEPT ![c] = None]
    /\ \/ pipe' = [pipe EXCEPT ![c] = Destroyed(pipe[c])]
       \/ pipe[c] = "live" /\ pipe' = [pipe EXCEPT ![c] = "flushing"]
    /\ UNCHANGED <<object, srv, timer, state, published, gets, misused, conns>>

\* The pipe destroys itself: an error, or the last write after the close.
PipeEnds(c) ==
    /\ pipe[c] \in {"live", "flushing"}
    /\ pipe' = [pipe EXCEPT ![c] = "closing"]
    /\ UNCHANGED <<object, srv, timer, state, published, gets, misused, stream, conns>>

\* libuv has closed the handle: on_destroy_ drops reference B.
HandleClosed(c) ==
    /\ pipe[c] = "closing"
    /\ pipe' = [pipe EXCEPT ![c] = "gone"]
    /\ UNCHANGED <<object, srv, timer, state, published, gets, misused, stream, conns>>

-----------------------------------------------------------------------------
(* Teardown                                                                *)

Listed(c) == \E s \in Streams : conns[s] = c

\* Mutant: the map is cleared before it is walked.
DestroyPipesOfNobody == pipe' = pipe

\* The loop of destroy() over conns_.
DestroyPipes ==
    pipe' = [c \in Conns |-> IF Listed(c) THEN Destroyed(pipe[c]) ELSE pipe[c]]

\* destroy(): the timer, the pipes the map knows, the map, the DHT server.
Teardown ==
    /\ timer' = FALSE
    /\ DestroyPipes
    /\ conns' = [s \in Streams |-> None]
    /\ srv' = FALSE
    /\ state' = "destroyed"
    /\ UNCHANGED <<published, gets, misused, stream>>

Destroy ==
    /\ object = "alive" /\ state # "destroyed"
    /\ Teardown
    /\ object' = object

\* The destructor calls destroy() again; then alive_ expires.
Delete ==
    /\ object = "alive"
    /\ Teardown
    /\ object' = "deleted"

-----------------------------------------------------------------------------

Next ==
    \/ Start \/ ListeningCb \/ Pause \/ Resume \/ RefreshCb \/ GetDone
    \/ \E c \in Conns : Accept(c) \/ StreamClose(c) \/ PipeEnds(c) \/ HandleClosed(c)
    \/ AcceptFails \/ Destroy \/ Delete

\* libuv closes a closing handle, a queued write is reported, and hyperdht
\* closes a stream whose pipe has called close.
Fairness ==
    \A c \in Conns :
        /\ WF_vars(HandleClosed(c))
        /\ WF_vars(pipe[c] = "flushing" /\ PipeEnds(c))
        /\ WF_vars(pipe[c] \in {"closing", "gone"} /\ StreamClose(c))

Spec == Init /\ [][Next]_vars /\ Fairness
-----------------------------------------------------------------------------
(* Properties                                                              *)

Alive(c) == pipe[c] # "unused" /\ ~Expired(c)

\* While the server runs, every connection whose stream is open is in the map
\* under the address of that stream: accepting another one, which prunes the
\* map and may reuse an address, never loses it (server.cpp:340-357).
OpenConnsListed ==
    state # "destroyed" =>
        \A c \in Conns : stream[c] # None => conns[stream[c]] = c

\* After destroy() no pipe whose stream is open goes on bridging
\* (server.cpp:226-251): destroy() reaches all of them.
DestroyReachesAll ==
    state = "destroyed" =>
        \A c \in Conns : stream[c] # None => pipe[c] \in {"closing", "gone"}

\* No callback of the loop or of the DHT finds the server deleted: not the
\* refresh timer, not the server's own, not a get that was in flight when it
\* went (server.cpp:228-251, 457-468).
CallbacksHaveAServer ==
    object = "deleted" => ~timer /\ ~srv /\ ~misused

\* A destroyed server comes to rest: every Conn is freed, whatever state
\* destroy() found it in.
DestroyDrains ==
    state = "destroyed" ~> \A c \in Conns : ~Alive(c)
=============================================================================
