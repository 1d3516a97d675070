------------------------ MODULE HolesailClientProofs ------------------------
(***************************************************************************)
(* Proofs about HolesailClient for any number of connections and any set   *)
(* of local addresses: a connection leaves the map when nothing is owed to *)
(* it, the UDP proxy never points at one that has left, and a deleted      *)
(* client is never called.                                                 *)
(*                                                                         *)
(* A Conn is a TCP one or a UDP one for its whole life, and only the first *)
(* kind ever has a socket or a pipe (Wiring).  So the callbacks of a pipe  *)
(* cannot reap a Conn an address still points at, and what the destructor  *)
(* unhooks, the pipes of the Conns still in the map, is all there is.      *)
(***************************************************************************)
EXTENDS HolesailClient, TLAPS

\* Ids are given out in order; one that was not given out has nothing.
Fresh ==
    \A i \in Ids : i >= nextId =>
        /\ i \notin conns \cup dialing \cup sock \cup hooked
        /\ stream[i] = "none" /\ pipe[i] = "none" /\ addr[i] = None

\* A socket waits for a pipe, a pipe keeps its on_destroy_ until it is done,
\* and neither belongs to a Conn made for an address.
Wiring ==
    \A i \in Ids :
        /\ i \in hooked => pipe[i] \in {"live", "flushing", "closing"}
        /\ i \in sock => pipe[i] = "none" /\ addr[i] = None
        /\ pipe[i] # "none" => addr[i] = None

\* What a destroyed and a deleted client no longer have.
Ended ==
    /\ destroyed => proxy = "closed" /\ ~query
    /\ object = "deleted" => destroyed /\ conns = {} /\ hooked = {}
    /\ ~misused

ClientIInv ==
    TypeOK /\ Fresh /\ Wiring /\ Ended /\ ReapedOwesNothing /\ EntriesAreLive

USE ConnsAssumption, NoneAssumption DEF ConnsAssumption, NoneAssumption

-----------------------------------------------------------------------------
(* The helpers of the callbacks.                                           *)

\* TcpPipe::destroy() changes neither whether a Conn has a pipe nor whether
\* that pipe is done.
LEMMA PipesDestroyedFacts ==
    ASSUME TypeOK, NEW S
    PROVE  /\ PipesDestroyed(S) \in [Ids -> PipeStates]
           /\ \A i \in Ids :
                 /\ PipesDestroyed(S)[i] = "none" <=> pipe[i] = "none"
                 /\ PipesDestroyed(S)[i] = "done" <=> pipe[i] = "done"
BY DEF TypeOK, PipeStates, PipesDestroyed

\* reap() takes Conns of S out, those to which nothing is owed.
LEMMA ReapFacts ==
    ASSUME NEW S, Reap(S)
    PROVE  /\ conns' \subseteq conns
           /\ \A i \in conns \ conns' : i \in S /\ ~Owed(i)
BY DEF Reap

\* The proxy forgets an address whole, whichever Conn it points at.
LEMMA ForgetFacts ==
    ASSUME TypeOK, NEW S, Forget(S)
    PROVE  /\ clients' \in [Addrs -> Ids \cup {None}]
           /\ \A a \in Addrs : \/ clients'[a] = None
                               \/ clients'[a] = clients[a] /\ \A i \in S : addr[i] # a
BY DEF TypeOK, Forget

-----------------------------------------------------------------------------

LEMMA InitClientIInv == Init => ClientIInv
<1> SUFFICES ASSUME Init PROVE ClientIInv
  OBVIOUS
<1>1. TypeOK
  <2>1. nextId \in 1..(MaxConns + 1)
    <3>1. nextId = 1
      BY DEF Init
    <3>2. 1 \in 1..(MaxConns + 1)
      OBVIOUS
    <3> QED
      BY <3>1, <3>2
  <2>2. /\ object \in {"alive", "deleted"} /\ proxy \in {"none", "tcp", "udp", "closed"}
        /\ state \in {"", "waiting", "listening", "paused", "destroyed"}
        /\ destroyed \in BOOLEAN /\ query \in BOOLEAN /\ misused \in BOOLEAN
    BY DEF Init
  <2>3. /\ stream \in [Ids -> StreamStates] /\ pipe \in [Ids -> PipeStates]
        /\ addr \in [Ids -> Addrs \cup {None}] /\ clients \in [Addrs -> Ids \cup {None}]
    BY DEF Init, StreamStates, PipeStates
  <2>4. /\ conns \subseteq Ids /\ dialing \subseteq Ids /\ sock \subseteq Ids
        /\ ending \subseteq Ids /\ hooked \subseteq Ids
    BY DEF Init
  <2> QED
    BY <2>1, <2>2, <2>3, <2>4, Zenon DEF TypeOK
<1>2. Fresh /\ Wiring
  BY DEF Init, Fresh, Wiring
<1>3. Ended
  BY DEF Init, Ended
<1>4. ReapedOwesNothing /\ EntriesAreLive
  BY DEF Init, ReapedOwesNothing, EntriesAreLive, StreamLive
<1> QED
  BY <1>1, <1>2, <1>3, <1>4 DEF ClientIInv

-----------------------------------------------------------------------------
(* Types.                                                                  *)

LEMMA NextIdType ==
    ASSUME nextId \in Ids
    PROVE  nextId + 1 \in 1..(MaxConns + 1)
BY DEF Ids

LEMMA ShutdownTypes ==
    ASSUME TypeOK, NEW S \in SUBSET Ids, Shutdown(S)
    PROVE  /\ conns' \subseteq Ids /\ sock' \subseteq Ids /\ ending' \subseteq Ids
           /\ pipe' \in [Ids -> PipeStates] /\ clients' \in [Addrs -> Ids \cup {None}]
<1>1. Forget(S) /\ Reap(S) /\ sock' = sock \ S /\ pipe' = PipesDestroyed(S)
  BY DEF Shutdown, LetGo
<1>2. ending' \subseteq Ids
  BY DEF Shutdown, LetGo, TypeOK
<1>3. conns' \subseteq conns /\ clients' \in [Addrs -> Ids \cup {None}]
  BY <1>1, ReapFacts, ForgetFacts
<1>4. pipe' \in [Ids -> PipeStates]
  BY <1>1, PipesDestroyedFacts
<1> QED
  BY <1>1, <1>2, <1>3, <1>4 DEF TypeOK

LEMMA ClientTypePreserved ==
    ASSUME TypeOK, [Next]_vars
    PROVE  TypeOK'
<1>1. CASE Connect \/ QueryDone \/ Pause \/ Resume
  <2>1. UNCHANGED <<object, destroyed, misused, connVars>>
    BY <1>1 DEF Connect, QueryDone, Pause, Resume
  <2>2. proxy' \in {"none", "tcp", "udp", "closed"}
    BY <1>1 DEF Connect, QueryDone, Pause, Resume, StartProxy, TcpListen, UdpListen, TypeOK
  <2>3. state' \in {"", "waiting", "listening", "paused", "destroyed"}
    BY <1>1 DEF Connect, QueryDone, Pause, Resume, StartProxy, TypeOK
  <2>4. query' \in BOOLEAN
    BY <1>1 DEF Connect, QueryDone, Pause, Resume, TypeOK
  <2> QED
    BY <2>1, <2>2, <2>3, <2>4 DEF TypeOK, connVars
<1>2. CASE LocalConnection
  <2>1. UNCHANGED <<objectVars, misused, stream, ending, pipe, hooked, addr, clients>>
    BY <1>2 DEF LocalConnection, OnLocalConnection, Dial, DialRefused
  <2>2. nextId' = nextId + 1 /\ nextId \in Ids
    BY <1>2 DEF LocalConnection, OnLocalConnection, Dial, DialRefused
  <2>3. conns' \subseteq Ids /\ dialing' \subseteq Ids /\ sock' \subseteq Ids
    BY <1>2 DEF LocalConnection, OnLocalConnection, Dial, DialRefused, TypeOK
  <2>4. nextId' \in 1..(MaxConns + 1)
    BY <2>2, NextIdType
  <2> QED
    BY <2>1, <2>3, <2>4 DEF TypeOK, objectVars
<1>3. ASSUME NEW a \in Addrs, FirstDatagram(a) PROVE TypeOK'
  <2>1. UNCHANGED <<objectVars, misused, stream, ending, pipe, hooked, sock>>
    BY <1>3 DEF FirstDatagram, OpenUdpStream, Dial, DialRefused
  <2>2. nextId' = nextId + 1 /\ nextId \in Ids
    BY <1>3 DEF FirstDatagram, OpenUdpStream, Dial, DialRefused
  <2>3. /\ conns' \subseteq Ids /\ dialing' \subseteq Ids
        /\ addr' \in [Ids -> Addrs \cup {None}] /\ clients' \in [Addrs -> Ids \cup {None}]
    <3>1. CASE DialRefused
      BY <3>1 DEF DialRefused, TypeOK
    <3>2. ASSUME NEW i \in Ids, OpenUdpStream(i, a), clients' = [clients EXCEPT ![a] = i]
          PROVE  /\ conns' \subseteq Ids /\ dialing' \subseteq Ids
                 /\ addr' \in [Ids -> Addrs \cup {None}]
                 /\ clients' \in [Addrs -> Ids \cup {None}]
      BY <3>2 DEF OpenUdpStream, Dial, TypeOK
    <3> QED
      BY <1>3, <3>1, <3>2 DEF FirstDatagram
  <2>4. nextId' \in 1..(MaxConns + 1)
    BY <2>2, NextIdType
  <2> QED
    BY <2>1, <2>3, <2>4 DEF TypeOK, objectVars
<1>4. ASSUME NEW a \in Addrs, DatagramRefused(a) PROVE TypeOK'
  <2>1. clients' \in [Addrs -> Ids \cup {None}] /\ ending' \subseteq Ids
    BY <1>4 DEF DatagramRefused, TypeOK
  <2> QED
    BY <1>4, <2>1 DEF DatagramRefused, TypeOK, objectVars
<1>5. ASSUME NEW i \in Ids, ConnectCb(i) PROVE TypeOK'
  <2>1. UNCHANGED <<objectVars, nextId, hooked, addr, misused>>
    BY <1>5 DEF ConnectCb
  <2>2. dialing' \subseteq Ids /\ stream' \in [Ids -> StreamStates]
    BY <1>5 DEF ConnectCb, TypeOK, StreamStates
  <2>3. /\ conns' \subseteq Ids /\ sock' \subseteq Ids /\ ending' \subseteq Ids
        /\ pipe' \in [Ids -> PipeStates] /\ clients' \in [Addrs -> Ids \cup {None}]
    <3>1. CASE Shutdown({i})
      BY <3>1, ShutdownTypes, Zenon
    <3>2. CASE UNCHANGED <<conns, sock, ending, pipe, clients>>
      BY <3>2 DEF TypeOK
    <3> QED
      BY <1>5, <3>1, <3>2 DEF ConnectCb
  <2> QED
    BY <2>1, <2>2, <2>3 DEF TypeOK, objectVars
<1>6. ASSUME NEW i \in Ids, StreamOpenCb(i) PROVE TypeOK'
  <2>1. UNCHANGED <<objectVars, nextId, addr, misused, dialing>>
    BY <1>6 DEF StreamOpenCb, OnStreamOpen
  <2>2. hooked' \subseteq Ids /\ stream' \in [Ids -> StreamStates]
    BY <1>6 DEF StreamOpenCb, OnStreamOpen, TypeOK, StreamStates
  <2>3. /\ conns' \subseteq Ids /\ sock' \subseteq Ids /\ ending' \subseteq Ids
        /\ pipe' \in [Ids -> PipeStates] /\ clients' \in [Addrs -> Ids \cup {None}]
    <3>1. CASE /\ pipe' = [pipe EXCEPT ![i] = IF i \in sock THEN "live" ELSE @]
               /\ sock' = sock \ {i} /\ UNCHANGED <<conns, ending, clients>>
      BY <3>1 DEF TypeOK, PipeStates
    <3>2. CASE Shutdown({i})
      BY <3>2, ShutdownTypes, Zenon
    <3> QED
      BY <1>6, <3>1, <3>2 DEF StreamOpenCb, OnStreamOpen
  <2> QED
    BY <2>1, <2>2, <2>3 DEF TypeOK, objectVars
<1>7. ASSUME NEW i \in Ids, StreamDataCb(i) PROVE TypeOK'
  <2>1. clients' \in [Addrs -> Ids \cup {None}] /\ ending' \subseteq Ids
    BY <1>7 DEF StreamDataCb, OversizedFrame, TypeOK
  <2> QED
    BY <1>7, <2>1 DEF StreamDataCb, OversizedFrame, TypeOK, objectVars
<1>8. ASSUME NEW i \in Ids, StreamCloseCb(i) PROVE TypeOK'
  <2>1. UNCHANGED <<objectVars, nextId, ending, hooked, addr, misused, dialing>>
    BY <1>8 DEF StreamCloseCb
  <2>2. stream' \in [Ids -> StreamStates]
    BY <1>8 DEF StreamCloseCb, TypeOK, StreamStates
  <2>3. /\ conns' \subseteq Ids /\ sock' \subseteq Ids
        /\ pipe' \in [Ids -> PipeStates] /\ clients' \in [Addrs -> Ids \cup {None}]
    <3>1. CASE StreamClosed(i)
      <4>1. pipe' \in [Ids -> PipeStates]
        <5>1. PipesDestroyed({i}) \in [Ids -> PipeStates]
          BY PipesDestroyedFacts
        <5>2. [pipe EXCEPT ![i] = "flushing"] \in [Ids -> PipeStates]
          BY DEF TypeOK, PipeStates
        <5> QED
          BY <3>1, <5>1, <5>2 DEF StreamClosed
      <4> QED
        BY <3>1, <4>1, ReapFacts, ForgetFacts DEF StreamClosed, TypeOK
    <3>2. CASE UNCHANGED <<conns, sock, pipe, clients>>
      BY <3>2 DEF TypeOK
    <3> QED
      BY <1>8, <3>1, <3>2 DEF StreamCloseCb
  <2> QED
    BY <2>1, <2>2, <2>3 DEF TypeOK, objectVars
<1>9. ASSUME NEW i \in Ids, LocalEof(i) \/ PipeEnds(i) PROVE TypeOK'
  <2>1. ending' \subseteq Ids /\ pipe' \in [Ids -> PipeStates]
    BY <1>9 DEF LocalEof, PipeEnds, TypeOK, PipeStates
  <2> QED
    BY <1>9, <2>1 DEF LocalEof, PipeEnds, TypeOK, objectVars
<1>10. ASSUME NEW i \in Ids, HandleClosed(i) PROVE TypeOK'
  <2>1. conns' \subseteq Ids /\ hooked' \subseteq Ids /\ pipe' \in [Ids -> PipeStates]
    BY <1>10, ReapFacts DEF HandleClosed, TypeOK, PipeStates
  <2>2. misused' \in BOOLEAN
    BY <1>10 DEF HandleClosed
  <2> QED
    BY <1>10, <2>1, <2>2 DEF HandleClosed, TypeOK, objectVars
<1>11. CASE Destroy
  <2>1. /\ conns' \subseteq Ids /\ sock' \subseteq Ids /\ ending' \subseteq Ids
        /\ pipe' \in [Ids -> PipeStates]
    BY <1>11, PipesDestroyedFacts, ReapFacts DEF Destroy, Teardown, LetGo, TypeOK
  <2>2. clients' \in [Addrs -> Ids \cup {None}]
    BY <1>11 DEF Destroy, Teardown, CloseProxies
  <2> QED
    BY <1>11, <2>1, <2>2 DEF Destroy, Teardown, CloseProxies, TypeOK
<1>12. CASE Delete
  BY <1>12 DEF Delete, HookedAfterDelete, TypeOK
<1>13. CASE UNCHANGED vars
  BY <1>13 DEF vars, objectVars, connVars, TypeOK
<1> QED
  BY <1>1, <1>2, <1>3, <1>4, <1>5, <1>6, <1>7, <1>8, <1>9, <1>10, <1>11, <1>12, <1>13
  DEF Next

-----------------------------------------------------------------------------
(* Fresh and Wiring: most steps only take away.                            *)

\* A step that makes no Conn and gives none a pipe.
OnlyTakesAway ==
    /\ nextId' = nextId /\ addr' = addr
    /\ conns' \subseteq conns /\ dialing' \subseteq dialing
    /\ sock' \subseteq sock /\ hooked' \subseteq hooked
    /\ \A i \in Ids : /\ i >= nextId => stream'[i] = stream[i]
                      /\ pipe'[i] = "none" <=> pipe[i] = "none"
                      /\ pipe'[i] = "done" => pipe[i] = "done" \/ i \notin hooked'

LEMMA TakingAwayKeepsShape ==
    ASSUME TypeOK, TypeOK', Fresh, Wiring, OnlyTakesAway
    PROVE  Fresh' /\ Wiring'
<1>1. Fresh'
  BY DEF Fresh, OnlyTakesAway
<1>2. ASSUME NEW i \in Ids
      PROVE  /\ i \in hooked' => pipe'[i] \in {"live", "flushing", "closing"}
             /\ i \in sock' => pipe'[i] = "none" /\ addr'[i] = None
             /\ pipe'[i] # "none" => addr'[i] = None
  <2>1. pipe'[i] \in PipeStates
    BY DEF TypeOK
  <2> QED
    BY <2>1 DEF Wiring, OnlyTakesAway, PipeStates
<1> QED
  BY <1>1, <1>2 DEF Wiring

\* A Conn that is in the map, dialing, with a stream or with a pipe was made.
LEMMA MadeBefore ==
    ASSUME TypeOK, Fresh, NEW i \in Ids,
           i \in conns \cup dialing \/ StreamLive(i) \/ pipe[i] # "none"
    PROVE  ~(i >= nextId)
BY DEF Fresh, StreamLive

LEMMA ShapePreserved ==
    ASSUME ClientIInv, TypeOK', [Next]_vars
    PROVE  Fresh' /\ Wiring'
<1>0. TypeOK /\ Fresh /\ Wiring
  BY DEF ClientIInv
<1>n. nextId \in Nat
  <2>1. nextId \in 1..(MaxConns + 1)
    BY <1>0 DEF TypeOK
  <2> QED
    BY <2>1
<1>p. \A i \in Ids : pipe[i] \in PipeStates
  BY <1>0 DEF TypeOK
<1>s. ASSUME NEW S, Shutdown(S) \/ LetGo(S)
      PROVE  /\ conns' \subseteq conns /\ sock' \subseteq sock
             /\ \A i \in Ids : /\ pipe'[i] = "none" <=> pipe[i] = "none"
                               /\ pipe'[i] = "done" <=> pipe[i] = "done"
  <2>1. LetGo(S)
    BY <1>s DEF Shutdown
  <2>2. Reap(S) /\ sock' = sock \ S /\ pipe' = PipesDestroyed(S)
    BY <2>1 DEF LetGo
  <2> QED
    BY <1>0, <2>2, ReapFacts, PipesDestroyedFacts
<1>1. CASE \/ Connect \/ QueryDone \/ Pause \/ Resume
           \/ \E a \in Addrs : DatagramRefused(a)
           \/ \E i \in Ids : StreamDataCb(i) \/ LocalEof(i)
           \/ UNCHANGED vars
  <2>1. UNCHANGED <<nextId, conns, dialing, sock, stream, pipe, hooked, addr>>
    BY <1>1 DEF Connect, QueryDone, Pause, Resume, DatagramRefused, StreamDataCb,
                OversizedFrame, LocalEof, vars, connVars
  <2>2. OnlyTakesAway
    BY <2>1 DEF OnlyTakesAway
  <2> QED
    BY <1>0, <2>2, TakingAwayKeepsShape
<1>2. CASE DialRefused
  <2>1. UNCHANGED <<conns, dialing, sock, stream, pipe, hooked, addr>> /\ nextId' = nextId + 1
    BY <1>2 DEF DialRefused
  <2> QED
    BY <1>0, <1>n, <2>1 DEF Fresh, Wiring, Ids
<1>3. ASSUME NEW i \in Ids, OnLocalConnection(i) PROVE Fresh' /\ Wiring'
  <2>1. /\ i = nextId /\ nextId' = nextId + 1 /\ UNCHANGED <<stream, pipe, hooked, addr>>
        /\ conns' = conns \cup {i} /\ dialing' = dialing \cup {i} /\ sock' = sock \cup {i}
    BY <1>3 DEF OnLocalConnection, Dial
  <2>2. pipe[i] = "none" /\ addr[i] = None
    BY <1>0, <1>n, <2>1 DEF Fresh
  <2>3. Fresh'
    BY <1>0, <1>n, <2>1 DEF Fresh, Ids
  <2>4. Wiring'
    BY <1>0, <2>1, <2>2 DEF Wiring
  <2> QED
    BY <2>3, <2>4
<1>4. ASSUME NEW i \in Ids, NEW a \in Addrs, OpenUdpStream(i, a) PROVE Fresh' /\ Wiring'
  <2>1. /\ i = nextId /\ nextId' = nextId + 1 /\ UNCHANGED <<stream, pipe, hooked, sock>>
        /\ conns' = conns \cup {i} /\ dialing' = dialing \cup {i}
        /\ addr' = [addr EXCEPT ![i] = a]
    BY <1>4 DEF OpenUdpStream, Dial
  <2>2. pipe[i] = "none" /\ i \notin sock
    BY <1>0, <1>n, <2>1 DEF Fresh
  <2>3. \A k \in Ids : k # i => addr'[k] = addr[k]
    BY <1>0, <2>1 DEF TypeOK
  <2>4. Fresh'
    BY <1>0, <1>n, <2>1, <2>3 DEF Fresh, Ids
  <2>5. Wiring'
    BY <1>0, <2>1, <2>2, <2>3 DEF Wiring
  <2> QED
    BY <2>4, <2>5
<1>5. ASSUME NEW i \in Ids, ConnectCb(i) PROVE Fresh' /\ Wiring'
  <2>1. /\ i \in dialing /\ dialing' \subseteq dialing /\ UNCHANGED <<nextId, hooked, addr>>
        /\ stream' = stream \/ stream' = [stream EXCEPT ![i] = "opening"]
        /\ Shutdown({i}) \/ UNCHANGED <<conns, sock, pipe>>
    BY <1>5 DEF ConnectCb
  <2>2. \A k \in Ids : k >= nextId => stream'[k] = stream[k]
    BY <1>0, <2>1, MadeBefore DEF TypeOK
  <2>3. /\ conns' \subseteq conns /\ sock' \subseteq sock
        /\ \A k \in Ids : /\ pipe'[k] = "none" <=> pipe[k] = "none"
                          /\ pipe'[k] = "done" <=> pipe[k] = "done"
    BY <1>s, <2>1
  <2>4. OnlyTakesAway
    BY <2>1, <2>2, <2>3 DEF OnlyTakesAway
  <2> QED
    BY <1>0, <2>4, TakingAwayKeepsShape
<1>6. ASSUME NEW i \in Ids, StreamOpenCb(i) PROVE Fresh' /\ Wiring'
  <2>1. /\ i \in conns /\ stream' = [stream EXCEPT ![i] = "open"]
        /\ UNCHANGED <<nextId, dialing, addr>>
    BY <1>6 DEF StreamOpenCb, OnStreamOpen
  <2>2. ~(i >= nextId)
    BY <1>0, <2>1, MadeBefore
  <2>3. \A k \in Ids : k >= nextId => stream'[k] = stream[k]
    BY <1>0, <2>1, <2>2 DEF TypeOK
  <2>4. CASE Shutdown({i}) /\ hooked' = hooked
    <3>1. OnlyTakesAway
      BY <1>s, <2>1, <2>3, <2>4 DEF OnlyTakesAway
    <3> QED
      BY <1>0, <3>1, TakingAwayKeepsShape
  <2>5. CASE /\ pipe' = [pipe EXCEPT ![i] = IF i \in sock THEN "live" ELSE @]
             /\ hooked' = hooked \cup ({i} \cap sock)
             /\ sock' = sock \ {i} /\ UNCHANGED conns
    <3>1. \A k \in Ids : k # i => pipe'[k] = pipe[k]
      BY <1>0, <2>5 DEF TypeOK
    <3>2. pipe'[i] = (IF i \in sock THEN "live" ELSE pipe[i])
      BY <1>0, <2>5 DEF TypeOK
    <3>3. Fresh'
      BY <1>0, <2>1, <2>2, <2>3, <2>5, <3>1 DEF Fresh
    <3>4. Wiring'
      BY <1>0, <2>1, <2>5, <3>1, <3>2 DEF Wiring
    <3> QED
      BY <3>3, <3>4
  <2> QED
    BY <1>6, <2>4, <2>5 DEF StreamOpenCb, OnStreamOpen
<1>7. ASSUME NEW i \in Ids, StreamCloseCb(i) PROVE Fresh' /\ Wiring'
  <2>1. /\ StreamLive(i) /\ stream' = [stream EXCEPT ![i] = "closed"]
        /\ UNCHANGED <<nextId, dialing, hooked, addr>>
    BY <1>7 DEF StreamCloseCb
  <2>2. \A k \in Ids : k >= nextId => stream'[k] = stream[k]
    BY <1>0, <2>1, MadeBefore DEF TypeOK
  <2>3. CASE UNCHANGED <<conns, sock, pipe>>
    <3>1. OnlyTakesAway
      BY <2>1, <2>2, <2>3 DEF OnlyTakesAway
    <3> QED
      BY <1>0, <3>1, TakingAwayKeepsShape
  <2>4. CASE StreamClosed(i)
    <3>1. conns' \subseteq conns /\ sock' \subseteq sock
      BY <2>4, ReapFacts DEF StreamClosed
    <3>2. \A k \in Ids : /\ pipe'[k] = "none" <=> pipe[k] = "none"
                         /\ pipe'[k] = "done" <=> pipe[k] = "done"
      <4>1. CASE pipe' = PipesDestroyed({i})
        BY <1>0, <4>1, PipesDestroyedFacts
      <4>2. CASE pipe[i] = "live" /\ pipe' = [pipe EXCEPT ![i] = "flushing"]
        BY <1>0, <4>2 DEF TypeOK
      <4> QED
        BY <2>4, <4>1, <4>2 DEF StreamClosed
    <3>3. OnlyTakesAway
      BY <2>1, <2>2, <3>1, <3>2 DEF OnlyTakesAway
    <3> QED
      BY <1>0, <3>3, TakingAwayKeepsShape
  <2> QED
    BY <1>7, <2>3, <2>4 DEF StreamCloseCb
<1>8. ASSUME NEW i \in Ids, PipeEnds(i) PROVE Fresh' /\ Wiring'
  <2>1. /\ pipe[i] \in {"live", "flushing"} /\ pipe' = [pipe EXCEPT ![i] = "closing"]
        /\ UNCHANGED <<nextId, conns, dialing, sock, stream, hooked, addr>>
    BY <1>8 DEF PipeEnds
  <2>2. OnlyTakesAway
    BY <1>0, <2>1 DEF OnlyTakesAway, TypeOK
  <2> QED
    BY <1>0, <2>2, TakingAwayKeepsShape
<1>9. ASSUME NEW i \in Ids, HandleClosed(i) PROVE Fresh' /\ Wiring'
  <2>1. /\ pipe[i] = "closing" /\ pipe' = [pipe EXCEPT ![i] = "done"]
        /\ hooked' = hooked \ {i} /\ Reap({i})
        /\ UNCHANGED <<nextId, dialing, sock, stream, addr>>
    BY <1>9 DEF HandleClosed
  <2>2. OnlyTakesAway
    BY <1>0, <2>1, ReapFacts DEF OnlyTakesAway, TypeOK
  <2> QED
    BY <1>0, <2>2, TakingAwayKeepsShape
<1>10. CASE Destroy
  <2>1. LetGo(conns) /\ UNCHANGED <<nextId, dialing, stream, hooked, addr>>
    BY <1>10 DEF Destroy, Teardown
  <2>2. OnlyTakesAway
    BY <1>s, <2>1 DEF OnlyTakesAway
  <2> QED
    BY <1>0, <2>2, TakingAwayKeepsShape
<1>11. CASE Delete
  <2>1. /\ conns' = {} /\ hooked' = hooked \ conns
        /\ UNCHANGED <<nextId, dialing, sock, stream, pipe, addr>>
    BY <1>11 DEF Delete, HookedAfterDelete
  <2>2. OnlyTakesAway
    BY <2>1 DEF OnlyTakesAway
  <2> QED
    BY <1>0, <2>2, TakingAwayKeepsShape
<1>12. CASE LocalConnection \/ \E a \in Addrs : FirstDatagram(a)
  BY <1>2, <1>3, <1>4, <1>12 DEF LocalConnection, FirstDatagram
<1> QED
  BY <1>1, <1>5, <1>6, <1>7, <1>8, <1>9, <1>10, <1>11, <1>12 DEF Next

-----------------------------------------------------------------------------
(* Ended: nothing comes back after destroy(), nothing at all after delete.  *)

\* A step that leaves the client object alone.
LEMMA ObjectFrame ==
    ASSUME Ended, UNCHANGED <<objectVars, misused>>,
           conns = {} => conns' = {},
           hooked' \subseteq hooked \/ conns # {}
    PROVE  Ended'
<1>1. UNCHANGED <<object, destroyed, query, proxy, misused>>
  BY DEF objectVars
<1>2. object = "deleted" => conns' = {} /\ hooked' = {}
  BY DEF Ended
<1> QED
  BY <1>1, <1>2 DEF Ended

\* While the client is there, a pipe that has its on_destroy_ is in the map.
LEMMA HookedAreListed ==
    ASSUME ClientIInv, object = "alive"
    PROVE  hooked \subseteq conns
BY DEF ClientIInv, TypeOK, Wiring, ReapedOwesNothing

LEMMA EndedPreserved ==
    ASSUME ClientIInv, [Next]_vars
    PROVE  Ended'
<1>0. TypeOK /\ Ended
  BY DEF ClientIInv
<1>1. CASE Connect \/ Pause \/ Resume \/ QueryDone
  <2>1. UNCHANGED <<object, destroyed, misused>>
    BY <1>1 DEF Connect, Pause, Resume, QueryDone
  <2>2. ~destroyed
    <3>1. CASE Connect \/ Pause \/ Resume
      BY <3>1 DEF Connect, Pause, Resume
    <3>2. CASE QueryDone
      BY <1>0, <3>2 DEF QueryDone, Ended
    <3> QED
      BY <1>1, <3>1, <3>2
  <2>3. object # "deleted"
    BY <1>0, <2>2 DEF Ended
  <2> QED
    BY <1>0, <2>1, <2>2, <2>3 DEF Ended
<1>2. CASE LocalConnection \/ \E a \in Addrs : FirstDatagram(a)
  <2>1. /\ proxy \in {"tcp", "udp"} /\ UNCHANGED <<object, destroyed, query, proxy>>
        /\ misused' = misused
    BY <1>2 DEF LocalConnection, FirstDatagram, objectVars
  <2>2. ~destroyed
    BY <1>0, <2>1 DEF Ended
  <2>3. object # "deleted"
    BY <1>0, <2>2 DEF Ended
  <2> QED
    BY <1>0, <2>1, <2>2, <2>3 DEF Ended
<1>3. ASSUME NEW a \in Addrs, DatagramRefused(a) PROVE Ended'
  <2>1. UNCHANGED <<objectVars, misused, conns, hooked>>
    BY <1>3 DEF DatagramRefused
  <2> QED
    BY <1>0, <2>1, ObjectFrame
<1>4. ASSUME NEW i \in Ids, ConnectCb(i) PROVE Ended'
  <2>1. UNCHANGED <<objectVars, misused, hooked>>
    BY <1>4 DEF ConnectCb
  <2>2. conns' \subseteq conns
    BY <1>4, ReapFacts DEF ConnectCb, Shutdown, LetGo
  <2> QED
    BY <1>0, <2>1, <2>2, ObjectFrame
<1>5. ASSUME NEW i \in Ids, StreamOpenCb(i) PROVE Ended'
  <2>1. UNCHANGED <<objectVars, misused>> /\ i \in conns
    BY <1>5 DEF StreamOpenCb, OnStreamOpen
  <2> QED
    BY <1>0, <2>1, ObjectFrame
<1>6. ASSUME NEW i \in Ids, StreamDataCb(i) \/ LocalEof(i) \/ PipeEnds(i) PROVE Ended'
  <2>1. UNCHANGED <<objectVars, misused, conns, hooked>>
    BY <1>6 DEF StreamDataCb, OversizedFrame, LocalEof, PipeEnds
  <2> QED
    BY <1>0, <2>1, ObjectFrame
<1>7. ASSUME NEW i \in Ids, StreamCloseCb(i) PROVE Ended'
  <2>1. UNCHANGED <<objectVars, misused, hooked>>
    BY <1>7 DEF StreamCloseCb
  <2>2. conns' \subseteq conns
    BY <1>7, ReapFacts DEF StreamCloseCb, StreamClosed
  <2> QED
    BY <1>0, <2>1, <2>2, ObjectFrame
<1>8. ASSUME NEW i \in Ids, HandleClosed(i) PROVE Ended'
  <2>1. /\ UNCHANGED objectVars /\ Reap({i}) /\ hooked' \subseteq hooked
        /\ misused' = (misused \/ (i \in hooked /\ object = "deleted"))
    BY <1>8 DEF HandleClosed
  <2>2. ~(i \in hooked /\ object = "deleted") /\ ~misused
    BY <1>0 DEF Ended
  <2>3. ~misused'
    BY <2>1, <2>2
  <2>4. conns' \subseteq conns /\ UNCHANGED <<object, destroyed, query, proxy>>
    BY <2>1, ReapFacts DEF objectVars
  <2> QED
    BY <1>0, <2>1, <2>3, <2>4 DEF Ended
<1>9. CASE Destroy
  <2>1. destroyed' /\ ~query' /\ proxy' = "closed" /\ misused' = misused /\ object' = "alive"
    BY <1>9 DEF Destroy, Teardown, CloseProxies
  <2> QED
    BY <1>0, <2>1 DEF Ended
<1>10. CASE Delete
  <2>1. /\ object = "alive" /\ destroyed /\ conns' = {} /\ hooked' = hooked \ conns
        /\ UNCHANGED <<destroyed, query, proxy, misused>>
    BY <1>10 DEF Delete, HookedAfterDelete
  <2>2. hooked' = {}
    BY <2>1, HookedAreListed
  <2> QED
    BY <1>0, <2>1, <2>2 DEF Ended
<1>11. CASE UNCHANGED vars
  <2>1. UNCHANGED <<objectVars, misused, conns, hooked>>
    BY <1>11 DEF vars, connVars
  <2> QED
    BY <1>0, <2>1, ObjectFrame
<1> QED
  BY <1>1, <1>2, <1>3, <1>4, <1>5, <1>6, <1>7, <1>8, <1>9, <1>10, <1>11 DEF Next

-----------------------------------------------------------------------------
(* The map: who leaves it is owed nothing and is pointed at by nobody.      *)

\* A Conn that is out of the map, or leaves it in this step, with nothing owed.
LEMMA MapFrame ==
    ASSUME ReapedOwesNothing, object' = object,
           \A i \in Ids \ conns :
               \/ i \in conns'
               \/ /\ i \in dialing' => i \in dialing
                  /\ i \in sock' => i \in sock
                  /\ StreamLive(i)' => StreamLive(i)
                  /\ pipe'[i] = pipe[i] \/ pipe'[i] \in {"none", "done"},
           \A i \in conns \ conns' :
               /\ i \notin dialing' \cup sock'
               /\ ~StreamLive(i)'
               /\ pipe'[i] \in {"none", "done"}
    PROVE  ReapedOwesNothing'
BY DEF ReapedOwesNothing

\* Whoever leaves the map was forgotten by the proxy, or never had an address.
LEMMA EntriesFrame ==
    ASSUME TypeOK, EntriesAreLive, object' = object, addr' = addr,
           \A a \in Addrs : clients'[a] \in {None, clients[a]},
           \A i \in conns \ conns' : \A a \in Addrs : addr[i] = a => clients'[a] = None
    PROVE  EntriesAreLive'
<1> SUFFICES ASSUME object = "alive", NEW a \in Addrs, clients'[a] # None
             PROVE  clients'[a] \in conns' /\ addr'[clients'[a]] = a
  BY DEF EntriesAreLive
<1>1. clients'[a] = clients[a]
  OBVIOUS
<1>2. clients[a] \in conns /\ addr[clients[a]] = a
  BY <1>1 DEF EntriesAreLive
<1> QED
  BY <1>1, <1>2

\* reap() at the end of a callback.
LEMMA ReapDoes ==
    ASSUME NEW S, Reap(S), NEW i \in conns, i \notin conns', pipe'[i] \in PipeStates
    PROVE  /\ i \in S /\ i \notin dialing' /\ ~StreamLive(i)'
           /\ pipe'[i] \in {"none", "done"}
BY DEF Reap, Owed, StreamLive, PipeStates

\* shutdown_conn() leaves a Conn in the map only for what is owed to it.
LEMMA ShutdownKeepsMap ==
    ASSUME ClientIInv, TypeOK', NEW S, LetGo(S), object' = object,
           dialing' \subseteq dialing, \A i \in Ids \ conns : StreamLive(i)' => StreamLive(i)
    PROVE  ReapedOwesNothing'
<1>0. TypeOK /\ ReapedOwesNothing
  BY DEF ClientIInv
<1>1. Reap(S) /\ sock' = sock \ S /\ pipe' = PipesDestroyed(S)
  BY DEF LetGo
<1>2. ASSUME NEW i \in conns \ conns'
      PROVE  i \notin dialing' \cup sock' /\ ~StreamLive(i)' /\ pipe'[i] \in {"none", "done"}
  <2>1. pipe'[i] \in PipeStates
    BY <1>0 DEF TypeOK
  <2> QED
    BY <1>1, <2>1, ReapDoes
<1>3. ASSUME NEW i \in Ids \ conns
      PROVE  \/ pipe'[i] = pipe[i]
             \/ pipe'[i] \in {"none", "done"} \/ object # "alive"
  BY <1>0, <1>1 DEF ReapedOwesNothing, PipesDestroyed
<1> QED
  <2>1. CASE object = "alive"
    BY <1>0, <1>1, <1>2, <1>3, <2>1, MapFrame
  <2>2. CASE object # "alive"
    BY <2>2 DEF ReapedOwesNothing
  <2> QED
    BY <2>1, <2>2

\* ... and the proxy no longer points at it.
LEMMA ShutdownKeepsEntries ==
    ASSUME ClientIInv, NEW S, Forget(S), Reap(S), object' = object, addr' = addr
    PROVE  EntriesAreLive'
<1>0. TypeOK /\ EntriesAreLive
  BY DEF ClientIInv
<1>1. \A a \in Addrs : \/ clients'[a] = None
                       \/ clients'[a] = clients[a] /\ \A i \in S : addr[i] # a
  BY <1>0, ForgetFacts
<1>2. \A i \in conns \ conns' : i \in S
  BY ReapFacts
<1> QED
  BY <1>0, <1>1, <1>2, EntriesFrame

LEMMA MapPreserved ==
    ASSUME ClientIInv, TypeOK', [Next]_vars
    PROVE  ReapedOwesNothing' /\ EntriesAreLive'
<1>0. TypeOK /\ Fresh /\ Wiring /\ Ended /\ ReapedOwesNothing /\ EntriesAreLive
  BY DEF ClientIInv
<1>n. nextId \in Nat
  <2>1. nextId \in 1..(MaxConns + 1)
    BY <1>0 DEF TypeOK
  <2> QED
    BY <2>1
<1>1. CASE \/ Connect \/ QueryDone \/ Pause \/ Resume
           \/ \E i \in Ids : LocalEof(i)
           \/ UNCHANGED vars
  <2>1. UNCHANGED <<object, conns, dialing, sock, stream, pipe, addr, clients>>
    BY <1>1 DEF Connect, QueryDone, Pause, Resume, LocalEof, vars, connVars, objectVars
  <2> QED
    BY <1>0, <2>1 DEF ReapedOwesNothing, EntriesAreLive, StreamLive
<1>2. CASE \/ \E a \in Addrs : DatagramRefused(a)
           \/ \E i \in Ids : StreamDataCb(i)
  <2>1. UNCHANGED <<object, conns, dialing, sock, stream, pipe, addr>>
    BY <1>2 DEF DatagramRefused, StreamDataCb, OversizedFrame, objectVars
  <2>2. \A a \in Addrs : clients'[a] \in {None, clients[a]}
    BY <1>0, <1>2 DEF DatagramRefused, StreamDataCb, OversizedFrame, TypeOK
  <2>3. EntriesAreLive'
    BY <1>0, <2>1, <2>2, EntriesFrame
  <2>4. ReapedOwesNothing'
    BY <1>0, <2>1 DEF ReapedOwesNothing, StreamLive
  <2> QED
    BY <2>3, <2>4
<1>3. CASE DialRefused /\ object' = object
  <2>1. UNCHANGED <<object, conns, dialing, sock, stream, pipe, addr, clients>>
    BY <1>3 DEF DialRefused
  <2> QED
    BY <1>0, <2>1 DEF ReapedOwesNothing, EntriesAreLive, StreamLive
<1>4. ASSUME NEW i \in Ids, OnLocalConnection(i), object' = object
      PROVE  ReapedOwesNothing' /\ EntriesAreLive'
  <2>1. /\ UNCHANGED <<stream, pipe, addr, clients>> /\ conns' = conns \cup {i}
        /\ dialing' = dialing \cup {i} /\ sock' = sock \cup {i}
    BY <1>4 DEF OnLocalConnection, Dial
  <2>2. ReapedOwesNothing'
    BY <1>0, <1>4, <2>1 DEF ReapedOwesNothing, StreamLive
  <2>3. EntriesAreLive'
    BY <1>0, <1>4, <2>1, EntriesFrame
  <2> QED
    BY <2>2, <2>3
<1>5. ASSUME NEW i \in Ids, NEW a \in Addrs, OpenUdpStream(i, a), object' = object,
             clients' = [clients EXCEPT ![a] = i]
      PROVE  ReapedOwesNothing' /\ EntriesAreLive'
  <2>1. /\ i = nextId /\ UNCHANGED <<stream, pipe, sock>> /\ conns' = conns \cup {i}
        /\ dialing' = dialing \cup {i} /\ addr' = [addr EXCEPT ![i] = a]
    BY <1>5 DEF OpenUdpStream, Dial
  <2>2. i \notin conns
    BY <1>0, <1>n, <2>1 DEF Fresh
  <2>3. ReapedOwesNothing'
    BY <1>0, <1>5, <2>1 DEF ReapedOwesNothing, StreamLive
  <2>4. ASSUME object = "alive", NEW b \in Addrs, clients'[b] # None
        PROVE  clients'[b] \in conns' /\ addr'[clients'[b]] = b
    <3>1. CASE b = a
      BY <1>0, <1>5, <2>1, <3>1 DEF TypeOK
    <3>2. CASE b # a
      <4>1. clients'[b] = clients[b]
        BY <1>0, <1>5, <3>2 DEF TypeOK
      <4>2. clients[b] \in conns /\ addr[clients[b]] = b
        BY <1>0, <2>4, <4>1 DEF EntriesAreLive
      <4>3. clients[b] \in Ids /\ clients[b] # i
        BY <1>0, <2>2, <4>2 DEF TypeOK
      <4> QED
        BY <1>0, <2>1, <4>1, <4>2, <4>3 DEF TypeOK
    <3> QED
      BY <3>1, <3>2
  <2> QED
    BY <1>5, <2>3, <2>4 DEF EntriesAreLive
<1>6. ASSUME NEW i \in Ids, ConnectCb(i) PROVE ReapedOwesNothing' /\ EntriesAreLive'
  <2>1. object' = object /\ dialing' \subseteq dialing /\ addr' = addr
    BY <1>6 DEF ConnectCb, objectVars
  <2>2. CASE i \in conns /\ stream' = stream /\ Shutdown({i})
    <3>1. \A k \in Ids \ conns : StreamLive(k)' => StreamLive(k)
      BY <2>2 DEF StreamLive
    <3>2. Forget({i}) /\ LetGo({i}) /\ Reap({i})
      BY <2>2 DEF Shutdown, LetGo
    <3> QED
      BY <2>1, <3>1, <3>2, ShutdownKeepsMap, ShutdownKeepsEntries
  <2>3. CASE /\ i \in conns /\ stream' = [stream EXCEPT ![i] = "opening"]
             /\ UNCHANGED <<conns, sock, pipe, clients>>
    <3>1. \A k \in Ids \ conns : stream'[k] = stream[k]
      BY <1>0, <2>3 DEF TypeOK
    <3> QED
      BY <1>0, <2>1, <2>3, <3>1 DEF ReapedOwesNothing, EntriesAreLive, StreamLive
  <2>4. CASE i \notin conns /\ UNCHANGED <<conns, sock, stream, pipe, clients>>
    BY <1>0, <2>1, <2>4 DEF ReapedOwesNothing, EntriesAreLive, StreamLive
  <2> QED
    BY <1>6, <2>2, <2>3, <2>4 DEF ConnectCb
<1>7. ASSUME NEW i \in Ids, StreamOpenCb(i) PROVE ReapedOwesNothing' /\ EntriesAreLive'
  <2>1. /\ i \in conns /\ object' = object /\ UNCHANGED <<dialing, addr>>
        /\ stream' = [stream EXCEPT ![i] = "open"]
    BY <1>7 DEF StreamOpenCb, OnStreamOpen, objectVars
  <2>2. \A k \in Ids \ conns : stream'[k] = stream[k]
    BY <1>0, <2>1 DEF TypeOK
  <2>3. CASE Shutdown({i})
    <3>1. \A k \in Ids \ conns : StreamLive(k)' => StreamLive(k)
      BY <2>2 DEF StreamLive
    <3>2. Forget({i}) /\ LetGo({i}) /\ Reap({i})
      BY <2>3 DEF Shutdown, LetGo
    <3> QED
      BY <2>1, <3>1, <3>2, ShutdownKeepsMap, ShutdownKeepsEntries
  <2>4. CASE /\ pipe' = [pipe EXCEPT ![i] = IF i \in sock THEN "live" ELSE @]
             /\ sock' = sock \ {i} /\ UNCHANGED <<conns, clients>>
    <3>1. \A k \in Ids \ conns : pipe'[k] = pipe[k]
      BY <1>0, <2>1, <2>4 DEF TypeOK
    <3> QED
      BY <1>0, <2>1, <2>2, <2>4, <3>1 DEF ReapedOwesNothing, EntriesAreLive, StreamLive
  <2> QED
    BY <1>7, <2>3, <2>4 DEF StreamOpenCb, OnStreamOpen
<1>8. ASSUME NEW i \in Ids, StreamCloseCb(i) PROVE ReapedOwesNothing' /\ EntriesAreLive'
  <2>1. /\ object' = object /\ UNCHANGED <<dialing, addr>>
        /\ stream' = [stream EXCEPT ![i] = "closed"]
    BY <1>8 DEF StreamCloseCb, objectVars
  <2>2. \A k \in Ids : StreamLive(k)' => StreamLive(k)
    BY <1>0, <2>1 DEF TypeOK, StreamLive
  <2>3. CASE i \in conns /\ StreamClosed(i)
    <3>1. Forget({i}) /\ Reap({i}) /\ sock' = sock \ {i}
      BY <2>3 DEF StreamClosed
    <3>2. EntriesAreLive'
      BY <2>1, <3>1, ShutdownKeepsEntries
    <3>3. \A k \in Ids \ conns : pipe'[k] = pipe[k]
      BY <1>0, <2>3 DEF StreamClosed, PipesDestroyed, TypeOK
    <3>4. ASSUME NEW k \in conns \ conns'
          PROVE  k \notin dialing' \cup sock' /\ ~StreamLive(k)' /\ pipe'[k] \in {"none", "done"}
      <4>1. pipe'[k] \in PipeStates
        BY <1>0 DEF TypeOK
      <4> QED
        BY <3>1, <4>1, ReapDoes
    <3>5. ReapedOwesNothing'
      BY <1>0, <2>1, <2>2, <3>1, <3>3, <3>4, MapFrame
    <3> QED
      BY <3>2, <3>5
  <2>4. CASE UNCHANGED <<conns, sock, pipe, clients>>
    BY <1>0, <2>1, <2>2, <2>4 DEF ReapedOwesNothing, EntriesAreLive
  <2> QED
    BY <1>8, <2>3, <2>4 DEF StreamCloseCb
<1>9. ASSUME NEW i \in Ids, PipeEnds(i) PROVE ReapedOwesNothing' /\ EntriesAreLive'
  <2>1. /\ UNCHANGED <<object, conns, dialing, sock, stream, addr, clients>>
        /\ pipe[i] \in {"live", "flushing"} /\ pipe' = [pipe EXCEPT ![i] = "closing"]
    BY <1>9 DEF PipeEnds, objectVars
  <2>2. ASSUME object = "alive", NEW k \in Ids \ conns PROVE pipe'[k] = pipe[k]
    BY <1>0, <2>1, <2>2 DEF ReapedOwesNothing, TypeOK
  <2> QED
    BY <1>0, <2>1, <2>2 DEF ReapedOwesNothing, EntriesAreLive, StreamLive
<1>10. ASSUME NEW i \in Ids, HandleClosed(i) PROVE ReapedOwesNothing' /\ EntriesAreLive'
  <2>1. /\ UNCHANGED <<object, dialing, sock, stream, addr, clients>> /\ Reap({i})
        /\ pipe[i] = "closing" /\ pipe' = [pipe EXCEPT ![i] = "done"]
    BY <1>10 DEF HandleClosed, objectVars
  <2>2. i \notin sock /\ addr[i] = None
    BY <1>0, <2>1 DEF Wiring
  <2>3. ASSUME NEW k \in conns \ conns'
        PROVE  k = i /\ k \notin dialing' /\ ~StreamLive(k)' /\ pipe'[k] \in {"none", "done"}
    <3>1. pipe'[k] \in PipeStates
      BY <1>0 DEF TypeOK
    <3> QED
      BY <2>1, <3>1, ReapDoes
  <2>4. \A k \in Ids \ conns : pipe'[k] = pipe[k] \/ pipe'[k] \in {"none", "done"}
    BY <1>0, <2>1 DEF TypeOK
  <2>5. ReapedOwesNothing'
    <3>1. \A k \in Ids : StreamLive(k)' => StreamLive(k)
      BY <2>1 DEF StreamLive
    <3> QED
      BY <1>0, <2>1, <2>2, <2>3, <2>4, <3>1, MapFrame
  <2>6. EntriesAreLive'
    BY <1>0, <2>1, <2>2, <2>3, EntriesFrame
  <2> QED
    BY <2>5, <2>6
<1>11. CASE Destroy
  <2>1. /\ LetGo(conns) /\ UNCHANGED <<object, dialing, stream, addr>>
        /\ clients' = [a \in Addrs |-> None]
    BY <1>11 DEF Destroy, Teardown, CloseProxies
  <2>2. ReapedOwesNothing'
    BY <2>1, ShutdownKeepsMap DEF StreamLive
  <2>3. EntriesAreLive'
    BY <2>1 DEF EntriesAreLive
  <2> QED
    BY <2>2, <2>3
<1>12. CASE Delete
  BY <1>12 DEF Delete, ReapedOwesNothing, EntriesAreLive
<1>13. CASE LocalConnection \/ \E a \in Addrs : FirstDatagram(a)
  BY <1>3, <1>4, <1>5, <1>13 DEF LocalConnection, FirstDatagram, objectVars
<1> QED
  BY <1>1, <1>2, <1>6, <1>7, <1>8, <1>9, <1>10, <1>11, <1>12, <1>13 DEF Next

-----------------------------------------------------------------------------
(* The theorems.                                                           *)

LEMMA ClientInductive == ClientIInv /\ [Next]_vars => ClientIInv'
<1> SUFFICES ASSUME ClientIInv, [Next]_vars PROVE ClientIInv'
  OBVIOUS
<1>1. TypeOK'
  BY ClientTypePreserved DEF ClientIInv
<1> QED
  BY <1>1, ShapePreserved, EndedPreserved, MapPreserved DEF ClientIInv

LEMMA ClientInvariance == Spec => []ClientIInv
BY InitClientIInv, ClientInductive, PTL DEF Spec

\* Every member of the client and every connection keeps its type.
THEOREM ClientTypeCorrect == Spec => []TypeOK
<1>1. ClientIInv => TypeOK
  BY DEF ClientIInv
<1> QED
  BY <1>1, ClientInvariance, PTL

\* Whatever the order in which dial, stream and pipe come to their ends, a
\* Conn is reaped after the last of them, and its socket before (reap()).
THEOREM ReapIsNeverEarly == Spec => []ReapedOwesNothing
<1>1. ClientIInv => ReapedOwesNothing
  BY DEF ClientIInv
<1> QED
  BY <1>1, ClientInvariance, PTL

\* An entry of the UDP proxy leads to a Conn of the map made for that address,
\* however many others the address had before (UdpProxy::clients_).
THEOREM EntriesLeadToConns == Spec => []EntriesAreLive
<1>1. ClientIInv => EntriesAreLive
  BY DEF ClientIInv
<1> QED
  BY <1>1, ClientInvariance, PTL

\* The destructor unhooks every pipe that is still closing: none calls a
\* deleted client.
THEOREM DeletedClientIsNotCalled == Spec => []OrphansAreSilent
<1>1. ClientIInv => OrphansAreSilent
  BY DEF ClientIInv, Ended, OrphansAreSilent
<1> QED
  BY <1>1, ClientInvariance, PTL

=============================================================================
