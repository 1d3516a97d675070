------------------------ MODULE HolesailServerProofs ------------------------
(***************************************************************************)
(* Proofs about HolesailServer for any set of connections, any pool of     *)
(* stream addresses and any number of gets in flight: the map never loses  *)
(* an open connection, destroy() reaches every one of them, and no         *)
(* callback finds the server deleted.                                      *)
(*                                                                         *)
(* destroy() walks the map, so that it reaches every open connection is a  *)
(* consequence of the map's being complete until then; and the map stays   *)
(* complete because an address is free only while no connection holds it.  *)
(***************************************************************************)
EXTENDS HolesailServer, TLAPS

\* What a destroyed and a deleted server no longer have.
Teardowns ==
    /\ state = "destroyed" => ~srv /\ ~timer
    /\ object = "deleted" => state = "destroyed"
    /\ ~misused

\* A connection has a stream only from the time it has a pipe.
StreamsHavePipes == \A c \in Conns : stream[c] # None => pipe[c] # "unused"

ServerIInv ==
    TypeOK /\ Teardowns /\ StreamsHavePipes /\ OpenConnsListed /\ DestroyReachesAll

USE NoneAssumption, GetsAssumption DEF NoneAssumption, GetsAssumption

-----------------------------------------------------------------------------
(* The helpers.                                                            *)

\* What destroy() makes of a pipe is a state a pipe can be in, and a pipe that
\* was in use no longer bridges.
LEMMA DestroyedPipe ==
    ASSUME NEW p \in PipeStates
    PROVE  /\ Destroyed(p) \in PipeStates
           /\ p # "unused" => Destroyed(p) \in {"closing", "gone"}
BY DEF PipeStates, Destroyed

\* Pruning drops no entry of an open stream.
LEMMA PrunedKeepsOpen ==
    ASSUME TypeOK,
           NEW c \in Conns, stream[c] # None, conns[stream[c]] = c
    PROVE  Pruned[stream[c]] = c
<1>1. stream[c] \in Streams
  BY DEF TypeOK
<1>2. ~Expired(c)
  BY DEF Expired
<1> QED
  BY <1>1, <1>2 DEF Pruned

LEMMA PrunedType == TypeOK => Pruned \in [Streams -> Conns \cup {None}]
BY DEF TypeOK, Pruned

-----------------------------------------------------------------------------

LEMMA InitServerIInv == Init => ServerIInv
<1> SUFFICES ASSUME Init PROVE ServerIInv
  OBVIOUS
<1>1. \A c \in Conns : stream[c] = None
  BY DEF Init
<1>2. TypeOK
  <2>1. gets \in 0..MaxGets
    <3>1. gets = 0
      BY DEF Init
    <3> QED
      BY <3>1
  <2>2. /\ stream \in [Conns -> Streams \cup {None}]
        /\ pipe \in [Conns -> PipeStates]
        /\ conns \in [Streams -> Conns \cup {None}]
    BY DEF Init, PipeStates
  <2>3. /\ object \in {"alive", "deleted"} /\ srv \in BOOLEAN /\ timer \in BOOLEAN
        /\ state \in {"", "listening", "paused", "destroyed"}
        /\ published \in BOOLEAN /\ misused \in BOOLEAN
    BY DEF Init
  <2> QED
    BY <2>1, <2>2, <2>3, Zenon DEF TypeOK
<1>3. Teardowns /\ StreamsHavePipes /\ OpenConnsListed /\ DestroyReachesAll
  BY <1>1, Zenon
  DEF Init, Teardowns, StreamsHavePipes, OpenConnsListed, DestroyReachesAll
<1> QED
  BY <1>2, <1>3 DEF ServerIInv

\* The bound on the gets in flight is kept by the two steps that count them.
LEMMA GetsStayBounded ==
    ASSUME gets \in 0..MaxGets, Publish \/ (gets > 0 /\ gets' = gets - 1)
    PROVE  gets' \in 0..MaxGets
<1>1. CASE Publish
  <2>1. CASE gets' = gets
    BY <2>1
  <2>2. CASE gets' = gets + 1
    <3>1. gets + 1 <= MaxGets
      BY <1>1, <2>2 DEF Publish
    <3>2. gets + 1 \in 0..MaxGets
      BY <3>1
    <3> QED
      BY <2>2, <3>2
  <2> QED
    BY <1>1, <2>1, <2>2 DEF Publish
<1>2. CASE gets > 0 /\ gets' = gets - 1
  <2>1. gets - 1 \in 0..MaxGets
    BY <1>2
  <2> QED
    BY <1>2, <2>1
<1> QED
  BY <1>1, <1>2

LEMMA ServerTypePreserved ==
    ASSUME TypeOK, [Next]_vars
    PROVE  TypeOK'
<1> USE DEF TypeOK
<1>0. Publish \/ (gets > 0 /\ gets' = gets - 1) => gets' \in 0..MaxGets
  BY GetsStayBounded
<1>1. CASE Start
  <2>1. timer' \in BOOLEAN /\ published' \in BOOLEAN /\ gets' \in 0..MaxGets
    BY <1>0, <1>1 DEF Start
  <2>2. srv' \in BOOLEAN /\ UNCHANGED <<object, state, misused, stream, pipe, conns>>
    BY <1>1 DEF Start, connVars
  <2> QED
    BY <2>1, <2>2
<1>2. CASE ListeningCb \/ Pause \/ Resume
  <2>1. state' \in {"listening", "paused"}
    BY <1>2 DEF ListeningCb, Pause, Resume
  <2>2. UNCHANGED <<object, srv, timer, published, gets, misused, stream, pipe, conns>>
    BY <1>2 DEF ListeningCb, Pause, Resume, connVars
  <2> QED
    BY <2>1, <2>2
<1>3. CASE RefreshCb \/ GetDone
  <2>1. gets' \in 0..MaxGets
    <3>1. CASE RefreshCb
      BY <1>0, <3>1 DEF RefreshCb
    <3>2. CASE GetDone
      BY <1>0, <3>2 DEF GetDone
    <3> QED
      BY <1>3, <3>1, <3>2
  <2>2. misused' \in BOOLEAN
    BY <1>3 DEF RefreshCb, GetDone
  <2>3. UNCHANGED <<object, srv, timer, state, published, stream, pipe, conns>>
    BY <1>3 DEF RefreshCb, GetDone, connVars
  <2> QED
    BY <2>1, <2>2, <2>3
<1>4. ASSUME NEW c \in Conns, Accept(c) PROVE TypeOK'
  <2>1. stream' \in [Conns -> Streams \cup {None}]
    BY <1>4 DEF Accept
  <2>2. pipe' \in [Conns -> PipeStates]
    BY <1>4 DEF Accept, Started, PipeStates
  <2>3. conns' \in [Streams -> Conns \cup {None}]
    BY <1>4, PrunedType DEF Accept
  <2> QED
    BY <1>4, <2>1, <2>2, <2>3 DEF Accept
<1>5. ASSUME NEW c \in Conns, StreamClose(c) PROVE TypeOK'
  <2>1. pipe' \in [Conns -> PipeStates]
    BY <1>5, DestroyedPipe DEF StreamClose, PipeStates
  <2> QED
    BY <1>5, <2>1 DEF StreamClose
<1>6. ASSUME NEW c \in Conns, PipeEnds(c) \/ HandleClosed(c) PROVE TypeOK'
  BY <1>6 DEF PipeEnds, HandleClosed, PipeStates
<1>7. CASE AcceptFails
  BY <1>7, PrunedType DEF AcceptFails
<1>8. CASE Destroy \/ Delete
  <2>1. pipe' \in [Conns -> PipeStates]
    <3>1. pipe' = [c \in Conns |-> IF Listed(c) THEN Destroyed(pipe[c]) ELSE pipe[c]]
      BY <1>8 DEF Destroy, Delete, Teardown, DestroyPipes
    <3>2. \A c \in Conns : pipe[c] \in PipeStates /\ Destroyed(pipe[c]) \in PipeStates
      BY DestroyedPipe
    <3> QED
      BY <3>1, <3>2
  <2> QED
    BY <1>8, <2>1 DEF Destroy, Delete, Teardown
<1>9. CASE UNCHANGED vars
  BY <1>9 DEF vars, connVars
<1> QED
  BY <1>1, <1>2, <1>3, <1>4, <1>5, <1>6, <1>7, <1>8, <1>9 DEF Next

\* A teardown takes the timer and the DHT server; nothing brings them back.
LEMMA TeardownsPreserved ==
    ASSUME TypeOK, Teardowns, [Next]_vars
    PROVE  Teardowns'
<1> USE DEF Teardowns
<1>1. CASE Start \/ ListeningCb \/ Pause \/ Resume \/ RefreshCb
  <2>1. UNCHANGED <<object, misused>> /\ (srv \/ timer \/ object = "alive")
    BY <1>1 DEF Start, ListeningCb, Pause, Resume, RefreshCb, TypeOK
  <2>2. state' # "destroyed"
    <3>1. CASE Start \/ ListeningCb \/ Pause \/ Resume
      BY <3>1 DEF Start, ListeningCb, Pause, Resume
    <3>2. CASE RefreshCb
      BY <3>2, Zenon DEF RefreshCb
    <3> QED
      BY <1>1, <3>1, <3>2
  <2> QED
    BY <2>1, <2>2
<1>2. CASE GetDone
  BY <1>2 DEF GetDone, PutsRecord
<1>3. ASSUME NEW c \in Conns, Accept(c) \/ StreamClose(c) \/ PipeEnds(c) \/ HandleClosed(c)
      PROVE  Teardowns'
  BY <1>3 DEF Accept, StreamClose, PipeEnds, HandleClosed
<1>4. CASE AcceptFails
  BY <1>4 DEF AcceptFails
<1>5. CASE Destroy \/ Delete
  BY <1>5 DEF Destroy, Delete, Teardown
<1>6. CASE UNCHANGED vars
  BY <1>6 DEF vars
<1> QED
  BY <1>1, <1>2, <1>3, <1>4, <1>5, <1>6 DEF Next

\* The map is complete, and destroy() leaves no open connection bridging.
LEMMA ConnectionsPreserved ==
    ASSUME ServerIInv, [Next]_vars
    PROVE  StreamsHavePipes' /\ OpenConnsListed' /\ DestroyReachesAll'
<1> USE DEF StreamsHavePipes, OpenConnsListed, DestroyReachesAll
<1>0. TypeOK /\ Teardowns /\ StreamsHavePipes /\ OpenConnsListed /\ DestroyReachesAll
  BY DEF ServerIInv
<1>1. CASE Start \/ ListeningCb \/ Pause \/ Resume \/ RefreshCb \/ GetDone
  <2>1. UNCHANGED <<stream, pipe, conns>>
    BY <1>1 DEF Start, ListeningCb, Pause, Resume, RefreshCb, GetDone, connVars
  <2>2. (state' = "destroyed") <=> (state = "destroyed")
    BY <1>0, <1>1
    DEF Start, ListeningCb, Pause, Resume, RefreshCb, GetDone, Teardowns
  <2> QED
    BY <1>0, <2>1, <2>2
<1>2. ASSUME NEW c \in Conns, Accept(c)
      PROVE  StreamsHavePipes' /\ OpenConnsListed' /\ DestroyReachesAll'
  <2>1. PICK s \in Streams : /\ FreeAddress(s)
                             /\ stream' = [stream EXCEPT ![c] = s]
                             /\ conns' = [Pruned EXCEPT ![s] = c]
    BY <1>2 DEF Accept
  <2>2. state # "destroyed" /\ UNCHANGED state
    BY <1>0, <1>2 DEF Accept, Teardowns
  <2>3. StreamsHavePipes'
    BY <1>0, <1>2, <2>1 DEF Accept, Started, TypeOK
  <2>4. ASSUME NEW d \in Conns, stream'[d] # None PROVE conns'[stream'[d]] = d
    <3>1. CASE d = c
      BY <1>0, <2>1, <3>1, PrunedType DEF TypeOK
    <3>2. CASE d # c
      <4>1. stream'[d] = stream[d] /\ stream[d] # s
        BY <1>0, <2>1, <3>2 DEF TypeOK, FreeAddress
      <4>2. Pruned[stream[d]] = d
        BY <1>0, <2>2, <2>4, <4>1, PrunedKeepsOpen
      <4>3. stream[d] \in Streams
        BY <1>0, <2>4, <4>1 DEF TypeOK
      <4>4. conns'[stream[d]] = Pruned[stream[d]]
        BY <1>0, <2>1, <4>1, <4>3, PrunedType
      <4> QED
        BY <4>1, <4>2, <4>4
    <3> QED
      BY <3>1, <3>2
  <2> QED
    BY <2>2, <2>3, <2>4
<1>3. ASSUME NEW c \in Conns, StreamClose(c)
      PROVE  StreamsHavePipes' /\ OpenConnsListed' /\ DestroyReachesAll'
  <2>1. stream' = [stream EXCEPT ![c] = None] /\ UNCHANGED <<state, conns>>
    BY <1>3 DEF StreamClose
  <2>2. \A d \in Conns : d # c => pipe'[d] = pipe[d]
    BY <1>0, <1>3 DEF StreamClose, TypeOK
  <2> QED
    BY <1>0, <2>1, <2>2 DEF TypeOK
<1>4. ASSUME NEW c \in Conns, PipeEnds(c) \/ HandleClosed(c)
      PROVE  StreamsHavePipes' /\ OpenConnsListed' /\ DestroyReachesAll'
  <2>1. UNCHANGED <<stream, state, conns>>
    BY <1>4 DEF PipeEnds, HandleClosed
  <2>2. \A d \in Conns : pipe'[d] = pipe[d] \/ pipe'[d] \in {"closing", "gone"}
    BY <1>0, <1>4 DEF PipeEnds, HandleClosed, TypeOK
  <2> QED
    BY <1>0, <2>1, <2>2
<1>5. CASE AcceptFails
  <2>1. UNCHANGED <<stream, pipe, state>> /\ conns' = Pruned
    BY <1>5 DEF AcceptFails
  <2> QED
    BY <1>0, <2>1, PrunedKeepsOpen
<1>6. CASE Destroy \/ Delete
  <2>1. DestroyPipes /\ UNCHANGED stream /\ state' = "destroyed"
    BY <1>6 DEF Destroy, Delete, Teardown
  <2>2. ASSUME NEW c \in Conns, stream[c] # None PROVE pipe'[c] \in {"closing", "gone"}
    <3>1. pipe[c] \in PipeStates /\ pipe[c] # "unused" /\ stream[c] \in Streams
      BY <1>0, <2>2 DEF TypeOK
    <3>2. Destroyed(pipe[c]) \in {"closing", "gone"}
      BY <3>1, DestroyedPipe
    <3>3. Listed(c) \/ pipe[c] \in {"closing", "gone"}
      BY <1>0, <2>2, <3>1 DEF Listed
    <3> QED
      BY <2>1, <3>2, <3>3 DEF DestroyPipes
  <2> QED
    BY <2>1, <2>2
<1>7. CASE UNCHANGED vars
  BY <1>0, <1>7 DEF vars, connVars
<1> QED
  BY <1>1, <1>2, <1>3, <1>4, <1>5, <1>6, <1>7 DEF Next

-----------------------------------------------------------------------------
(* The theorems.                                                           *)

LEMMA ServerInductive == ServerIInv /\ [Next]_vars => ServerIInv'
<1> SUFFICES ASSUME ServerIInv, [Next]_vars PROVE ServerIInv'
  OBVIOUS
<1>1. TypeOK /\ Teardowns
  BY DEF ServerIInv
<1> QED
  BY <1>1, ServerTypePreserved, TeardownsPreserved, ConnectionsPreserved DEF ServerIInv

LEMMA ServerInvariance == Spec => []ServerIInv
BY InitServerIInv, ServerInductive, PTL DEF Spec

\* Every member of the server and every pipe keeps its type.
THEOREM ServerTypeCorrect == Spec => []TypeOK
<1>1. ServerIInv => TypeOK
  BY DEF ServerIInv
<1> QED
  BY <1>1, ServerInvariance, PTL

\* A running server knows every connection whose stream is open, however the
\* addresses of closed streams come back (connection_cb).
THEOREM OpenConnsAreListed == Spec => []OpenConnsListed
<1>1. ServerIInv => OpenConnsListed
  BY DEF ServerIInv
<1> QED
  BY <1>1, ServerInvariance, PTL

\* destroy() leaves no connection with an open stream bridging.
THEOREM DestroyReachesEveryConn == Spec => []DestroyReachesAll
<1>1. ServerIInv => DestroyReachesAll
  BY DEF ServerIInv
<1> QED
  BY <1>1, ServerInvariance, PTL

\* No timer, server or get callback runs on a deleted server, with any number
\* of gets in flight when it goes (destroy(), get_done_cb).
THEOREM NoCallbackIsLate == Spec => []CallbacksHaveAServer
<1>1. ServerIInv => CallbacksHaveAServer
  BY DEF ServerIInv, Teardowns, CallbacksHaveAServer
<1> QED
  BY <1>1, ServerInvariance, PTL

=============================================================================
