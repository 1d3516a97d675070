---------------------------- MODULE TunnelProofs ----------------------------
(***************************************************************************)
(* Proof about Tunnel for every value of its constants: a tunnel that both *)
(* ends finished in good order lost nothing.                               *)
(*                                                                         *)
(* Each end is one of the modules proved elsewhere, and keeps its          *)
(* invariant, because what the stream adds to its steps is guards only (CP *)
(* and SP are those proofs, with the variables of the two ends).  What is  *)
(* left is between the ends: once one has seen a close in good order,      *)
(* nothing more is sent, and it has been given everything (Agreed).        *)
(***************************************************************************)
EXTENDS Tunnel, TLAPS

\* Of the first, only what is about a pipe alone is used: the variables and
\* the constant of a Conn, which the client has not, are those of the server.
CP == INSTANCE PipeProofs WITH
        MaxOut <- ClientBytes, MaxIn <- ServerBytes,
        tcp <- cTcp, reading <- cReading, streamPaused <- cStreamPaused,
        streamClosed <- cStreamClosed, destroyed <- cDestroyed, gone <- cGone,
        streamPending <- cStreamPending, pendingBytes <- cPendingBytes,
        inflight <- cInflight, localEof <- cLocalEof, queued <- cQueued,
        flushed <- cFlushed, writes <- cWrites, read <- cRead, sent <- cSent,
        acked <- cAcked, drains <- cDrains, sPaused <- cPaused,
        sEnded <- cEnded, sClosed <- cClosed, cause <- cCause

SP == INSTANCE PipeProofs WITH
        MaxOut <- ServerBytes, MaxIn <- ClientBytes,
        tcp <- sTcp, reading <- sReading, streamPaused <- sStreamPaused,
        streamClosed <- sStreamClosed, destroyed <- sDestroyed, gone <- sGone,
        streamPending <- sStreamPending, pendingBytes <- sPendingBytes,
        inflight <- sInflight, localEof <- sLocalEof, queued <- sQueued,
        flushed <- sFlushed, writes <- sWrites, read <- sRead, sent <- sSent,
        acked <- sAcked, drains <- sDrains, sPaused <- sPaused,
        sEnded <- sEnded, sClosed <- sClosed, cause <- sCause

\* What an end finishes by, and where the bytes it has read are.  A pipe of
\* the client has its handle from the start.
Ends ==
    /\ cTcp \notin {"none", "connecting"}
    /\ cCause = "flushed" => cStreamClosed
    /\ sCause = "flushed" => sStreamClosed
    /\ cCause # "stream" => cRead = cSent
    /\ sCause # "stream" => sRead = sSent + pending + lost + unsent
    /\ sAnswered => opened

\* The close callback in good order comes after both ENDs: the end has all
\* that the other sent, and the other sends no more.
Agreed ==
    ~failed =>
        /\ cStreamClosed => ClientEnd /\ ServerEnd /\ cQueued = sSent
        /\ sStreamClosed /\ sTcp # "none" =>
               ClientEnd /\ ServerEnd /\ sQueued = cSent

TunnelIInv == CP!IInv /\ SP!ConnIInv /\ Ends /\ Agreed

USE ConstantsAssumption DEF ConstantsAssumption

-----------------------------------------------------------------------------
(* The steps of the ends are steps of the modules proved about.            *)

LEMMA ClientIsAPipe == [C!Next]_clientVars => [CP!Next]_(CP!vars)
BY DEF clientVars,
       C!Next, C!Connect, C!Adopt, C!ConnectCb, C!CanRead, C!Submit,
       C!ReadData, C!ReadEof, C!ReadError, C!Drain, C!OnStreamData,
       C!WriteDone, C!WriteFailed, C!OnStreamClose, C!OwnerDestroy,
       C!CloseHandle, C!Destroy, C!FlushFinished, C!PipeReadSubmitted,
       C!PipeReadRejected, C!PipeDrain, C!Less, C!Oldest, C!PauseIfFull,
       C!ResumeIfRoom, C!QueueWrite, C!HasHandle, C!vars, C!lifeVars,
       C!endVars, C!upVars, C!downVars,
       CP!Next, CP!Connect, CP!Adopt, CP!ConnectCb, CP!CanRead, CP!Submit,
       CP!ReadData, CP!ReadEof, CP!ReadError, CP!Drain, CP!OnStreamData,
       CP!WriteDone, CP!WriteFailed, CP!OnStreamClose, CP!OwnerDestroy,
       CP!CloseHandle, CP!Destroy, CP!FlushFinished, CP!PipeReadSubmitted,
       CP!PipeReadRejected, CP!PipeDrain, CP!Less, CP!Oldest,
       CP!PauseIfFull, CP!ResumeIfRoom, CP!QueueWrite, CP!HasHandle,
       CP!vars, CP!lifeVars, CP!endVars, CP!upVars, CP!downVars

LEMMA ServerIsAConn == [S!ConnNext]_serverVars => [SP!ConnNext]_(SP!serverVars)
BY DEF serverVars, connVars,
       S!ConnNext, S!Connect, S!ConnectCb, S!CanRead, S!Submit,
       S!ConnReadData, S!Buffer, S!ReadEof, S!ReadError, S!StreamOpen,
       S!FlushPending, S!FlushRefused, S!ConnDrain, S!OnStreamData,
       S!WriteDone, S!WriteFailed, S!OnStreamClose, S!OwnerDestroy,
       S!CloseHandle, S!Destroy, S!FlushFinished, S!PipeReadSubmitted,
       S!PipeReadRejected, S!PipeDrain, S!Less, S!Oldest, S!PauseIfFull,
       S!ResumeIfRoom, S!QueueWrite, S!HasHandle, S!vars, S!lifeVars,
       S!endVars, S!upVars, S!downVars, S!connVars, S!serverVars,
       SP!ConnNext, SP!Connect, SP!ConnectCb, SP!CanRead, SP!Submit,
       SP!ConnReadData, SP!Buffer, SP!ReadEof, SP!ReadError, SP!StreamOpen,
       SP!FlushPending, SP!FlushRefused, SP!ConnDrain, SP!OnStreamData,
       SP!WriteDone, SP!WriteFailed, SP!OnStreamClose, SP!OwnerDestroy,
       SP!CloseHandle, SP!Destroy, SP!FlushFinished, SP!PipeReadSubmitted,
       SP!PipeReadRejected, SP!PipeDrain, SP!Less, SP!Oldest,
       SP!PauseIfFull, SP!ResumeIfRoom, SP!QueueWrite, SP!HasHandle,
       SP!vars, SP!lifeVars, SP!endVars, SP!upVars, SP!downVars,
       SP!connVars, SP!serverVars

\* What the stream adds to a step of an end is guards.
LEMMA EndSteps ==
    ASSUME [Next]_vars
    PROVE  [C!Next]_clientVars /\ [S!ConnNext]_serverVars
<1>1. CASE ClientStep
  BY <1>1 DEF ClientStep, ClientReads, ClientTakes, ClientClosed, C!Next
<1>2. CASE ServerStep
  BY <1>2 DEF ServerStep, ServerReads, ServerOpens, ServerAccepts, ServerTakes,
              ServerClosed, S!ConnNext, S!connVars, connVars
<1>3. CASE ClientAnswers \/ ServerAnswers \/ Fail \/ UNCHANGED vars
  BY <1>3 DEF ClientAnswers, ServerAnswers, Fail, vars
<1> QED
  BY <1>1, <1>2, <1>3 DEF Next

LEMMA InitTunnelIInv == Init => TunnelIInv
<1> SUFFICES ASSUME Init PROVE TunnelIInv
  OBVIOUS
<1>1. CP!IInv
  <2>1. CP!Init
    BY DEF Init, C!Init, CP!Init
  <2> QED
    BY <2>1, CP!InitIInv
<1>2. SP!ConnIInv
  <2>1. SP!ConnInit
    BY DEF Init, S!ConnInit, S!Init, SP!ConnInit, SP!Init
  <2> QED
    BY <2>1, SP!InitConnIInv
<1>3. Ends /\ Agreed
  BY DEF Init, C!Init, S!ConnInit, S!Init, Ends, Agreed
<1> QED
  BY <1>1, <1>2, <1>3 DEF TunnelIInv

LEMMA EndsKeepTheirs ==
    TunnelIInv /\ [Next]_vars => CP!IInv' /\ SP!ConnIInv'
<1> SUFFICES ASSUME TunnelIInv, [Next]_vars PROVE CP!IInv' /\ SP!ConnIInv'
  OBVIOUS
<1>1. CP!IInv'
  BY EndSteps, ClientIsAPipe, CP!Inductive DEF TunnelIInv
<1>2. SP!ConnIInv'
  BY EndSteps, ServerIsAConn, SP!ConnInductive DEF TunnelIInv
<1> QED
  BY <1>1, <1>2

-----------------------------------------------------------------------------
(* What a step of an end does to what is agreed.                           *)

LEMMA ClientDoes ==
    ASSUME TunnelIInv, ClientStep
    PROVE  /\ UNCHANGED <<serverVars, streamVars>>
           /\ cEnded => cEnded'
           /\ cTcp' \notin {"none", "connecting"}
           /\ cCause' = "flushed" => cStreamClosed'
           /\ cCause' # "stream" => cRead' = cSent'
           /\ cSent' # cSent => ~ClientEnd
           /\ cStreamClosed => cStreamClosed' /\ cQueued' = cQueued
           /\ cStreamClosed' => \/ cStreamClosed \/ failed
                                \/ ClientEnd /\ ServerEnd /\ cQueued' = sSent
<1> DEFINE Kept == /\ UNCHANGED <<cSent, cRead, cQueued, cStreamClosed>>
                   /\ cEnded => cEnded'
                   /\ cCause' = cCause \/ (cCause' = "flushed" => cStreamClosed)
                   /\ cCause = "stream" => cCause' = "stream"
                   /\ cTcp' \notin {"none", "connecting"}
<1>1. /\ cTcp \in {"open", "connecting"} => ~cDestroyed
      /\ cDestroyed <=> cCause # "none"
      /\ cStreamClosed => cClosed
      /\ cRead \in Nat /\ cSent \in Nat /\ cTcp \in C!TcpStates
      /\ cTcp \in {"closing", "closed"} => cDestroyed
  BY DEF TunnelIInv, CP!IInv, CP!Life, CP!TypeOK, CP!TcpStates, C!TcpStates
<1>2. UNCHANGED <<serverVars, streamVars>>
  BY DEF ClientStep
<1>3. Ends
  BY DEF TunnelIInv
<1>4. ASSUME Kept
      PROVE  /\ cEnded => cEnded'
             /\ cTcp' \notin {"none", "connecting"}
             /\ cCause' = "flushed" => cStreamClosed'
             /\ cCause' # "stream" => cRead' = cSent'
             /\ cSent' = cSent
             /\ cStreamClosed' = cStreamClosed /\ cQueued' = cQueued
  BY <1>3, <1>4 DEF Ends
<1>5. CASE C!Adopt
  <2>1. Kept
    BY <1>3, <1>5 DEF C!Adopt, C!endVars, C!upVars, C!downVars, Ends
  <2> QED
    BY <1>2, <1>4, <2>1
<1>6. CASE C!ReadEof
  <2>1. Kept
    BY <1>3, <1>6 DEF C!ReadEof, C!upVars, C!downVars, Ends
  <2> QED
    BY <1>2, <1>4, <2>1
<1>7. CASE C!ReadError \/ C!OwnerDestroy
  <2>1. Kept
    BY <1>1, <1>3, <1>7 DEF C!ReadError, C!OwnerDestroy, C!Destroy, C!CanRead,
           C!lifeVars, C!endVars, C!upVars, C!downVars, Ends
  <2> QED
    BY <1>2, <1>4, <2>1
<1>8. CASE C!Drain
  <2>1. Kept
    BY <1>3, <1>8 DEF C!Drain, C!endVars, C!downVars, Ends
  <2> QED
    BY <1>2, <1>4, <2>1
<1>9. CASE C!WriteDone \/ C!WriteFailed
  <2>1. Kept
    BY <1>1, <1>3, <1>9 DEF C!WriteDone, C!WriteFailed, C!FlushFinished,
           C!Destroy, C!lifeVars, C!endVars, C!upVars, Ends
  <2> QED
    BY <1>2, <1>4, <2>1
<1>10. CASE C!CloseHandle
  <2>1. Kept
    BY <1>3, <1>10 DEF C!CloseHandle, C!endVars, C!upVars, Ends
  <2> QED
    BY <1>2, <1>4, <2>1
<1>11. CASE ClientReads
  BY <1>1, <1>2, <1>3, <1>11 DEF ClientReads, C!ReadData, C!CanRead, C!Submit,
         C!PipeReadSubmitted, C!PipeReadRejected, C!Destroy, C!HasHandle,
         C!lifeVars, C!endVars, C!downVars, Ends
<1>12. CASE ClientTakes
  BY <1>1, <1>2, <1>3, <1>12 DEF ClientTakes, C!OnStreamData, C!QueueWrite,
         C!Destroy, C!HasHandle, C!lifeVars, C!endVars, C!upVars, Ends
<1>13. CASE ClientClosed
  BY <1>1, <1>2, <1>3, <1>13 DEF ClientClosed, C!OnStreamClose, C!TcpStates,
         C!FlushFinished, C!Destroy, C!HasHandle, C!lifeVars, C!upVars,
         C!downVars, Ends, ClientGiven
<1> QED
  BY <1>5, <1>6, <1>7, <1>8, <1>9, <1>10, <1>11, <1>12, <1>13 DEF ClientStep

LEMMA ServerDoes ==
    ASSUME TunnelIInv, ServerStep
    PROVE  /\ UNCHANGED <<clientVars, streamVars>>
           /\ sEnded => sEnded'
           /\ opened => opened'
           /\ sTcp' # "none" => sTcp # "none"
           /\ sCause' = "flushed" => sStreamClosed'
           /\ sCause' # "stream" => sRead' = sSent' + pending' + lost' + unsent'
           /\ sSent' # sSent => ~ServerEnd
           /\ sStreamClosed => sStreamClosed' /\ sQueued' = sQueued
           /\ sStreamClosed' /\ sTcp' # "none" =>
                 \/ sStreamClosed \/ failed
                 \/ ClientEnd /\ ServerEnd /\ sQueued' = cSent
<1> DEFINE Kept == /\ UNCHANGED <<sSent, sRead, sQueued, sStreamClosed>>
                   /\ sEnded => sEnded'
                   /\ sCause' = sCause \/ (sCause' = "flushed" => sStreamClosed)
                   /\ sCause = "stream" => sCause' = "stream"
                   /\ sTcp' # "none" => sTcp # "none"
<1>1. /\ sTcp \in {"new", "open", "connecting"} => ~sDestroyed
      /\ sDestroyed <=> sCause # "none"
      /\ sStreamClosed => sClosed
      /\ sTcp \in S!TcpStates
      /\ sTcp \in {"closing", "closed"} => sDestroyed
      /\ ~opened => unsent = 0
  BY DEF TunnelIInv, SP!ConnIInv, SP!ConnTypeOK, SP!Life, SP!Greeting,
         SP!TypeOK, SP!TcpStates, S!TcpStates
<1>2. /\ sRead \in Nat /\ sSent \in Nat /\ pending \in Nat
      /\ lost \in Nat /\ unsent \in Nat
  BY DEF TunnelIInv, SP!ConnIInv, SP!ConnTypeOK, SP!TypeOK
<1>3. UNCHANGED <<clientVars, streamVars>>
  BY DEF ServerStep
<1>4. Ends
  BY DEF TunnelIInv
<1>5. ASSUME Kept, UNCHANGED connVars
      PROVE  /\ sEnded => sEnded'
             /\ opened => opened'
             /\ sTcp' # "none" => sTcp # "none"
             /\ sCause' = "flushed" => sStreamClosed'
             /\ sCause' # "stream" => sRead' = sSent' + pending' + lost' + unsent'
             /\ sSent' = sSent
             /\ sStreamClosed' = sStreamClosed /\ sQueued' = sQueued
  BY <1>4, <1>5 DEF Ends, connVars
<1>6. CASE (ServerAccepts \/ S!ConnectCb) /\ UNCHANGED connVars
  <2>1. Kept
    BY <1>1, <1>4, <1>6 DEF ServerAccepts, S!Connect, S!ConnectCb, S!Destroy,
           S!HasHandle, S!lifeVars, S!endVars, S!upVars, S!downVars, Ends
  <2> QED
    BY <1>3, <1>5, <1>6, <2>1
<1>7. CASE S!ReadEof /\ UNCHANGED connVars
  <2>1. Kept
    BY <1>4, <1>7 DEF S!ReadEof, S!upVars, S!downVars, Ends
  <2> QED
    BY <1>3, <1>5, <1>7, <2>1
<1>8. CASE (S!ReadError \/ S!OwnerDestroy) /\ UNCHANGED connVars
  <2>1. Kept
    BY <1>1, <1>4, <1>8 DEF S!ReadError, S!OwnerDestroy, S!Destroy, S!CanRead,
           S!HasHandle, S!lifeVars, S!endVars, S!upVars, S!downVars, Ends
  <2> QED
    BY <1>3, <1>5, <1>8, <2>1
<1>9. CASE (S!WriteDone \/ S!WriteFailed) /\ UNCHANGED connVars
  <2>1. Kept
    BY <1>1, <1>4, <1>9 DEF S!WriteDone, S!WriteFailed, S!FlushFinished,
           S!Destroy, S!lifeVars, S!endVars, S!upVars, Ends
  <2> QED
    BY <1>3, <1>5, <1>9, <2>1
<1>10. CASE S!CloseHandle /\ UNCHANGED connVars
  <2>1. Kept
    BY <1>4, <1>10 DEF S!CloseHandle, S!endVars, S!upVars, Ends
  <2> QED
    BY <1>3, <1>5, <1>10, <2>1
<1>11. CASE S!ConnDrain
  <2>1. Kept /\ UNCHANGED connVars
    BY <1>4, <1>11 DEF S!ConnDrain, S!endVars, S!downVars, S!connVars, connVars, Ends
  <2> QED
    BY <1>3, <1>5, <2>1
<1>12. CASE ServerReads
  BY <1>1, <1>2, <1>3, <1>4, <1>12 DEF ServerReads, S!ConnReadData, S!CanRead,
         S!Submit, S!Buffer, S!PipeReadSubmitted, S!PipeReadRejected,
         S!Destroy, S!HasHandle, S!lifeVars, S!endVars, S!downVars, Ends
<1>13. CASE ServerOpens
  BY <1>1, <1>2, <1>3, <1>4, <1>13 DEF ServerOpens, S!StreamOpen,
         S!FlushPending, S!FlushRefused, S!endVars, S!downVars, Ends, ServerEnd
<1>14. CASE ServerTakes /\ UNCHANGED connVars
  BY <1>1, <1>2, <1>3, <1>4, <1>14 DEF ServerTakes, S!OnStreamData,
         S!QueueWrite, S!Destroy, S!HasHandle, S!lifeVars, S!endVars,
         S!upVars, connVars, Ends
<1>15. CASE ServerClosed /\ UNCHANGED connVars
  BY <1>1, <1>2, <1>3, <1>4, <1>15 DEF ServerClosed, S!OnStreamClose,
         S!TcpStates, S!FlushFinished, S!Destroy, S!HasHandle, S!lifeVars,
         S!upVars, S!downVars, connVars, Ends, ServerGiven
<1> QED
  BY <1>6, <1>7, <1>8, <1>9, <1>10, <1>11, <1>12, <1>13, <1>14, <1>15
     DEF ServerStep

\* An END is answered, or the stream fails: neither end changes.
LEMMA StreamDoes ==
    ASSUME ClientAnswers \/ ServerAnswers \/ Fail \/ UNCHANGED vars
    PROVE  /\ UNCHANGED <<clientVars, serverVars>>
           /\ ClientEnd => ClientEnd'
           /\ ServerEnd => ServerEnd'
           /\ failed => failed'
           /\ sAnswered' => sAnswered \/ opened
BY DEF ClientAnswers, ServerAnswers, Fail, vars, streamVars, clientVars,
       serverVars, ClientEnd, ServerEnd

-----------------------------------------------------------------------------

LEMMA BetweenPreserved ==
    TunnelIInv /\ [Next]_vars => Ends' /\ Agreed'
<1> SUFFICES ASSUME TunnelIInv, [Next]_vars PROVE Ends' /\ Agreed'
  OBVIOUS
<1>1. Ends /\ Agreed
  BY DEF TunnelIInv
<1>2. CASE ClientStep
  <2>1. Ends'
    BY <1>1, <1>2, ClientDoes DEF Ends, serverVars, connVars, streamVars
  <2>2. Agreed'
    BY <1>1, <1>2, ClientDoes
       DEF Agreed, ClientEnd, ServerEnd, serverVars, streamVars
  <2> QED
    BY <2>1, <2>2
<1>3. CASE ServerStep
  <2>1. Ends'
    BY <1>1, <1>3, ServerDoes DEF Ends, clientVars, streamVars
  <2>2. Agreed'
    BY <1>1, <1>3, ServerDoes
       DEF Agreed, ClientEnd, ServerEnd, clientVars, streamVars
  <2> QED
    BY <2>1, <2>2
<1>4. CASE ClientAnswers \/ ServerAnswers \/ Fail \/ UNCHANGED vars
  <2>1. Ends'
    BY <1>1, <1>4, StreamDoes DEF Ends, clientVars, serverVars, connVars
  <2>2. Agreed'
    BY <1>1, <1>4, StreamDoes DEF Agreed, clientVars, serverVars
  <2> QED
    BY <2>1, <2>2
<1> QED
  BY <1>2, <1>3, <1>4 DEF Next

LEMMA TunnelInductive == TunnelIInv /\ [Next]_vars => TunnelIInv'
BY EndsKeepTheirs, BetweenPreserved DEF TunnelIInv

LEMMA TunnelInvariance == Spec => []TunnelIInv
BY InitTunnelIInv, TunnelInductive, PTL DEF Spec

\* Nothing is lost end to end but a greeting lost before on_open: the queue
\* of an end that finished by the flush is empty (its own proof), it held all
\* that the other end had put on the stream (Agreed), and that was all the
\* other had read (Ends; pipe.cpp:117-122, 212-225; server.cpp:287-293,
\* 384-392).
THEOREM TunnelLosesNothing == Spec => []EndToEndComplete
<1>1. TunnelIInv => EndToEndComplete
  <2> SUFFICES ASSUME TunnelIInv, cCause = "flushed", sCause = "flushed",
                      sTcp # "none", ~failed
               PROVE  /\ sFlushed = cRead
                      /\ cFlushed = sRead - lost - unsent - pending
    BY DEF EndToEndComplete
  <2>1. cFlushed = cQueued /\ sFlushed = sQueued
    BY DEF TunnelIInv, CP!IInv, CP!Down, SP!ConnIInv, SP!Down
  <2>2. cQueued = sSent /\ sQueued = cSent
    BY DEF TunnelIInv, Ends, Agreed
  <2>3. cRead = cSent /\ sRead = sSent + pending + lost + unsent
    BY DEF TunnelIInv, Ends
  <2>4. /\ sSent \in Nat /\ pending \in Nat
        /\ lost \in Nat /\ unsent \in Nat
    BY DEF TunnelIInv, SP!ConnIInv, SP!ConnTypeOK, SP!TypeOK
  <2> QED
    BY <2>1, <2>2, <2>3, <2>4
<1> QED
  BY <1>1, TunnelInvariance, PTL

\* What the pipe and the connection promise by themselves they still promise
\* in a tunnel: exact counts at both ends, no more than one chunk of the
\* greeting lost, and a stopped socket that is owed the callback which starts
\* it again, at either end (pipe.cpp:136-158; server.cpp:287-296, 378-403).
THEOREM TunnelKeepsItsEnds ==
    Spec => [](/\ C!CountersExact /\ C!StoppedIsOwedADrain /\ C!WindowsBounded
               /\ S!ConnCountersExact /\ S!OneChunkLostAtMost
               /\ S!ConnStoppedIsOwed)
<1>1. CP!IInv => C!CountersExact /\ C!StoppedIsOwedADrain /\ C!WindowsBounded
  BY DEF CP!IInv, CP!Up, CP!Down, CP!StoppedIsOwedADrain, C!CountersExact,
         C!StoppedIsOwedADrain, C!WindowsBounded, C!Cardinality,
         CP!Cardinality
<1>2. SP!ConnIInv => /\ S!ConnCountersExact /\ S!OneChunkLostAtMost
                     /\ S!ConnStoppedIsOwed
  BY DEF SP!ConnIInv, SP!Greeting, SP!Owed, SP!ConnCountersExact,
         SP!ConnStoppedIsOwed, S!ConnCountersExact, S!OneChunkLostAtMost,
         S!ConnStoppedIsOwed
<1> QED
  BY <1>1, <1>2, TunnelInvariance, PTL DEF TunnelIInv
=============================================================================
