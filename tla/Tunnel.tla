------------------------------- MODULE Tunnel --------------------------------
(***************************************************************************)
(* A whole TCP tunnel: the pipe of an accepted socket at the client        *)
(* (TcpPipe), the inbound connection at the server (ServerConn), and the   *)
(* encrypted stream between them, which is all that they share.  The steps *)
(* of the ends are theirs; this module adds what the stream lets through:  *)
(* an end is given only what the other has sent, in order.                 *)
(*                                                                         *)
(* The stream is hyperdht's, external, and modelled as the code describes  *)
(* it: an END follows everything written before it, an end answers the END *)
(* it receives with its own and refuses writes from then on, and the close *)
(* callback comes once both ends have written END (pipe.hpp:67-69), or     *)
(* when the stream fails.  A drain callback may come as soon as a write is *)
(* accepted, and is owed once the other end has been given its bytes.      *)
(***************************************************************************)
EXTENDS Integers

CONSTANTS HighWaterMark, StreamHighWaterMark, MaxPendingBytes, MaxChunk,
          MaxData,
          ClientBytes,  \* bound: bytes the client's application ever sends
          ServerBytes   \* bound: bytes the service ever sends

\* Those of TcpPipe and ServerConn, for both ends.
ASSUME ConstantsAssumption ==
    /\ HighWaterMark \in Nat \ {0}
    /\ StreamHighWaterMark \in Nat \ {0}
    /\ MaxPendingBytes = StreamHighWaterMark
    /\ MaxChunk \in Nat \ {0} /\ MaxChunk < StreamHighWaterMark
    /\ MaxData \in Nat \ {0}
    /\ ClientBytes \in Nat /\ ServerBytes \in Nat

VARIABLES
    \* the client's TcpPipe, and the server's
    cTcp, cReading, cStreamPaused, cStreamClosed, cDestroyed, cGone,
    cStreamPending, cPendingBytes, cInflight, cLocalEof, cQueued, cFlushed,
    cWrites, cRead, cSent, cAcked, cDrains, cPaused, cEnded, cClosed, cCause,
    sTcp, sReading, sStreamPaused, sStreamClosed, sDestroyed, sGone,
    sStreamPending, sPendingBytes, sInflight, sLocalEof, sQueued, sFlushed,
    sWrites, sRead, sSent, sAcked, sDrains, sPaused, sEnded, sClosed, sCause,
    opened, pending, lost, unsent,
    \* the stream
    cAnswered, sAnswered,   \* the end has answered an END with its own
    failed                  \* the stream has failed

C == INSTANCE TcpPipe WITH
        MaxOut <- ClientBytes, MaxIn <- ServerBytes,
        tcp <- cTcp, reading <- cReading, streamPaused <- cStreamPaused,
        streamClosed <- cStreamClosed, destroyed <- cDestroyed, gone <- cGone,
        streamPending <- cStreamPending, pendingBytes <- cPendingBytes,
        inflight <- cInflight, localEof <- cLocalEof, queued <- cQueued,
        flushed <- cFlushed, writes <- cWrites, read <- cRead, sent <- cSent,
        acked <- cAcked, drains <- cDrains, sPaused <- cPaused,
        sEnded <- cEnded, sClosed <- cClosed, cause <- cCause

S == INSTANCE ServerConn WITH
        MaxOut <- ServerBytes, MaxIn <- ClientBytes,
        tcp <- sTcp, reading <- sReading, streamPaused <- sStreamPaused,
        streamClosed <- sStreamClosed, destroyed <- sDestroyed, gone <- sGone,
        streamPending <- sStreamPending, pendingBytes <- sPendingBytes,
        inflight <- sInflight, localEof <- sLocalEof, queued <- sQueued,
        flushed <- sFlushed, writes <- sWrites, read <- sRead, sent <- sSent,
        acked <- sAcked, drains <- sDrains, sPaused <- sPaused,
        sEnded <- sEnded, sClosed <- sClosed, cause <- sCause

clientVars ==
    <<cTcp, cReading, cStreamPaused, cStreamClosed, cDestroyed, cGone,
      cStreamPending, cPendingBytes, cInflight, cLocalEof, cQueued, cFlushed,
      cWrites, cRead, cSent, cAcked, cDrains, cPaused, cEnded, cClosed, cCause>>
connVars == <<opened, pending, lost, unsent>>
serverVars ==
    <<sTcp, sReading, sStreamPaused, sStreamClosed, sDestroyed, sGone,
      sStreamPending, sPendingBytes, sInflight, sLocalEof, sQueued, sFlushed,
      sWrites, sRead, sSent, sAcked, sDrains, sPaused, sEnded, sClosed, sCause,
      connVars>>
streamVars == <<cAnswered, sAnswered, failed>>
vars       == <<clientVars, serverVars, streamVars>>

Init ==
    /\ C!Init /\ S!ConnInit
    /\ cAnswered = FALSE /\ sAnswered = FALSE /\ failed = FALSE

-----------------------------------------------------------------------------
(* The stream                                                              *)

\* The end has written END, because it was told to close or as an answer.
ClientEnd == cEnded \/ cAnswered
ServerEnd == sEnded \/ sAnswered

\* The end has been given everything the other sent; one without a live
\* socket ignores what it is given.
ClientGiven == cQueued = sSent \/ cDestroyed \/ ~C!HasHandle
ServerGiven == sQueued = cSent \/ sDestroyed \/ ~S!HasHandle

\* An END arrives after the bytes before it, and is answered.
ClientAnswers ==
    /\ ServerEnd /\ ClientGiven /\ ~cAnswered /\ ~cPaused /\ ~cClosed
    /\ cAnswered' = TRUE
    /\ UNCHANGED <<clientVars, serverVars, sAnswered, failed>>
ServerAnswers ==
    /\ ClientEnd /\ ServerGiven /\ ~sAnswered /\ ~sPaused /\ ~sClosed
    /\ opened
    /\ sAnswered' = TRUE
    /\ UNCHANGED <<clientVars, serverVars, cAnswered, failed>>

\* The stream breaks, by a timeout or a lost peer.
Fail ==
    /\ ~failed /\ cTcp # "new"
    /\ failed' = TRUE
    /\ UNCHANGED <<clientVars, serverVars, cAnswered, sAnswered>>

-----------------------------------------------------------------------------
(* The ends                                                                *)

\* A write is accepted before the end has written END, and refused after it
\* or after a failure.
ClientReads ==
    /\ C!ReadData
    /\ IF cDestroyed' THEN ClientEnd \/ failed ELSE ~ClientEnd

ServerReads ==
    /\ S!ConnReadData
    /\ IF sDestroyed' THEN ServerEnd \/ failed ELSE ~opened \/ ~ServerEnd

ClientTakes == C!OnStreamData /\ cQueued' <= sSent
ServerTakes == opened /\ S!OnStreamData /\ sQueued' <= cSent

\* The close callback, in good order or after a failure.
ClientClosed ==
    /\ C!OnStreamClose
    /\ failed \/ (ClientEnd /\ ServerEnd /\ ClientGiven)
ServerClosed ==
    /\ S!OnStreamClose
    /\ failed \/ (ClientEnd /\ ServerEnd /\ ServerGiven)

\* The flush of the greeting is refused only after END or a failure.
ServerOpens ==
    /\ S!StreamOpen
    /\ unsent' # unsent => ServerEnd \/ failed

ClientStep ==
    /\ \/ C!Adopt \/ ClientReads \/ C!ReadEof \/ C!ReadError \/ C!Drain
       \/ ClientTakes \/ C!WriteDone \/ C!WriteFailed
       \/ ClientClosed \/ C!OwnerDestroy \/ C!CloseHandle
    /\ UNCHANGED <<serverVars, streamVars>>

\* connection_cb runs because the client has dialled.
ServerAccepts == cTcp # "new" /\ S!Connect

ServerStep ==
    /\ \/ ServerReads \/ ServerOpens \/ S!ConnDrain
       \/ /\ \/ ServerAccepts \/ S!ConnectCb \/ S!ReadEof \/ S!ReadError
             \/ ServerTakes \/ S!WriteDone \/ S!WriteFailed
             \/ ServerClosed \/ S!OwnerDestroy \/ S!CloseHandle
          /\ UNCHANGED connVars
    /\ UNCHANGED <<clientVars, streamVars>>

\* Bound: one end at most breaks on its own account.  (A refused write is the
\* other end's doing, or the stream's.)
OneEndBreaks ==
    LET Breaks == {"connect", "local", "write", "owner"}
    IN  ~(cCause' \in Breaks /\ sCause' \in Breaks)

Next ==
    \/ ClientStep /\ OneEndBreaks
    \/ ServerStep /\ OneEndBreaks
    \/ ClientAnswers
    \/ ServerAnswers
    \/ Fail

\* What each end is owed: a dialled connection arrives, every request of libuv
\* is answered, what was sent is delivered unless the receiver has paused, a
\* delivered write is acknowledged, the handshake of ENDs ends.
ClientOwed ==
    \/ /\ \/ C!WriteDone \/ C!WriteFailed \/ C!CloseHandle
          \/ ClientTakes \/ ClientClosed
          \/ C!Drain /\ cAcked' <= sQueued
       /\ UNCHANGED <<serverVars, streamVars>>
    \/ ClientAnswers

ServerOwed ==
    \/ /\ \/ ServerOpens
          \/ S!ConnDrain /\ sAcked' <= cQueued
          \/ /\ \/ ServerAccepts \/ S!ConnectCb
                \/ S!WriteDone \/ S!WriteFailed \/ S!CloseHandle
                \/ ServerTakes \/ ServerClosed
             /\ UNCHANGED connVars
       /\ UNCHANGED <<clientVars, streamVars>>
    \/ ServerAnswers

Fairness == WF_vars(ClientOwed) /\ WF_vars(ServerOwed)

Spec == Init /\ [][Next]_vars /\ Fairness

-----------------------------------------------------------------------------
(* Properties                                                              *)

\* A tunnel to a service that was dialled, and that both ends finished in good
\* order, lost nothing: all that was read from one application was handed to
\* the other, but for the two ways a greeting is lost before on_open
\* (pipe.cpp:117-122, 212-225; server.cpp:287-293, 387-392).
EndToEndComplete ==
    cCause = "flushed" /\ sCause = "flushed" /\ sTcp # "none" /\ ~failed =>
        /\ sFlushed = cRead
        /\ cFlushed = sRead - lost - unsent - pending

\* Neither end's backpressure stops the other for good: whatever the stream
\* took at one end is handed to the application at the other, or the tunnel
\* ends (pipe.cpp:142-158, 184-208).
EndToEndProgress ==
    /\ sFlushed < cSent ~> sFlushed = cSent \/ sDestroyed \/ sTcp = "none" \/ failed
    /\ cFlushed < sSent ~> cFlushed = sSent \/ cDestroyed \/ failed

\* When one end is torn down, so is the other (design spec 2.6: "any error or
\* close on either side destroys both").
BothEndsEnd == cDestroyed \/ sDestroyed ~> cGone /\ sGone
=============================================================================
