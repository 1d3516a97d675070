----------------------------- MODULE ServerConn -----------------------------
(***************************************************************************)
(* One inbound connection of HolesailServer (server.cpp, Conn): a TcpPipe  *)
(* whose StreamSide buffers what the local service says before the         *)
(* encrypted stream has opened.                                            *)
(*                                                                         *)
(* The pipe's own part of every callback is TcpPipe's; what changes is the *)
(* write the pipe is given.  Before on_open the bytes go to Conn::pending  *)
(* and the drain callback is withheld; on_open flushes the buffer in one   *)
(* plain write and then runs the withheld callbacks.                       *)
(*                                                                         *)
(* Offsets count the bytes the stream was given: `acked` is how far the    *)
(* pipe has been told, by a drain callback, that they are away.            *)
(***************************************************************************)
EXTENDS TcpPipe

CONSTANT MaxPendingBytes     \* kMaxPendingBytes

\* kMaxPendingBytes is kStreamHighWaterMark, and a read is shorter than both.
ASSUME PendingAssumption ==
    /\ MaxPendingBytes = StreamHighWaterMark
    /\ MaxChunk < StreamHighWaterMark

VARIABLES
    opened,    \* Conn::stream_open
    pending,   \* bytes in Conn::pending, one withheld drain for each chunk
    lost,      \* history: bytes dropped because the buffer was full
    unsent     \* history: bytes of a flush the stream refused

connVars   == <<opened, pending, lost, unsent>>
serverVars == <<vars, connVars>>

ConnTypeOK ==
    /\ TypeOK
    /\ opened \in BOOLEAN
    /\ pending \in 0..MaxPendingBytes
    /\ lost \in Nat
    /\ unsent \in Nat

ConnInit ==
    /\ Init
    /\ opened = FALSE
    /\ pending = 0
    /\ lost = 0
    /\ unsent = 0

\* Both references to the Conn are dropped: A, the box of the stream, by
\* stream_close_cb; B, the one in on_destroy_, when it has run.
Freed == sClosed /\ gone

-----------------------------------------------------------------------------
(* The write of make_side().                                               *)

\* Before on_open: buffer the chunk, or drop it with its drain callback when
\* it does not fit.  Either way the pipe is told it was submitted.
Buffer(len) ==
    IF pending + len > MaxPendingBytes
    THEN lost' = lost + len /\ pending' = pending
    ELSE pending' = pending + len /\ lost' = lost

\* read_cb with data, through this write.
ConnReadData ==
    /\ CanRead /\ ~localEof
    /\ \E len \in 1..MaxChunk :
          /\ read + len <= MaxOut
          /\ read' = read + len
          /\ \/ /\ ~opened
                /\ PipeReadSubmitted(len)
                /\ Buffer(len)
                /\ UNCHANGED <<sent, drains>>
             \/ /\ opened
                /\ PipeReadSubmitted(len) /\ Submit(len)
                /\ UNCHANGED <<pending, lost>>
             \/ /\ opened
                /\ PipeReadRejected(len)
                /\ UNCHANGED <<sent, drains, pending, lost>>
    /\ UNCHANGED <<endVars, acked, downVars, opened, unsent>>

-----------------------------------------------------------------------------
(* stream_open_cb                                                          *)

\* Mutants: the buffer is flushed but kept; the withheld callbacks are
\* dropped with it.
FlushPendingTwice ==
    /\ sent' = sent + pending
    /\ acked' = acked + pending
    /\ PipeDrain(pending)
    /\ UNCHANGED <<pending, unsent>>
FlushPendingNoDrain ==
    /\ sent' = sent + pending
    /\ acked' = acked + pending
    /\ pending' = 0
    /\ UNCHANGED <<unsent, streamPending, reading>>

\* The buffer goes out in one write, then every withheld drain runs.  They sum
\* to the buffer, and the last one finds the lowest count.
FlushPending ==
    /\ sent' = sent + pending
    /\ acked' = acked + pending
    /\ PipeDrain(pending)
    /\ pending' = 0
    /\ unsent' = unsent

\* The write is refused, always so on a stream that has been told to close:
\* the buffer and the withheld drains are gone.
FlushRefused ==
    /\ pending' = 0
    /\ unsent' = pending
    /\ UNCHANGED <<sent, acked, streamPending, reading>>

StreamOpen ==
    /\ tcp # "new" /\ ~opened /\ ~sClosed
    /\ opened' = TRUE
    /\ IF pending > 0
       THEN \/ ~sEnded /\ FlushPending
            \/ FlushRefused
       ELSE UNCHANGED <<sent, acked, streamPending, reading, pending, unsent>>
    /\ UNCHANGED <<tcp, destroyed, gone, sEnded, cause, endVars, read, drains,
                   downVars, lost>>

\* drain_cb: the Conn, and with it the pipe object, outlives the stream, so
\* the callback runs whether or not on_destroy_ has fired.
ConnDrain ==
    /\ ~sClosed
    /\ \E m \in drains :
          /\ Oldest(m, drains)
          /\ acked' = m
          /\ drains' = drains \ {m}
          /\ PipeDrain(m - acked)
    /\ UNCHANGED <<tcp, destroyed, gone, sEnded, cause, endVars, read, sent,
                   downVars, connVars>>

-----------------------------------------------------------------------------

\* connection_cb opens the stream and starts connect(); stream_data_cb,
\* stream_close_cb and destroy() hand the event to the pipe.
ConnNext ==
    \/ Connect /\ UNCHANGED connVars
    \/ ConnectCb /\ UNCHANGED connVars
    \/ ConnReadData
    \/ ReadEof /\ UNCHANGED connVars
    \/ ReadError /\ UNCHANGED connVars
    \/ StreamOpen
    \/ ConnDrain
    \/ opened /\ OnStreamData /\ UNCHANGED connVars
    \/ WriteDone /\ UNCHANGED connVars
    \/ WriteFailed /\ UNCHANGED connVars
    \/ OnStreamClose /\ UNCHANGED connVars
    \/ OwnerDestroy /\ UNCHANGED connVars
    \/ CloseHandle /\ UNCHANGED connVars

\* As for the pipe; in addition the header exchange ends, with on_open or
\* with on_close.
ConnFairness ==
    /\ WF_serverVars(ConnectCb /\ UNCHANGED connVars)
    /\ WF_serverVars((WriteDone \/ WriteFailed) /\ UNCHANGED connVars)
    /\ WF_serverVars(CloseHandle /\ UNCHANGED connVars)
    /\ WF_serverVars(ConnDrain)
    /\ WF_serverVars(StreamOpen)

ConnSpec == ConnInit /\ [][ConnNext]_serverVars /\ ConnFairness

-----------------------------------------------------------------------------
(* Properties                                                              *)

\* Every byte read from the service is on the stream, in the buffer, or one
\* of the two losses, exactly once, and the pipe's count agrees with what has
\* not been acknowledged to it (server.cpp:287-296, 378-403).
ConnCountersExact ==
    ~destroyed =>
        /\ read = sent + pending + lost + unsent
        /\ streamPending = (sent - acked) + pending + lost + unsent

\* The buffer overflows by one chunk at most: the drop itself passes the mark
\* and stops the socket until on_open (server.cpp:287-293).
OneChunkLostAtMost == lost <= MaxChunk

\* A live connection that has stopped reading its service is owed the event
\* that restarts it: on_open with something withheld, or a drain.  A lost
\* chunk, whose drain never comes, does not stall it.  The exception is a
\* flush the stream refused (server.cpp:388-392), which leaves it to on_close.
ConnStoppedIsOwed ==
    tcp = "open" /\ ~reading /\ ~localEof /\ unsent = 0 =>
        /\ streamPending >= StreamHighWaterMark
        /\ drains # {} \/ (~opened /\ pending > 0)

\* The Conn is not freed while libuv still owes its pipe a callback
\* (server.cpp:41-50): the two references cover every callback.
FreedOwesNothing == Freed => ~HasHandle /\ writes = {}

\* The greeting does not stop the service for good: a socket that is not read
\* is read again once the stream has opened, unless the connection ends.
ServiceResumes ==
    (tcp = "open" /\ ~reading) ~>
        (reading \/ localEof \/ destroyed \/ sClosed \/ unsent > 0)

(* The connection implements the Bridge too.                               *)

\* The bytes taken from the service are those on the stream, those in the
\* buffer and those of a refused flush, which are taken and never settled.
\* A chunk dropped by a full buffer is not taken.
CB == INSTANCE Bridge WITH
        OutWindow <- StreamHighWaterMark + MaxChunk - 1,
        InWindow  <- HighWaterMark + MaxData - 1,
        taken     <- sent + pending + unsent,
        settled   <- acked,
        arrived   <- queued,
        handed    <- flushed,
        phase     <- BridgePhase

\* The greeting changes nothing of what a connection promises: what was taken
\* before on_open keeps its place and counts for the same window as what is
\* written after it (server.cpp:287-296, 373-403).
ConnImplementsBridge == CB!BridgeSpec

\* server.cpp:289-292: past kMaxPendingBytes the buffer drops, but "TCP never
\* gets here: TcpPipe stops reading at kStreamHighWaterMark first".  A read
\* that starts below the mark may end above it.
NothingDropped == lost = 0

\* server.cpp:371-373: on_open will "Flush whatever the local service greeted
\* us with in the meantime, in order, before anything else reaches the wire".
\* A service that greets and hangs up before on_open has its END passed on
\* while the greeting still waits (pipe.cpp:117-122).
GreetingBeforeEnd == sEnded /\ ~destroyed => pending = 0
=============================================================================
