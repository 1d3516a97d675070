------------------------------ MODULE TcpPipe ------------------------------
(***************************************************************************)
(* One TcpPipe (pipe.cpp): the bridge between a local TCP socket and an    *)
(* encrypted stream, with the libuv and hyperdht callbacks that drive it.  *)
(*                                                                         *)
(* Every libuv or hyperdht callback is one action: the program is single   *)
(* threaded, so a callback runs to its end before the next one starts, and *)
(* all the concurrency is the order in which callbacks arrive.             *)
(*                                                                         *)
(* Bytes are numbered from the first one of each direction and never       *)
(* looked at.  A chunk handed to the stream or to uv_write is remembered   *)
(* as the offset at which it ends, so the outstanding chunks are a set of  *)
(* offsets, their order is the order of the numbers, and the length of the *)
(* oldest one is its end minus the offset everything before it reached.    *)
(*                                                                         *)
(* The stream itself is hyperdht's, outside the repository: writes are     *)
(* acknowledged in order, a drain callback is skipped once the stream has  *)
(* closed (pipe.cpp:155-157), the close callback fires once.               *)
(***************************************************************************)
EXTENDS Integers, FiniteSets

CONSTANTS
    HighWaterMark,        \* kHighWaterMark: queued toward the local socket
    StreamHighWaterMark,  \* kStreamHighWaterMark: unacked toward the stream
    MaxChunk,             \* largest read of the local socket (scratch_)
    MaxData,              \* largest delivery of the stream
    MaxOut,               \* bound: bytes the local application ever sends
    MaxIn                 \* bound: bytes the remote side ever sends

ASSUME MarksAssumption ==
    /\ HighWaterMark \in Nat \ {0}
    /\ StreamHighWaterMark \in Nat \ {0}
ASSUME SizesAssumption ==
    /\ MaxChunk \in Nat \ {0}
    /\ MaxData \in Nat \ {0}
    /\ MaxOut \in Nat
    /\ MaxIn \in Nat

VARIABLES
    \* the members of TcpPipe
    tcp,            \* tcp_, with what libuv knows of the handle
    reading,        \* reading_
    streamPaused,   \* stream_paused_
    streamClosed,   \* stream_closed_
    destroyed,      \* destroyed_
    gone,           \* on_destroy_ has fired: the owner may free the pipe
    streamPending,  \* stream_pending_bytes_
    pendingBytes,   \* pending_bytes_
    inflight,       \* inflight_writes_
    \* the local socket
    localEof,       \* the local application has ended its side
    queued,         \* end of the last chunk given to uv_write
    flushed,        \* end of the last chunk the kernel took
    writes,         \* ends of the chunks whose write_cb has not run
    \* the encrypted stream
    read,           \* bytes read from the local socket
    sent,           \* end of the last chunk the stream accepted
    acked,          \* end of the last chunk whose drain callback ran
    drains,         \* ends of the chunks whose drain callback is owed
    sPaused,        \* the stream has been told to stop delivering
    sEnded,         \* the stream has been told to close
    sClosed,        \* the stream's close callback has run
    \* history
    cause           \* what made destroy() run

lifeVars == <<tcp, reading, destroyed, gone, sEnded, cause>>
endVars  == <<localEof, streamClosed, sClosed>>
upVars   == <<streamPending, read, sent, acked, drains>>
downVars == <<pendingBytes, inflight, queued, flushed, writes, streamPaused,
              sPaused>>
vars     == <<lifeVars, endVars, upVars, downVars>>

\* tcp_ is null before connect()/adopt() ("new"), after a failed uv_tcp_init
\* ("none") and after closed_cb ("closed"); closing_ is "closing".
TcpStates == {"new", "none", "connecting", "open", "closing", "closed"}
HasHandle == tcp \in {"connecting", "open", "closing"}

\* Why destroy() ran: everything flushed after the stream closed, a failed
\* connect, an error of the local socket, a failed write to it, a write the
\* stream refused, or the owner.
Causes == {"none", "flushed", "connect", "local", "write", "stream", "owner"}

TypeOK ==
    /\ tcp \in TcpStates
    /\ reading \in BOOLEAN
    /\ streamPaused \in BOOLEAN
    /\ streamClosed \in BOOLEAN
    /\ destroyed \in BOOLEAN
    /\ gone \in BOOLEAN
    /\ streamPending \in Nat
    /\ pendingBytes \in Nat
    /\ inflight \in Nat
    /\ localEof \in BOOLEAN
    /\ queued \in Nat
    /\ flushed \in Nat
    /\ writes \in SUBSET Nat
    /\ read \in Nat
    /\ sent \in Nat
    /\ acked \in Nat
    /\ drains \in SUBSET Nat
    /\ sPaused \in BOOLEAN
    /\ sEnded \in BOOLEAN
    /\ sClosed \in BOOLEAN
    /\ cause \in Causes

Init ==
    /\ tcp = "new"
    /\ reading = FALSE
    /\ streamPaused = FALSE
    /\ streamClosed = FALSE
    /\ destroyed = FALSE
    /\ gone = FALSE
    /\ streamPending = 0
    /\ pendingBytes = 0
    /\ inflight = 0
    /\ localEof = FALSE
    /\ queued = 0
    /\ flushed = 0
    /\ writes = {}
    /\ read = 0
    /\ sent = 0
    /\ acked = 0
    /\ drains = {}
    /\ sPaused = FALSE
    /\ sEnded = FALSE
    /\ sClosed = FALSE
    /\ cause = "none"

-----------------------------------------------------------------------------
(* Helpers the callbacks share.                                            *)

\* `a -= min(n, a)`, the saturating subtraction of every counter.
Less(a, n) == IF n < a THEN a - n ELSE 0

\* m is the oldest of the outstanding chunks S.
Oldest(m, S) == m \in S /\ \A k \in S : m <= k

\* Mutants: on_destroy_ does not wait for the handle; without a handle to
\* wait for, it is forgotten; the stream is left open.
DestroyFiresEarly(why) ==
    IF destroyed
    THEN UNCHANGED lifeVars
    ELSE /\ destroyed' = TRUE /\ reading' = FALSE /\ sEnded' = TRUE
         /\ cause' = why /\ gone' = TRUE
         /\ tcp' = IF HasHandle THEN "closing" ELSE tcp
DestroyNoCallback(why) ==
    IF destroyed
    THEN UNCHANGED lifeVars
    ELSE /\ destroyed' = TRUE /\ reading' = FALSE /\ sEnded' = TRUE
         /\ cause' = why /\ gone' = gone
         /\ tcp' = IF HasHandle THEN "closing" ELSE tcp

DestroyKeepsStream(why) ==
    IF destroyed
    THEN UNCHANGED lifeVars
    ELSE /\ destroyed' = TRUE /\ reading' = FALSE /\ sEnded' = sEnded
         /\ cause' = why /\ gone' = (gone \/ ~HasHandle)
         /\ tcp' = IF HasHandle THEN "closing" ELSE tcp

\* destroy(): idempotent; stops reading, closes the stream, then either waits
\* for closed_cb or, with no handle to wait for, fires on_destroy_ at once.
Destroy(why) ==
    IF destroyed
    THEN UNCHANGED lifeVars
    ELSE /\ destroyed' = TRUE
         /\ reading' = FALSE
         /\ sEnded' = TRUE
         /\ cause' = why
         /\ IF HasHandle
            THEN tcp' = "closing" /\ gone' = gone
            ELSE tcp' = tcp /\ gone' = TRUE

\* Mutant: the write count is not looked at.
FlushFinishedEarly(closed, left) ==
    IF closed THEN Destroy("flushed") ELSE UNCHANGED lifeVars

\* flush_finished(), with the write count it reads.
FlushFinished(closed, left) ==
    IF closed /\ left = 0 THEN Destroy("flushed") ELSE UNCHANGED lifeVars

-----------------------------------------------------------------------------
(* The pipe's own part of a callback, whatever StreamSide it is given.     *)

\* Mutant: stop after every chunk, as if rc = 0 meant backpressure.
PipeReadStopAndWait(len) ==
    /\ streamPending' = streamPending + len
    /\ reading' = FALSE
    /\ UNCHANGED <<destroyed, sEnded, tcp, gone, cause>>

\* Mutant: never stop.
PipeReadUnbounded(len) ==
    /\ streamPending' = streamPending + len
    /\ UNCHANGED <<reading, destroyed, sEnded, tcp, gone, cause>>

\* read_cb with nread > 0, after stream_.write returned rc >= 0.
PipeReadSubmitted(len) ==
    /\ streamPending' = streamPending + len
    /\ reading' = (streamPending' < StreamHighWaterMark)
    /\ UNCHANGED <<destroyed, sEnded, tcp, gone, cause>>

\* read_cb with nread > 0, after stream_.write returned rc < 0.
PipeReadRejected(len) ==
    /\ streamPending' = Less(streamPending + len, len)
    /\ Destroy("stream")

\* Mutants: any drain clears the count; it never resumes the socket; it
\* resumes whatever the state of the pipe.
PipeDrainClears(len) ==
    /\ streamPending' = 0
    /\ reading' = (reading \/ (~destroyed /\ HasHandle))
PipeDrainNoResume(len) ==
    /\ streamPending' = Less(streamPending, len)
    /\ reading' = reading
PipeDrainUnguarded(len) ==
    /\ streamPending' = Less(streamPending, len)
    /\ reading' = (reading \/ (streamPending' < StreamHighWaterMark /\ HasHandle))

\* The drain lambda of read_cb, for a total of len bytes; resume_reading()
\* does nothing on a destroyed pipe or without a handle.
PipeDrain(len) ==
    /\ streamPending' = Less(streamPending, len)
    /\ reading' = (reading \/ ( /\ streamPending' < StreamHighWaterMark
                                /\ ~destroyed
                                /\ HasHandle ))

-----------------------------------------------------------------------------
(* Opening                                                                 *)

\* Server side, connect(): dial the local application.  It fails at
\* uv_tcp_init (no handle, and the pipe is not destroyed) or after it.
Connect ==
    /\ tcp = "new"
    /\ \/ tcp' \in {"connecting", "none"}
          /\ UNCHANGED <<destroyed, sEnded, cause>>
       \/ /\ tcp' = "closing"
          /\ destroyed' = TRUE /\ sEnded' = TRUE /\ cause' = "connect"
    /\ UNCHANGED <<reading, gone, endVars, upVars, downVars>>

\* Client side, adopt(): take over an accepted socket and read it at once.
Adopt ==
    /\ tcp = "new"
    /\ tcp' = "open"
    /\ reading' = TRUE
    /\ UNCHANGED <<destroyed, gone, sEnded, cause, endVars, upVars, downVars>>

ConnectCb ==
    /\ tcp = "connecting"
    /\ \/ /\ tcp' = "open" /\ reading' = TRUE
          /\ UNCHANGED <<destroyed, gone, sEnded, cause>>
       \/ Destroy("connect")
    /\ UNCHANGED <<endVars, upVars, downVars>>

-----------------------------------------------------------------------------
(* Local socket to stream                                                  *)

\* The guard of every read callback: libuv only calls it between
\* uv_read_start and uv_read_stop.
CanRead == tcp = "open" /\ reading

\* The stream accepts the chunk and owes a drain callback for it.
Submit(len) ==
    /\ ~sClosed
    /\ sent' = sent + len
    /\ drains' = drains \cup {sent + len}

ReadData ==
    /\ CanRead /\ ~localEof
    /\ \E len \in 1..MaxChunk :
          /\ read + len <= MaxOut
          /\ read' = read + len
          /\ \/ PipeReadSubmitted(len) /\ Submit(len)
             \/ PipeReadRejected(len) /\ UNCHANGED <<sent, drains>>
    /\ UNCHANGED <<endVars, acked, downVars>>

ReadEof ==
    /\ CanRead
    /\ localEof' = TRUE
    /\ reading' = FALSE
    /\ sEnded' = TRUE
    /\ UNCHANGED <<tcp, destroyed, gone, cause, streamClosed, sClosed, upVars,
                   downVars>>

ReadError ==
    /\ CanRead
    /\ Destroy("local")
    /\ UNCHANGED <<endVars, upVars, downVars>>

\* The stream acknowledges its oldest write.  The owner lets it through only
\* while the pipe exists (client.cpp:416; server.cpp:46-50).
Drain ==
    /\ ~sClosed /\ ~gone
    /\ \E m \in drains :
          /\ Oldest(m, drains)
          /\ acked' = m
          /\ drains' = drains \ {m}
          /\ PipeDrain(m - acked)
    /\ UNCHANGED <<tcp, destroyed, gone, sEnded, cause, endVars, read, sent,
                   downVars>>

-----------------------------------------------------------------------------
(* Stream to local socket                                                  *)

\* Mutant: pause one byte late.
PauseIfFullLate(bytes) ==
    IF ~streamPaused /\ bytes > HighWaterMark
    THEN streamPaused' = TRUE /\ sPaused' = TRUE
    ELSE UNCHANGED <<streamPaused, sPaused>>

\* The end of on_stream_data(): pause the stream once at the mark.
PauseIfFull(bytes) ==
    IF ~streamPaused /\ bytes >= HighWaterMark
    THEN streamPaused' = TRUE /\ sPaused' = TRUE
    ELSE UNCHANGED <<streamPaused, sPaused>>

\* Mutant: the flag is cleared but the stream is not told.
ResumeIfRoomSilently(bytes) ==
    /\ streamPaused' = (streamPaused /\ bytes >= HighWaterMark)
    /\ sPaused' = sPaused

\* write_cb with status 0: resume the stream below the mark.
ResumeIfRoom(bytes) ==
    IF streamPaused /\ bytes < HighWaterMark
    THEN streamPaused' = FALSE /\ sPaused' = FALSE
    ELSE UNCHANGED <<streamPaused, sPaused>>

\* Mutant: the write is not counted.
QueueWriteUncounted(len) ==
    /\ queued' = queued + len
    /\ writes' = writes \cup {queued + len}
    /\ pendingBytes' = pendingBytes + len
    /\ PauseIfFull(pendingBytes + len)
    /\ inflight' = inflight

\* on_stream_data() after uv_write took the chunk.
QueueWrite(len) ==
    /\ queued' = queued + len
    /\ writes' = writes \cup {queued + len}
    /\ inflight' = inflight + 1
    /\ pendingBytes' = pendingBytes + len
    /\ PauseIfFull(pendingBytes + len)

\* on_stream_data().  A pipe without a live handle ignores the bytes.
OnStreamData ==
    /\ ~sClosed /\ ~sPaused
    /\ ~destroyed /\ HasHandle      \* not destroyed: not closing either
    /\ \E len \in 1..MaxData :
          /\ queued + len <= MaxIn
          /\ \/ QueueWrite(len) /\ UNCHANGED lifeVars
             \/ /\ Destroy("local")         \* uv_write failed
                /\ UNCHANGED <<queued, writes, inflight, pendingBytes,
                               streamPaused, sPaused>>
    /\ UNCHANGED <<flushed, endVars, upVars>>

\* write_cb of the oldest write, with status 0.
WriteDone ==
    /\ tcp = "open"
    /\ \E m \in writes :
          /\ Oldest(m, writes)
          /\ flushed' = m
          /\ writes' = writes \ {m}
          /\ inflight' = inflight - 1
          /\ pendingBytes' = Less(pendingBytes, m - flushed)
          /\ ResumeIfRoom(pendingBytes')
          /\ FlushFinished(streamClosed, inflight')
    /\ UNCHANGED <<queued, endVars, upVars>>

\* write_cb of the oldest write, with an error.
WriteFailed ==
    /\ tcp = "open"
    /\ \E m \in writes :
          /\ Oldest(m, writes)
          /\ writes' = writes \ {m}
          /\ inflight' = inflight - 1
          /\ pendingBytes' = Less(pendingBytes, m - flushed)
    /\ Destroy("write")
    /\ UNCHANGED <<queued, flushed, streamPaused, sPaused, endVars, upVars>>

-----------------------------------------------------------------------------
(* Teardown                                                                *)

\* The stream's close callback reaches on_stream_close().
OnStreamClose ==
    /\ tcp # "new" /\ ~sClosed
    /\ sClosed' = TRUE
    /\ IF destroyed
       THEN streamClosed' = streamClosed /\ UNCHANGED lifeVars
       ELSE streamClosed' = TRUE /\ FlushFinished(TRUE, inflight)
    /\ UNCHANGED <<localEof, upVars, downVars>>

\* The owner tears the connection down.
OwnerDestroy ==
    /\ tcp # "new" /\ ~destroyed
    /\ Destroy("owner")
    /\ UNCHANGED <<endVars, upVars, downVars>>

\* libuv finishes closing the handle: the writes the kernel had already taken
\* (all those up to m) report status 0, the rest UV_ECANCELED, then closed_cb.
\* Nothing follows a write that failed.
CloseHandle ==
    /\ tcp = "closing"
    /\ \E m \in {flushed} \cup IF cause = "write" THEN {} ELSE writes :
          /\ flushed' = m
          /\ IF m = flushed
             THEN UNCHANGED <<streamPaused, sPaused>>
             ELSE ResumeIfRoom(Less(pendingBytes, m - flushed))
    /\ writes' = {}
    /\ inflight' = 0
    /\ pendingBytes' = 0
    /\ tcp' = "closed"
    /\ gone' = TRUE
    /\ UNCHANGED <<reading, destroyed, sEnded, cause, queued, endVars, upVars>>

-----------------------------------------------------------------------------

Next ==
    \/ Connect \/ Adopt \/ ConnectCb
    \/ ReadData \/ ReadEof \/ ReadError \/ Drain
    \/ OnStreamData \/ WriteDone \/ WriteFailed
    \/ OnStreamClose \/ OwnerDestroy \/ CloseHandle

Spec == Init /\ [][Next]_vars

\* What the loop owes the pipe: a connect, a queued write and a closing handle
\* are always answered, and the stream acknowledges what it accepted or closes.
Fairness ==
    /\ WF_vars(ConnectCb)
    /\ WF_vars(WriteDone \/ WriteFailed)
    /\ WF_vars(CloseHandle)
    /\ WF_vars(Drain)

FairSpec == Spec /\ Fairness

-----------------------------------------------------------------------------
(* Properties                                                              *)

\* The three counters the pipe decides by are what is really outstanding:
\* bytes the stream has not acknowledged, bytes uv_write has not reported and
\* the number of writes (pipe.cpp:136-146, 182-199).
CountersExact ==
    ~destroyed => /\ streamPending = sent - acked
                  /\ pendingBytes = queued - flushed
                  /\ inflight = Cardinality(writes)

\* A live pipe that has stopped reading its socket is owed a drain callback
\* that will start it again (pipe.cpp:142-143, 153-158): it never stalls on
\* a count that nothing outstanding can lower.
StoppedIsOwedADrain ==
    tcp = "open" /\ ~reading /\ ~localEof =>
        streamPending >= StreamHighWaterMark /\ drains # {}

\* The stream is paused exactly while the queue toward the local socket is at
\* its mark, and then a write is outstanding whose callback resumes it
\* (pipe.cpp:184-187, 205-208).
PausedIsOwedAWrite ==
    ~destroyed => /\ sPaused = streamPaused
                  /\ sPaused <=> pendingBytes >= HighWaterMark
                  /\ sPaused => writes # {}

\* Neither direction piles up: at most one chunk beyond its mark
\* (pipe.hpp:34-49).
WindowsBounded ==
    /\ sent - acked < StreamHighWaterMark + MaxChunk
    /\ queued - flushed < HighWaterMark + MaxData

\* Once destroyed, the pipe neither reads nor writes again, whatever callback
\* is still to come: no drain restarts a socket being closed (pipe.cpp:97-100).
DestroyedStaysQuiet ==
    [][destroyed => /\ ~reading'
                    /\ UNCHANGED <<destroyed, read, sent, queued, cause>>]_vars

\* A connection always comes to its end: once the stream has closed, or the
\* pipe is destroyed, on_destroy_ fires (pipe.cpp:212-260).
TeardownCompletes == (sClosed \/ destroyed) ~> gone

\* Backpressure is temporary: a socket that is not read is read again, unless
\* its application has ended or the connection does.
ReadingResumes ==
    (tcp = "open" /\ ~reading) ~> (reading \/ localEof \/ destroyed \/ sClosed)

\* A paused stream is resumed or the pipe is gone.
PauseEnds == sPaused ~> (~sPaused \/ gone)

(* The pipe implements the Bridge.                                         *)

BridgePhase ==
    CASE cause = "flushed"           -> "finished"
      [] cause \notin {"none", "flushed"} -> "aborted"
      [] cause = "none" /\ streamClosed  -> "finishing"
      [] OTHER                       -> "open"

B == INSTANCE Bridge WITH
        OutWindow <- StreamHighWaterMark + MaxChunk - 1,
        InWindow  <- HighWaterMark + MaxData - 1,
        taken     <- sent,
        settled   <- acked,
        arrived   <- queued,
        handed    <- flushed,
        phase     <- BridgePhase

\* Every behaviour of the pipe is one of a Bridge: in order, nothing skipped,
\* windows kept, and the remote side's last bytes handed over before an
\* orderly end (pipe.cpp:219-225).
ImplementsBridge == B!BridgeSpec
=============================================================================
