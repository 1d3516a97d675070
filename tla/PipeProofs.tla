----------------------------- MODULE PipeProofs -----------------------------
(***************************************************************************)
(* Proofs about TcpPipe and about ServerConn, which extends it, for every  *)
(* value of their constants.                                               *)
(*                                                                         *)
(* The pipe: the counters are exact, neither side can be stopped for good, *)
(* both windows are bounded.  None of these facts is inductive alone.      *)
(* What makes a pause temporary is that the count it was decided by is the *)
(* sum of the chunks that are still outstanding, and that the last chunk   *)
(* is always among them; IInv says so for each direction (Up, Down), with  *)
(* what the handle and the flags have to do with each other (Life).        *)
(* Nothing in this part uses what ServerConn adds or assumes.              *)
(*                                                                         *)
(* The server's connection: no byte of the service is unaccounted for      *)
(* across the greeting, its flush and its losses, the service is never     *)
(* stopped for good, nothing is freed early, and the connection keeps the  *)
(* contract of the Bridge.  The pipe's invariant does not hold of it as it *)
(* stands: what the pipe counts as outstanding is also in the buffer or    *)
(* lost.  Life and Down do hold, by the pipe's own lemmas; Greeting and    *)
(* Owed take the place of Up.                                              *)
(***************************************************************************)
EXTENDS ServerConn, FiniteSetTheorems, TLAPS

-----------------------------------------------------------------------------
(* Outstanding chunks as sets of their end offsets.                        *)

\* S holds the ends of the chunks that tile the bytes lo+1 .. hi.
Chunks(S, lo, hi) ==
    /\ lo <= hi
    /\ \A k \in S : k \in (lo + 1)..hi
    /\ lo < hi => hi \in S

\* A new chunk goes at the end (read_cb, on_stream_data).
LEMMA ChunksAdd ==
    ASSUME NEW lo \in Nat, NEW hi \in Nat, NEW S, Chunks(S, lo, hi),
           NEW len \in Nat \ {0}
    PROVE  /\ Chunks(S \cup {hi + len}, lo, hi + len)
           /\ hi + len \notin S
BY DEF Chunks

\* The oldest chunk leaves from the front (the drain lambda, write_cb).
LEMMA ChunksTake ==
    ASSUME NEW lo \in Nat, NEW hi \in Nat, NEW S, Chunks(S, lo, hi),
           NEW m, Oldest(m, S)
    PROVE  /\ m \in Nat /\ lo < m /\ m <= hi
           /\ Chunks(S \ {m}, m, hi)
<1>1. m \in (lo + 1)..hi /\ \A k \in S : m <= k
  BY DEF Chunks, Oldest
<1>2. \A k \in S \ {m} : k \in (m + 1)..hi
  BY <1>1 DEF Chunks
<1>3. m < hi => hi \in S \ {m}
  BY <1>1 DEF Chunks
<1> QED
  BY <1>1, <1>2, <1>3 DEF Chunks

\* There are finitely many, so counting them means something.
LEMMA ChunksFinite ==
    ASSUME NEW lo \in Nat, NEW hi \in Nat, NEW S, Chunks(S, lo, hi)
    PROVE  IsFiniteSet(S)
<1>1. IsFiniteSet((lo + 1)..hi)
  BY FS_Interval
<1>2. S \subseteq (lo + 1)..hi
  BY DEF Chunks
<1> QED
  BY <1>1, <1>2, FS_Subset

\* No chunk, no byte (flush_finished).
LEMMA ChunksNone ==
    ASSUME NEW lo \in Nat, NEW hi \in Nat, NEW S, Chunks(S, lo, hi),
           Cardinality(S) = 0
    PROVE  lo = hi
<1>1. S = {}
  BY ChunksFinite, FS_EmptySet
<1> QED
  BY <1>1 DEF Chunks

-----------------------------------------------------------------------------
(* The inductive invariant.                                                *)

Life ==
    /\ reading => tcp = "open"
    /\ tcp \in {"new", "connecting", "open"} => ~destroyed
    /\ tcp \in {"closing", "closed"} => destroyed
    /\ gone => destroyed
    /\ destroyed <=> cause # "none"
    /\ streamClosed => sClosed
    /\ tcp \in {"new", "none", "connecting"} => sent = 0 /\ acked = 0

Up ==
    /\ Chunks(drains, acked, sent)
    /\ ~destroyed => streamPending = sent - acked
    /\ reading => streamPending < StreamHighWaterMark
    /\ sent - acked < StreamHighWaterMark + MaxChunk
    /\ StoppedIsOwedADrain

Down ==
    /\ \A k \in writes : k \in (flushed + 1)..queued
    /\ flushed <= queued
    /\ ~destroyed => /\ Chunks(writes, flushed, queued)
                     /\ pendingBytes = queued - flushed
                     /\ inflight = Cardinality(writes)
    /\ PausedIsOwedAWrite
    /\ queued - flushed < HighWaterMark + MaxData
    /\ cause = "flushed" => flushed = queued

IInv == TypeOK /\ Life /\ Up /\ Down

USE MarksAssumption, SizesAssumption DEF MarksAssumption, SizesAssumption

LEMMA InitIInv == Init => IInv
<1> SUFFICES ASSUME Init PROVE IInv
  OBVIOUS
<1>1. Cardinality({}) = 0
  BY FS_EmptySet
<1>2. TypeOK /\ Life
  BY DEF Init, TypeOK, TcpStates, Causes, Life
<1>3. Up
  BY DEF Init, Up, Chunks, StoppedIsOwedADrain
<1>4. PausedIsOwedAWrite
  <2>1. ~sPaused /\ ~streamPaused /\ sPaused = streamPaused
    BY DEF Init
  <2>2. ~(pendingBytes >= HighWaterMark)
    BY DEF Init
  <2> QED
    BY <2>1, <2>2 DEF PausedIsOwedAWrite
<1>5. Down
  BY <1>1, <1>4 DEF Init, Down, Chunks
<1> QED
  BY <1>2, <1>3, <1>5 DEF IInv

\* A step that leaves a direction alone, and does no more to the pipe than
\* destroy it, keeps that direction's part.  (Destroy(why) of a pipe already
\* destroyed changes nothing, so it covers the steps that do not destroy.)
UpUntouched ==
    /\ UNCHANGED <<streamPending, sent, acked, drains, localEof>>
    /\ \/ UNCHANGED <<tcp, reading, destroyed>>
       \/ ~reading' /\ destroyed' /\ tcp' # "open"

LEMMA UpFrame == Up /\ UpUntouched => Up'
BY DEF Up, UpUntouched, Chunks, StoppedIsOwedADrain

DownUntouched ==
    /\ UNCHANGED <<pendingBytes, inflight, queued, flushed, writes, sPaused,
                   streamPaused>>
    /\ \/ UNCHANGED <<destroyed, cause>>
       \/ destroyed' /\ cause' # "flushed"

LEMMA DownFrame == Down /\ DownUntouched => Down'
BY DEF Down, DownUntouched, Chunks, PausedIsOwedAWrite

\* What destroy() does to a pipe that has a handle or none.
LEMMA DestroyEffect ==
    ASSUME NEW why, Destroy(why), ~destroyed, tcp \in TcpStates
    PROVE  /\ destroyed' /\ ~reading' /\ cause' = why
           /\ tcp' \in {"closing", tcp} /\ (tcp = "open" => tcp' = "closing")
BY DEF Destroy, HasHandle

-----------------------------------------------------------------------------
(* Preservation, one lemma per part; each has one step per action.         *)

LifeTypes ==
    /\ tcp \in TcpStates
    /\ reading \in BOOLEAN
    /\ destroyed \in BOOLEAN
    /\ gone \in BOOLEAN
    /\ sEnded \in BOOLEAN
    /\ cause \in Causes

\* destroy() run or not, the life of the pipe keeps its types.
LEMMA DestroyTypes ==
    ASSUME LifeTypes, NEW why \in Causes, Destroy(why) \/ UNCHANGED lifeVars
    PROVE  LifeTypes'
<1>1. CASE UNCHANGED lifeVars
  BY <1>1 DEF lifeVars, LifeTypes
<1>2. CASE Destroy(why) /\ ~destroyed
  <2>1. /\ destroyed' = TRUE /\ reading' = FALSE /\ sEnded' = TRUE /\ cause' = why
        /\ \/ tcp' = "closing" /\ gone' = gone
           \/ tcp' = tcp /\ gone' = TRUE
    BY <1>2 DEF Destroy
  <2> QED
    BY <2>1 DEF LifeTypes, TcpStates
<1> QED
  BY <1>1, <1>2 DEF Destroy

\* No action leaves the types; only the write count could, and Down bounds it.
LEMMA TypePreserved ==
    ASSUME TypeOK, Life, Down, Chunks(drains, acked, sent), [Next]_vars
    PROVE  TypeOK'
<1> USE DEF TypeOK, TcpStates, Causes, HasHandle, lifeVars, endVars, upVars,
            downVars
<1>0. LifeTypes
  BY DEF LifeTypes
<1>d. ASSUME NEW why \in Causes, Destroy(why) \/ UNCHANGED lifeVars
      PROVE  LifeTypes'
  BY <1>0, <1>d, DestroyTypes
<1>1. CASE Connect
  <2>1. tcp' \in TcpStates /\ cause' \in Causes
    BY <1>1 DEF Connect
  <2>2. destroyed' \in BOOLEAN /\ sEnded' \in BOOLEAN
    BY <1>1 DEF Connect
  <2> QED
    BY <1>1, <2>1, <2>2 DEF Connect
<1>2. CASE Adopt
  BY <1>2 DEF Adopt
<1>3. CASE ConnectCb
  <2>1. CASE Destroy("connect")
    BY <1>3, <1>d, <2>1 DEF ConnectCb, LifeTypes
  <2>2. CASE ~Destroy("connect")
    BY <1>3, <2>2 DEF ConnectCb
  <2> QED
    BY <2>1, <2>2
<1>4. CASE ReadData
  <2>1. PICK len \in 1..MaxChunk :
          /\ read' = read + len
          /\ \/ PipeReadSubmitted(len) /\ Submit(len)
             \/ PipeReadRejected(len) /\ UNCHANGED <<sent, drains>>
    BY <1>4 DEF ReadData
  <2>2. len \in Nat
    BY <2>1
  <2>3. CASE PipeReadSubmitted(len) /\ Submit(len)
    BY <1>4, <2>1, <2>2, <2>3 DEF ReadData, PipeReadSubmitted, Submit
  <2>4. CASE PipeReadRejected(len) /\ UNCHANGED <<sent, drains>>
    <3>1. LifeTypes'
      BY <1>d, <2>4 DEF PipeReadRejected
    <3>2. streamPending' \in Nat
      BY <2>2, <2>4 DEF PipeReadRejected, Less
    <3> QED
      BY <1>4, <2>1, <2>2, <2>4, <3>1, <3>2 DEF ReadData, LifeTypes
  <2> QED
    BY <2>1, <2>3, <2>4
<1>5. CASE ReadEof
  BY <1>5 DEF ReadEof
<1>6. CASE ReadError
  BY <1>6, <1>d DEF ReadError, LifeTypes
<1>7. CASE Drain
  <2>1. PICK m \in drains : Oldest(m, drains) /\ acked' = m
                            /\ drains' = drains \ {m} /\ PipeDrain(m - acked)
    BY <1>7 DEF Drain
  <2>2. m \in Nat /\ acked < m
    BY <2>1, ChunksTake
  <2> QED
    BY <1>7, <2>1, <2>2 DEF Drain, PipeDrain, Less
<1>8. CASE OnStreamData
  <2>1. PICK len \in 1..MaxData :
          \/ QueueWrite(len) /\ UNCHANGED lifeVars
          \/ /\ Destroy("local")
             /\ UNCHANGED <<queued, writes, inflight, pendingBytes,
                            streamPaused, sPaused>>
    BY <1>8 DEF OnStreamData
  <2>2. len \in Nat
    BY <2>1
  <2>3. CASE QueueWrite(len) /\ UNCHANGED lifeVars
    <3>1. streamPaused' \in BOOLEAN /\ sPaused' \in BOOLEAN
      BY <2>3 DEF QueueWrite, PauseIfFull
    <3>2. queued' \in Nat /\ inflight' \in Nat /\ pendingBytes' \in Nat
            /\ writes' \in SUBSET Nat
      BY <2>2, <2>3 DEF QueueWrite
    <3> QED
      BY <1>8, <2>3, <3>1, <3>2 DEF OnStreamData
  <2>4. CASE Destroy("local") /\ UNCHANGED <<queued, writes, inflight, pendingBytes,
                                             streamPaused, sPaused>>
    BY <1>8, <1>d, <2>4 DEF OnStreamData, LifeTypes
  <2> QED
    BY <2>1, <2>3, <2>4
<1>9. ASSUME NEW m \in writes, Oldest(m, writes), tcp = "open"
      PROVE  /\ m \in Nat /\ flushed < m /\ inflight - 1 \in Nat
             /\ Less(pendingBytes, m - flushed) \in Nat
  <2>1. m \in Nat /\ flushed < m /\ IsFiniteSet(writes)
    BY <1>9, ChunksTake, ChunksFinite DEF Down, Life
  <2>2. inflight # 0
    BY <1>9, <2>1, FS_EmptySet DEF Down, Life
  <2> QED
    BY <2>1, <2>2 DEF Less
<1>10. CASE WriteDone
  <2>1. PICK m \in writes :
          /\ Oldest(m, writes) /\ flushed' = m /\ writes' = writes \ {m}
          /\ inflight' = inflight - 1
          /\ pendingBytes' = Less(pendingBytes, m - flushed)
          /\ ResumeIfRoom(pendingBytes')
          /\ FlushFinished(streamClosed, inflight')
    BY <1>10 DEF WriteDone
  <2>2. LifeTypes'
    BY <1>d, <2>1 DEF FlushFinished
  <2>3. streamPaused' \in BOOLEAN /\ sPaused' \in BOOLEAN
    BY <2>1 DEF ResumeIfRoom
  <2> QED
    BY <1>9, <1>10, <2>1, <2>2, <2>3 DEF WriteDone, LifeTypes
<1>11. CASE WriteFailed
  <2>1. PICK m \in writes :
          /\ Oldest(m, writes) /\ writes' = writes \ {m}
          /\ inflight' = inflight - 1
          /\ pendingBytes' = Less(pendingBytes, m - flushed)
    BY <1>11 DEF WriteFailed
  <2>2. LifeTypes'
    BY <1>d, <1>11 DEF WriteFailed
  <2> QED
    BY <1>9, <1>11, <2>1, <2>2 DEF WriteFailed, LifeTypes
<1>12. CASE OnStreamClose
  <2>1. LifeTypes'
    BY <1>d, <1>12 DEF OnStreamClose, FlushFinished
  <2> QED
    BY <1>12, <2>1 DEF OnStreamClose, LifeTypes
<1>13. CASE OwnerDestroy
  BY <1>13, <1>d DEF OwnerDestroy, LifeTypes
<1>14. CASE CloseHandle
  BY <1>14 DEF CloseHandle, ResumeIfRoom
<1>15. CASE UNCHANGED vars
  BY <1>15 DEF vars
<1> QED
  BY <1>1, <1>2, <1>3, <1>4, <1>5, <1>6, <1>7, <1>8, <1>10, <1>11, <1>12,
     <1>13, <1>14, <1>15 DEF Next

\* The flags follow the handle.
LEMMA LifePreserved ==
    ASSUME TypeOK, Life, Chunks(drains, acked, sent), [Next]_vars
    PROVE  Life'
<1> USE DEF TypeOK, Life, lifeVars, endVars, upVars, Destroy, HasHandle
<1>1. CASE Connect
  BY <1>1 DEF Connect, TcpStates
<1>2. CASE Adopt
  BY <1>2 DEF Adopt
<1>3. CASE ConnectCb
  BY <1>3 DEF ConnectCb
<1>4. CASE ReadData
  BY <1>4 DEF ReadData, CanRead, PipeReadSubmitted, PipeReadRejected
<1>5. CASE ReadEof
  BY <1>5 DEF ReadEof, CanRead
<1>6. CASE ReadError
  BY <1>6 DEF ReadError, CanRead
<1>7. CASE Drain
  <2>1. PICK k \in drains : k \in (acked + 1)..sent
    BY <1>7 DEF Drain, Chunks
  <2>2. tcp \notin {"new", "none", "connecting"}
    BY <2>1
  <2>3. reading' => reading \/ (~destroyed /\ tcp \in {"connecting", "open", "closing"})
    BY <1>7 DEF Drain, PipeDrain
  <2>4. reading' => tcp = "open"
    BY <2>2, <2>3
  <2>5. UNCHANGED <<tcp, destroyed, gone, cause, streamClosed, sClosed>>
    BY <1>7 DEF Drain
  <2> QED
    BY <2>2, <2>4, <2>5
<1>8. CASE OnStreamData
  BY <1>8 DEF OnStreamData
<1>9. CASE WriteDone
  BY <1>9 DEF WriteDone, FlushFinished
<1>10. CASE WriteFailed
  BY <1>10 DEF WriteFailed
<1>11. CASE OnStreamClose
  BY <1>11 DEF OnStreamClose, FlushFinished, TcpStates
<1>12. CASE OwnerDestroy
  BY <1>12 DEF OwnerDestroy, TcpStates
<1>13. CASE CloseHandle
  BY <1>13 DEF CloseHandle
<1>14. CASE UNCHANGED vars
  BY <1>14 DEF vars
<1> QED
  BY <1>1, <1>2, <1>3, <1>4, <1>5, <1>6, <1>7, <1>8, <1>9, <1>10, <1>11,
     <1>12, <1>13, <1>14 DEF Next

\* Local socket to stream: what is counted is what is outstanding.
LEMMA UpPreserved ==
    ASSUME IInv, [Next]_vars
    PROVE  Up'
<1> USE DEF IInv
<1>0. Life /\ Up /\ TypeOK
  OBVIOUS
<1>d. ASSUME NEW why, Destroy(why) \/ UNCHANGED lifeVars
      PROVE  \/ UNCHANGED <<tcp, reading, destroyed>>
             \/ ~reading' /\ destroyed' /\ tcp' # "open"
  <2>1. CASE UNCHANGED lifeVars \/ destroyed
    BY <1>d, <2>1 DEF Destroy, lifeVars
  <2>2. CASE Destroy(why) /\ ~destroyed
    BY <1>0, <2>2, DestroyEffect DEF TypeOK
  <2> QED
    BY <1>d, <2>1, <2>2
<1>1. CASE Connect
  BY <1>0, <1>1 DEF Connect, Up, upVars, Chunks, StoppedIsOwedADrain
<1>2. CASE Adopt
  <2>1. streamPending = 0
    BY <1>0, <1>2 DEF Adopt, Up, Life, TypeOK
  <2> QED
    BY <1>0, <1>2, <2>1 DEF Adopt, Up, upVars, Chunks, StoppedIsOwedADrain
<1>3. CASE ConnectCb
  <2>1. CASE tcp' = "open" /\ reading' = TRUE /\ UNCHANGED <<destroyed, upVars>>
    <3>1. streamPending = 0
      BY <1>0, <1>3 DEF ConnectCb, Up, Life, TypeOK
    <3> QED
      BY <1>0, <2>1, <3>1 DEF Up, upVars, Chunks, StoppedIsOwedADrain
  <2>2. CASE Destroy("connect")
    <3>1. UpUntouched
      BY <1>d, <1>3, <2>2 DEF ConnectCb, UpUntouched, endVars, upVars
    <3> QED
      BY <1>0, <3>1, UpFrame
  <2> QED
    BY <1>3, <2>1, <2>2 DEF ConnectCb
<1>4. CASE ReadData
  <2>1. PICK len \in 1..MaxChunk :
          \/ PipeReadSubmitted(len) /\ Submit(len)
          \/ PipeReadRejected(len) /\ UNCHANGED <<sent, drains>>
    BY <1>4 DEF ReadData
  <2>2. /\ ~destroyed /\ reading /\ tcp = "open"
        /\ streamPending = sent - acked /\ streamPending < StreamHighWaterMark
        /\ UNCHANGED <<acked, localEof>>
    BY <1>0, <1>4 DEF ReadData, CanRead, Life, Up, endVars
  <2>3. CASE PipeReadSubmitted(len) /\ Submit(len)
    <3>1. /\ sent' = sent + len /\ drains' = drains \cup {sent + len}
          /\ streamPending' = streamPending + len
          /\ reading' = (streamPending' < StreamHighWaterMark)
          /\ UNCHANGED <<tcp, destroyed>>
      BY <2>3 DEF PipeReadSubmitted, Submit
    <3>2. Chunks(drains', acked', sent')
      <4>1. len \in Nat \ {0} /\ acked \in Nat /\ sent \in Nat /\ Chunks(drains, acked, sent)
        BY <1>0, <2>1 DEF Up, TypeOK
      <4>2. Chunks(drains \cup {sent + len}, acked, sent + len)
        BY <4>1, ChunksAdd
      <4> QED
        BY <2>2, <3>1, <4>2
    <3>3. /\ streamPending' = sent' - acked'
          /\ sent' - acked' < StreamHighWaterMark + MaxChunk
      BY <1>0, <2>2, <3>1 DEF TypeOK
    <3>4. reading' => streamPending' < StreamHighWaterMark
      BY <3>1
    <3>5. ~reading' => streamPending' >= StreamHighWaterMark /\ drains' # {}
      <4>1. streamPending' \in Nat
        BY <1>0, <2>1, <3>1 DEF TypeOK
      <4>2. ~reading' => ~(streamPending' < StreamHighWaterMark)
        BY <3>1
      <4>3. ~reading' => streamPending' >= StreamHighWaterMark
        BY <4>1, <4>2
      <4> QED
        BY <3>1, <4>3
    <3> QED
      BY <3>2, <3>3, <3>4, <3>5 DEF Up, StoppedIsOwedADrain
  <2>4. CASE PipeReadRejected(len) /\ UNCHANGED <<sent, drains>>
    <3>1. destroyed' /\ ~reading' /\ tcp' = "closing"
      BY <2>2, <2>4 DEF PipeReadRejected, Destroy, HasHandle
    <3> QED
      BY <1>0, <2>2, <2>4, <3>1 DEF Up, Chunks, StoppedIsOwedADrain
  <2> QED
    BY <2>1, <2>3, <2>4
<1>5. CASE ReadEof
  BY <1>0, <1>5 DEF ReadEof, Up, upVars, Chunks, StoppedIsOwedADrain
<1>6. CASE ReadError
  <2>1. UpUntouched
    BY <1>d, <1>6 DEF ReadError, UpUntouched, endVars, upVars
  <2> QED
    BY <1>0, <2>1, UpFrame
<1>7. CASE Drain
  <2>1. PICK m \in drains : Oldest(m, drains) /\ acked' = m
                            /\ drains' = drains \ {m} /\ PipeDrain(m - acked)
    BY <1>7 DEF Drain
  <2>2. UNCHANGED <<tcp, destroyed, localEof, sent>>
    BY <1>7 DEF Drain, endVars
  <2>3. m \in Nat /\ acked < m /\ m <= sent /\ Chunks(drains', acked', sent')
    BY <1>0, <2>1, <2>2, ChunksTake DEF Up, TypeOK
  <2>4. streamPending' = Less(streamPending, m - acked)
    BY <2>1 DEF PipeDrain
  <2>5. ~destroyed' => streamPending' = sent' - acked'
    BY <1>0, <2>1, <2>2, <2>3, <2>4 DEF Up, TypeOK, Less
  <2>6. streamPending' <= streamPending
    BY <1>0, <2>3, <2>4 DEF TypeOK, Less
  <2>7. reading' <=> reading \/ ( /\ streamPending' < StreamHighWaterMark
                                 /\ ~destroyed /\ HasHandle )
    BY <2>1 DEF PipeDrain
  <2>8. reading' => streamPending' < StreamHighWaterMark
    BY <1>0, <2>3, <2>4, <2>6, <2>7 DEF Up, TypeOK, Less
  <2>9. sent' - acked' < StreamHighWaterMark + MaxChunk
    BY <1>0, <2>1, <2>2, <2>3 DEF Up, TypeOK
  <2>10. StoppedIsOwedADrain'
    <3>1. SUFFICES ASSUME tcp = "open", ~reading'
                   PROVE  streamPending' >= StreamHighWaterMark /\ drains' # {}
      BY <2>2 DEF StoppedIsOwedADrain
    <3>2. ~destroyed /\ HasHandle
      BY <1>0, <3>1 DEF Life, HasHandle
    <3>3. streamPending' >= StreamHighWaterMark
      BY <1>0, <2>3, <2>4, <2>7, <3>1, <3>2 DEF TypeOK, Less
    <3>4. acked' < sent'
      BY <1>0, <2>1, <2>2, <2>3, <2>5, <3>2, <3>3 DEF TypeOK
    <3> QED
      BY <2>3, <3>3, <3>4 DEF Chunks
  <2> QED
    BY <2>3, <2>5, <2>8, <2>9, <2>10 DEF Up
<1>8. CASE OnStreamData
  <2>1. UNCHANGED <<streamPending, sent, acked, drains, localEof>>
    BY <1>8 DEF OnStreamData, endVars, upVars
  <2>2. UNCHANGED lifeVars \/ \E why : Destroy(why)
    BY <1>8 DEF OnStreamData
  <2> QED
    BY <1>0, <1>d, <2>1, <2>2, UpFrame DEF UpUntouched
<1>9. CASE WriteDone
  <2>1. UNCHANGED <<streamPending, sent, acked, drains, localEof>>
    BY <1>9 DEF WriteDone, endVars, upVars
  <2>2. UNCHANGED lifeVars \/ \E why : Destroy(why)
    BY <1>9 DEF WriteDone, FlushFinished
  <2> QED
    BY <1>0, <1>d, <2>1, <2>2, UpFrame DEF UpUntouched
<1>10. CASE WriteFailed
  <2>1. UNCHANGED <<streamPending, sent, acked, drains, localEof>>
    BY <1>10 DEF WriteFailed, endVars, upVars
  <2>2. UNCHANGED lifeVars \/ \E why : Destroy(why)
    BY <1>10 DEF WriteFailed
  <2> QED
    BY <1>0, <1>d, <2>1, <2>2, UpFrame DEF UpUntouched
<1>11. CASE OnStreamClose
  <2>1. UNCHANGED <<streamPending, sent, acked, drains, localEof>>
    BY <1>11 DEF OnStreamClose, endVars, upVars
  <2>2. UNCHANGED lifeVars \/ \E why : Destroy(why)
    BY <1>11 DEF OnStreamClose, FlushFinished
  <2> QED
    BY <1>0, <1>d, <2>1, <2>2, UpFrame DEF UpUntouched
<1>12. CASE OwnerDestroy
  <2>1. UNCHANGED <<streamPending, sent, acked, drains, localEof>>
    BY <1>12 DEF OwnerDestroy, endVars, upVars
  <2>2. UNCHANGED lifeVars \/ \E why : Destroy(why)
    BY <1>12 DEF OwnerDestroy
  <2> QED
    BY <1>0, <1>d, <2>1, <2>2, UpFrame DEF UpUntouched
<1>13. CASE CloseHandle
  BY <1>0, <1>13 DEF CloseHandle, Up, upVars, Life, Chunks, StoppedIsOwedADrain
<1>14. CASE UNCHANGED vars
  BY <1>0, <1>14, UpFrame DEF UpUntouched, vars, endVars, lifeVars, upVars
<1> QED
  BY <1>1, <1>2, <1>3, <1>4, <1>5, <1>6, <1>7, <1>8, <1>9, <1>10, <1>11,
     <1>12, <1>13, <1>14 DEF Next

\* Stream to local socket: the writes outstanding are the bytes queued, so the
\* queue is at its mark only while a write_cb is still to come, and an orderly
\* teardown has flushed everything.
LEMMA DownPreserved ==
    ASSUME TypeOK, Life, Down, [Next]_vars
    PROVE  Down'
<1>0. Life /\ Down /\ TypeOK
  OBVIOUS
<1>d. ASSUME NEW why, why # "flushed", Destroy(why) \/ UNCHANGED lifeVars
      PROVE  UNCHANGED <<destroyed, cause>> \/ (destroyed' /\ cause' # "flushed")
  BY <1>d DEF Destroy, lifeVars
<1>u. CASE DownUntouched
  BY <1>0, <1>u, DownFrame
<1>1. CASE Connect
  <2>1. DownUntouched
    BY <1>1 DEF Connect, DownUntouched, downVars
  <2> QED
    BY <1>u, <2>1
<1>2. CASE Adopt
  BY <1>u, <1>2 DEF Adopt, DownUntouched, downVars
<1>3. CASE ConnectCb
  <2>1. UNCHANGED <<destroyed, cause>> \/ (destroyed' /\ cause' # "flushed")
    BY <1>d, <1>3 DEF ConnectCb
  <2> QED
    BY <1>u, <1>3, <2>1 DEF ConnectCb, DownUntouched, downVars
<1>4. CASE ReadData
  <2>1. UNCHANGED <<destroyed, cause>> \/ (destroyed' /\ cause' # "flushed")
    BY <1>d, <1>4 DEF ReadData, PipeReadSubmitted, PipeReadRejected
  <2> QED
    BY <1>u, <1>4, <2>1 DEF ReadData, DownUntouched, downVars
<1>5. CASE ReadEof
  BY <1>u, <1>5 DEF ReadEof, DownUntouched, downVars
<1>6. CASE ReadError
  <2>1. UNCHANGED <<destroyed, cause>> \/ (destroyed' /\ cause' # "flushed")
    BY <1>d, <1>6 DEF ReadError
  <2> QED
    BY <1>u, <1>6, <2>1 DEF ReadError, DownUntouched, downVars
<1>7. CASE Drain
  BY <1>u, <1>7 DEF Drain, DownUntouched, downVars
<1>8. CASE OnStreamData
  <2>1. PICK len \in 1..MaxData :
          \/ QueueWrite(len) /\ UNCHANGED lifeVars
          \/ /\ Destroy("local")
             /\ UNCHANGED <<queued, writes, inflight, pendingBytes,
                            streamPaused, sPaused>>
    BY <1>8 DEF OnStreamData
  <2>2. ~destroyed /\ ~sPaused /\ UNCHANGED flushed /\ len \in Nat \ {0}
    BY <1>8, <2>1 DEF OnStreamData
  <2>3. CASE QueueWrite(len) /\ UNCHANGED lifeVars
    <3>1. /\ queued' = queued + len /\ writes' = writes \cup {queued + len}
          /\ inflight' = inflight + 1 /\ pendingBytes' = pendingBytes + len
          /\ UNCHANGED <<destroyed, cause>>
      BY <2>3 DEF QueueWrite, lifeVars
    <3>2. /\ Chunks(writes, flushed, queued) /\ pendingBytes = queued - flushed
          /\ inflight = Cardinality(writes) /\ cause # "flushed"
          /\ flushed \in Nat /\ queued \in Nat
          /\ pendingBytes \in Nat /\ pendingBytes < HighWaterMark
          /\ ~streamPaused
      BY <1>0, <2>2 DEF Down, Life, TypeOK, PausedIsOwedAWrite
    <3>3. Chunks(writes', flushed', queued') /\ queued + len \notin writes
      BY <2>2, <3>1, <3>2, ChunksAdd
    <3>4. inflight' = Cardinality(writes')
      BY <3>1, <3>2, <3>3, ChunksFinite, FS_AddElement
    <3>5. PausedIsOwedAWrite'
      <4>1. pendingBytes' = pendingBytes + len /\ writes' # {}
        BY <3>1
      <4>2. CASE pendingBytes + len >= HighWaterMark
        <5>1. sPaused' = TRUE /\ streamPaused' = TRUE
          BY <2>3, <3>2, <4>2 DEF QueueWrite, PauseIfFull
        <5> QED
          BY <4>1, <4>2, <5>1 DEF PausedIsOwedAWrite
      <4>3. CASE ~(pendingBytes + len >= HighWaterMark)
        <5>1. UNCHANGED <<sPaused, streamPaused>>
          BY <2>3, <4>3 DEF QueueWrite, PauseIfFull
        <5>2. ~sPaused' /\ sPaused' = streamPaused'
          BY <1>0, <2>2, <5>1 DEF Down, PausedIsOwedAWrite
        <5> QED
          BY <4>1, <4>3, <5>2 DEF PausedIsOwedAWrite
      <4> QED
        BY <4>2, <4>3
    <3>6. queued' - flushed' < HighWaterMark + MaxData /\ flushed' <= queued'
      BY <2>1, <2>2, <3>1, <3>2
    <3>7. pendingBytes' = queued' - flushed'
      BY <2>2, <3>1, <3>2
    <3> QED
      BY <3>1, <3>2, <3>3, <3>4, <3>5, <3>6, <3>7 DEF Down, Chunks
  <2>4. CASE Destroy("local") /\ UNCHANGED <<queued, writes, inflight, pendingBytes,
                                             streamPaused, sPaused>>
    <3>1. UNCHANGED <<destroyed, cause>> \/ (destroyed' /\ cause' # "flushed")
      BY <1>d, <2>4
    <3> QED
      BY <1>u, <2>2, <2>4, <3>1 DEF DownUntouched
  <2> QED
    BY <2>1, <2>3, <2>4
<1>9. ASSUME NEW m \in writes, Oldest(m, writes), tcp = "open"
      PROVE  /\ ~destroyed /\ m \in Nat /\ flushed < m /\ m <= queued
             /\ Chunks(writes \ {m}, m, queued)
             /\ inflight - 1 = Cardinality(writes \ {m})
             /\ Less(pendingBytes, m - flushed) = queued - m
             /\ flushed \in Nat /\ queued \in Nat
  <2>1. /\ ~destroyed /\ Chunks(writes, flushed, queued)
        /\ flushed \in Nat /\ queued \in Nat /\ inflight \in Nat
        /\ pendingBytes = queued - flushed /\ inflight = Cardinality(writes)
    BY <1>0, <1>9 DEF Down, Life, TypeOK
  <2>2. m \in Nat /\ flushed < m /\ m <= queued /\ Chunks(writes \ {m}, m, queued)
    BY <1>9, <2>1, ChunksTake
  <2>3. IsFiniteSet(writes)
    BY <2>1, ChunksFinite
  <2>4. Cardinality(writes \ {m}) = Cardinality(writes) - 1
    BY <1>9, <2>3, FS_RemoveElement
  <2> QED
    BY <2>1, <2>2, <2>4 DEF Less
<1>10. CASE WriteDone
  <2>1. PICK m \in writes :
          /\ Oldest(m, writes) /\ flushed' = m /\ writes' = writes \ {m}
          /\ inflight' = inflight - 1
          /\ pendingBytes' = Less(pendingBytes, m - flushed)
          /\ ResumeIfRoom(pendingBytes')
          /\ FlushFinished(streamClosed, inflight')
    BY <1>10 DEF WriteDone
  <2>2. tcp = "open" /\ UNCHANGED queued
    BY <1>10 DEF WriteDone
  <2>3. /\ ~destroyed /\ m \in Nat /\ flushed < m /\ m <= queued
        /\ Chunks(writes', m, queued) /\ inflight' = Cardinality(writes')
        /\ pendingBytes' = queued - m /\ flushed \in Nat /\ queued \in Nat
    BY <1>9, <2>1, <2>2
  <2>4. PausedIsOwedAWrite'
    <3>1. pendingBytes' \in Nat /\ (pendingBytes' > 0 => writes' # {})
      BY <2>3 DEF Chunks
    <3>2. /\ sPaused = streamPaused /\ (sPaused <=> pendingBytes >= HighWaterMark)
          /\ pendingBytes \in Nat /\ pendingBytes' <= pendingBytes
      BY <1>0, <2>3 DEF Down, PausedIsOwedAWrite, TypeOK
    <3>3. CASE streamPaused /\ pendingBytes' < HighWaterMark
      <4>1. sPaused' = FALSE /\ streamPaused' = FALSE
        BY <2>1, <3>3 DEF ResumeIfRoom
      <4>2. ~(pendingBytes' >= HighWaterMark)
        BY <3>1, <3>3
      <4> QED
        BY <4>1, <4>2 DEF PausedIsOwedAWrite
    <3>4. CASE ~(streamPaused /\ pendingBytes' < HighWaterMark)
      <4>1. UNCHANGED <<streamPaused, sPaused>>
        BY <2>1, <3>4 DEF ResumeIfRoom
      <4>2. sPaused <=> pendingBytes' >= HighWaterMark
        BY <3>1, <3>2, <3>4
      <4>3. sPaused => writes' # {}
        BY <3>1, <4>2
      <4> QED
        BY <3>2, <4>1, <4>2, <4>3 DEF PausedIsOwedAWrite
    <3> QED
      BY <3>3, <3>4
  <2>5. cause' = "flushed" => flushed' = queued'
    <3>1. cause # "flushed"
      BY <1>0, <2>3 DEF Life
    <3>2. CASE inflight' = 0
      BY <2>1, <2>2, <2>3, <3>2, ChunksNone
    <3>3. CASE inflight' # 0
      BY <2>1, <3>1, <3>3 DEF FlushFinished, lifeVars
    <3> QED
      BY <3>2, <3>3
  <2>6. queued' - flushed' < HighWaterMark + MaxData /\ flushed' <= queued'
    BY <1>0, <2>1, <2>2, <2>3 DEF Down
  <2>7. Chunks(writes', flushed', queued') /\ pendingBytes' = queued' - flushed'
    BY <2>1, <2>2, <2>3
  <2> QED
    BY <2>3, <2>4, <2>5, <2>6, <2>7 DEF Down, Chunks
<1>11. CASE WriteFailed
  <2>1. PICK m \in writes : writes' = writes \ {m}
    BY <1>11 DEF WriteFailed
  <2>2. UNCHANGED <<queued, flushed>> /\ ~destroyed
    BY <1>0, <1>11 DEF WriteFailed, Life
  <2>3. destroyed' /\ cause' = "write"
    BY <1>11, <2>2 DEF WriteFailed, Destroy
  <2> QED
    BY <1>0, <2>1, <2>2, <2>3 DEF Down, PausedIsOwedAWrite
<1>12. CASE OnStreamClose
  <2>1. UNCHANGED <<pendingBytes, inflight, queued, flushed, writes, sPaused,
                    streamPaused>>
    BY <1>12 DEF OnStreamClose, downVars
  <2>2. CASE UNCHANGED lifeVars
    BY <1>u, <2>1, <2>2 DEF DownUntouched, lifeVars
  <2>3. CASE ~destroyed /\ inflight = 0 /\ Destroy("flushed")
    <3>1. flushed = queued /\ destroyed'
      BY <1>0, <2>3, ChunksNone DEF Down, TypeOK, Destroy
    <3> QED
      BY <1>0, <2>1, <3>1 DEF Down, PausedIsOwedAWrite
  <2> QED
    BY <1>12, <2>2, <2>3 DEF OnStreamClose, FlushFinished
<1>13. CASE OwnerDestroy
  <2>1. UNCHANGED <<destroyed, cause>> \/ (destroyed' /\ cause' # "flushed")
    BY <1>d, <1>13 DEF OwnerDestroy
  <2> QED
    BY <1>u, <1>13, <2>1 DEF OwnerDestroy, DownUntouched, downVars
<1>14. CASE CloseHandle
  <2>1. PICK m \in {flushed} \cup IF cause = "write" THEN {} ELSE writes : flushed' = m
    BY <1>14 DEF CloseHandle
  <2>2. /\ destroyed /\ writes' = {} /\ UNCHANGED <<queued, destroyed, cause>>
    BY <1>0, <1>14 DEF CloseHandle, Life
  <2>3. flushed <= m /\ m <= queued /\ m \in Nat
    BY <1>0, <2>1 DEF Down, TypeOK
  <2> QED
    BY <1>0, <2>1, <2>2, <2>3 DEF Down, TypeOK, PausedIsOwedAWrite
<1>15. CASE UNCHANGED vars
  BY <1>u, <1>15 DEF DownUntouched, vars, downVars, lifeVars
<1> QED
  BY <1>1, <1>2, <1>3, <1>4, <1>5, <1>6, <1>7, <1>8, <1>10, <1>11, <1>12,
     <1>13, <1>14, <1>15 DEF Next

-----------------------------------------------------------------------------
(* The theorems.                                                           *)

LEMMA Inductive == IInv /\ [Next]_vars => IInv'
BY TypePreserved, LifePreserved, UpPreserved, DownPreserved DEF IInv, Up

LEMMA Invariance == Spec => []IInv
BY InitIInv, Inductive, PTL DEF Spec

\* Every variable keeps its type; in particular no counter of the pipe wraps
\* below zero, although inflight_writes_ is decremented without a test.
THEOREM TypeCorrect == Spec => []TypeOK
<1>1. IInv => TypeOK
  BY DEF IInv
<1> QED
  BY <1>1, Invariance, PTL

\* The counters the pipe decides by are what is really outstanding
\* (stream_pending_bytes_, pending_bytes_, inflight_writes_).
THEOREM CountersAreExact == Spec => []CountersExact
<1>1. IInv => CountersExact
  BY DEF IInv, Up, Down, CountersExact
<1> QED
  BY <1>1, Invariance, PTL

\* The local socket is never stopped without a drain callback to restart it.
THEOREM NeverStoppedForGood == Spec => []StoppedIsOwedADrain
<1>1. IInv => StoppedIsOwedADrain
  BY DEF IInv, Up
<1> QED
  BY <1>1, Invariance, PTL

\* The stream is never paused without a write callback to resume it.
THEOREM NeverPausedForGood == Spec => []PausedIsOwedAWrite
<1>1. IInv => PausedIsOwedAWrite
  BY DEF IInv, Down
<1> QED
  BY <1>1, Invariance, PTL

\* At most one chunk beyond the mark is ever outstanding, in each direction.
THEOREM WindowsAreBounded == Spec => []WindowsBounded
<1>1. IInv => WindowsBounded
  BY DEF IInv, Up, Down, WindowsBounded
<1> QED
  BY <1>1, Invariance, PTL

\* A destroyed pipe stays quiet: the guards of resume_reading() and
\* on_stream_data() suffice for every callback that may still arrive.
THEOREM QuietAfterDestroy == Spec => DestroyedStaysQuiet
<1>1. ASSUME IInv, [Next]_vars, destroyed
      PROVE  ~reading' /\ UNCHANGED <<destroyed, read, sent, queued, cause>>
  <2> USE DEF lifeVars, upVars, downVars
  <2>1. tcp \notin {"new", "connecting", "open"} /\ ~reading
    BY <1>1 DEF IInv, Life
  <2>2. ASSUME NEW why, Destroy(why) \/ UNCHANGED lifeVars
        PROVE  ~reading' /\ UNCHANGED <<destroyed, cause>>
    <3>1. UNCHANGED <<tcp, reading, destroyed, gone, sEnded, cause>>
      BY <1>1, <2>2 DEF Destroy
    <3> QED
      BY <2>1, <3>1
  <2>3. CASE Drain
    <3>1. UNCHANGED <<destroyed, read, sent, queued, cause>>
      BY <2>3 DEF Drain
    <3>2. ~reading'
      BY <1>1, <2>1, <2>3 DEF Drain, PipeDrain
    <3> QED
      BY <3>1, <3>2
  <2>4. CASE OnStreamClose
    BY <1>1, <2>1, <2>4 DEF OnStreamClose
  <2>5. CASE CloseHandle
    BY <2>1, <2>5 DEF CloseHandle
  <2>6. CASE UNCHANGED vars
    BY <2>1, <2>6 DEF vars
  <2> QED
    BY <1>1, <2>1, <2>3, <2>4, <2>5, <2>6
    DEF Next, Connect, Adopt, ConnectCb, ReadData, ReadEof, ReadError, CanRead,
        OnStreamData, WriteDone, WriteFailed, OwnerDestroy
<1>2. IInv /\ [Next]_vars =>
        [destroyed => ~reading' /\ UNCHANGED <<destroyed, read, sent, queued, cause>>]_vars
  BY <1>1
<1> QED
  BY <1>2, Invariance, PTL DEF Spec, DestroyedStaysQuiet

-----------------------------------------------------------------------------
(* Every step of the pipe is a step of the Bridge, or none.                *)

\* What of the invariant it takes; the pipe of ServerConn has as much.
Kept ==
    /\ TypeOK /\ Life /\ Down
    /\ Chunks(drains, acked, sent)
    /\ sent - acked < StreamHighWaterMark + MaxChunk

LEMMA PhaseKept ==
    ASSUME UNCHANGED <<cause, streamClosed>>
    PROVE  BridgePhase' = BridgePhase
BY DEF BridgePhase

\* destroy() for any reason but an orderly end is the Bridge's Abort.
LEMMA DestroyAborts ==
    ASSUME Life, NEW why \in Causes \ {"none", "flushed"},
           Destroy(why) \/ UNCHANGED lifeVars,
           UNCHANGED <<sent, acked, queued, flushed, streamClosed>>
    PROVE  B!Abort \/ UNCHANGED B!bridgeVars
<1>1. CASE UNCHANGED lifeVars \/ destroyed
  <2>1. UNCHANGED <<cause, streamClosed>>
    BY <1>1 DEF Destroy, lifeVars
  <2> QED
    BY <2>1, PhaseKept DEF B!bridgeVars
<1>2. CASE Destroy(why) /\ ~destroyed
  <2>1. cause = "none" /\ cause' = why
    BY <1>2 DEF Life, Destroy
  <2>2. BridgePhase' = "aborted"
    BY <2>1 DEF BridgePhase
  <2>3. BridgePhase \in {"open", "finishing"}
    BY <2>1 DEF BridgePhase
  <2> QED
    BY <2>2, <2>3 DEF B!Abort
<1> QED
  BY <1>1, <1>2

LEMMA BridgeStep ==
    ASSUME Kept, Kept', [Next]_vars
    PROVE  [B!BridgeNext]_(B!bridgeVars)
<1> USE DEF endVars, upVars, downVars
<1>1. SUFFICES B!BridgeNext \/ UNCHANGED B!bridgeVars
  OBVIOUS
<1>t. /\ sent \in Nat /\ acked \in Nat /\ queued \in Nat /\ flushed \in Nat
      /\ acked <= sent /\ flushed <= queued
      /\ sent' \in Nat /\ acked' \in Nat /\ queued' \in Nat /\ flushed' \in Nat
      /\ sent' - acked' < StreamHighWaterMark + MaxChunk
      /\ queued' - flushed' < HighWaterMark + MaxData
  BY DEF Kept, TypeOK, Down, Chunks
<1>a. ASSUME NEW why \in Causes \ {"none", "flushed"},
             Destroy(why) \/ UNCHANGED lifeVars,
             UNCHANGED <<sent, acked, queued, flushed, streamClosed>>
      PROVE  B!BridgeNext \/ UNCHANGED B!bridgeVars
  BY <1>a, DestroyAborts DEF Kept, B!BridgeNext
<1>s. ASSUME UNCHANGED <<sent, acked, queued, flushed, cause, streamClosed>>
      PROVE  UNCHANGED B!bridgeVars
  BY <1>s, PhaseKept DEF B!bridgeVars
<1>2. CASE Connect
  <2>1. UNCHANGED <<sent, acked, queued, flushed, streamClosed>>
    BY <1>2 DEF Connect
  <2>2. CASE cause' = cause
    BY <1>s, <2>1, <2>2
  <2>3. CASE cause' # cause
    <3>1. cause = "none" /\ cause' = "connect"
      BY <1>2, <2>3 DEF Connect, Kept, Life
    <3>2. BridgePhase' = "aborted" /\ BridgePhase \in {"open", "finishing"}
      BY <3>1 DEF BridgePhase
    <3> QED
      BY <2>1, <3>2 DEF B!Abort, B!BridgeNext
  <2> QED
    BY <2>2, <2>3
<1>3. CASE Adopt
  BY <1>3, <1>s DEF Adopt
<1>4. CASE ConnectCb
  <2>1. UNCHANGED <<sent, acked, queued, flushed, streamClosed>>
    BY <1>4 DEF ConnectCb
  <2>2. CASE Destroy("connect")
    BY <1>a, <2>1, <2>2 DEF Causes
  <2>3. CASE ~Destroy("connect")
    BY <1>4, <1>s, <2>1, <2>3 DEF ConnectCb
  <2> QED
    BY <2>2, <2>3
<1>5. CASE ReadData
  <2>1. PICK len \in 1..MaxChunk :
          \/ PipeReadSubmitted(len) /\ Submit(len)
          \/ PipeReadRejected(len) /\ UNCHANGED <<sent, drains>>
    BY <1>5 DEF ReadData
  <2>2. UNCHANGED <<acked, queued, flushed, streamClosed>>
    BY <1>5 DEF ReadData
  <2>3. CASE PipeReadSubmitted(len) /\ Submit(len)
    <3>1. sent' = sent + len /\ ~sClosed /\ UNCHANGED cause
      BY <2>3 DEF Submit, PipeReadSubmitted
    <3>2. cause = "none" /\ ~streamClosed
      BY <1>5, <3>1 DEF ReadData, CanRead, Kept, Life
    <3>3. BridgePhase = "open" /\ BridgePhase' = "open"
      BY <2>2, <3>1, <3>2 DEF BridgePhase
    <3>4. /\ len \in 1..(StreamHighWaterMark + MaxChunk - 1)
          /\ sent + len - acked <= StreamHighWaterMark + MaxChunk - 1
      BY <1>t, <2>2, <3>1
    <3>5. B!Take
      BY <2>2, <3>1, <3>3, <3>4 DEF B!Take
    <3> QED
      BY <3>5 DEF B!BridgeNext
  <2>4. CASE PipeReadRejected(len) /\ UNCHANGED <<sent, drains>>
    BY <1>a, <2>2, <2>4 DEF PipeReadRejected, Causes
  <2> QED
    BY <2>1, <2>3, <2>4
<1>6. CASE ReadEof
  BY <1>6, <1>s DEF ReadEof
<1>7. CASE ReadError
  BY <1>7, <1>a DEF ReadError, Causes
<1>8. CASE Drain
  <2>1. PICK m \in drains : Oldest(m, drains) /\ acked' = m
    BY <1>8 DEF Drain
  <2>2. m \in (acked + 1)..sent
    BY <1>t, <2>1 DEF Kept, Chunks
  <2>3. UNCHANGED <<sent, queued, flushed, cause, streamClosed>>
    BY <1>8 DEF Drain
  <2> QED
    BY <2>1, <2>2, <2>3, PhaseKept DEF B!Settle, B!BridgeNext
<1>9. CASE OnStreamData
  <2>1. UNCHANGED <<sent, acked, flushed, streamClosed>>
    BY <1>9 DEF OnStreamData
  <2>2. PICK len \in 1..MaxData :
          \/ QueueWrite(len) /\ UNCHANGED lifeVars
          \/ Destroy("local") /\ UNCHANGED queued
    BY <1>9 DEF OnStreamData
  <2>3. CASE QueueWrite(len) /\ UNCHANGED lifeVars
    <3>1. queued' = queued + len /\ UNCHANGED cause
      BY <2>3 DEF QueueWrite, lifeVars
    <3>2. cause = "none" /\ ~streamClosed
      BY <1>9 DEF OnStreamData, Kept, Life
    <3>3. BridgePhase = "open" /\ BridgePhase' = "open"
      BY <2>1, <3>1, <3>2 DEF BridgePhase
    <3>4. /\ len \in 1..(HighWaterMark + MaxData - 1)
          /\ queued + len - flushed <= HighWaterMark + MaxData - 1
      BY <1>t, <2>1, <3>1
    <3>5. B!Arrive
      BY <2>1, <3>1, <3>3, <3>4 DEF B!Arrive
    <3> QED
      BY <3>5 DEF B!BridgeNext
  <2>4. CASE Destroy("local") /\ UNCHANGED queued
    BY <1>a, <2>1, <2>4 DEF Causes
  <2> QED
    BY <2>2, <2>3, <2>4
<1>10. CASE WriteDone
  <2>1. PICK m \in writes : flushed' = m /\ FlushFinished(streamClosed, inflight')
    BY <1>10 DEF WriteDone
  <2>2. m \in (flushed + 1)..queued
    BY <1>t, <2>1 DEF Kept, Down
  <2>3. UNCHANGED <<sent, acked, queued, streamClosed>>
    BY <1>10 DEF WriteDone
  <2>4. CASE UNCHANGED cause
    BY <2>1, <2>2, <2>3, <2>4, PhaseKept DEF B!HandOver, B!BridgeNext
  <2>5. CASE cause' = "flushed" /\ ~destroyed
    <3>1. BridgePhase' = "finished"
      BY <2>5 DEF BridgePhase
    <3>2. BridgePhase \in {"open", "finishing"}
      BY <2>5 DEF BridgePhase, Kept, Life
    <3>3. flushed' = queued
      BY <2>3, <2>5 DEF Kept, Down
    <3> QED
      BY <2>3, <3>1, <3>2, <3>3 DEF B!Finish, B!BridgeNext
  <2> QED
    BY <2>1, <2>4, <2>5 DEF FlushFinished, Destroy, lifeVars
<1>11. CASE WriteFailed
  BY <1>11, <1>a DEF WriteFailed, Causes
<1>12. CASE OnStreamClose
  <2>1. UNCHANGED <<sent, acked, queued, flushed>>
    BY <1>12 DEF OnStreamClose
  <2>2. CASE destroyed
    BY <1>12, <1>s, <2>1, <2>2 DEF OnStreamClose, lifeVars
  <2>3. CASE ~destroyed
    <3>1. cause = "none" /\ ~streamClosed /\ streamClosed'
      BY <1>12, <2>3 DEF OnStreamClose, Kept, Life
    <3>2. BridgePhase = "open"
      BY <3>1 DEF BridgePhase
    <3>3. CASE cause' = "flushed"
      <4>1. BridgePhase' = "finished"
        BY <3>3 DEF BridgePhase
      <4>2. flushed' = queued
        BY <2>1, <3>3 DEF Kept, Down
      <4> QED
        BY <2>1, <3>2, <4>1, <4>2 DEF B!Finish, B!BridgeNext
    <3>4. CASE UNCHANGED cause /\ inflight # 0
      <4>1. BridgePhase' = "finishing"
        BY <3>1, <3>4 DEF BridgePhase
      <4>2. flushed < queued
        <5>1. writes # {}
          BY <2>3, <3>4, FS_EmptySet DEF Kept, Down
        <5> QED
          BY <1>t, <5>1 DEF Kept, Down
      <4> QED
        BY <2>1, <3>2, <4>1, <4>2 DEF B!RemoteFinishes, B!BridgeNext
    <3> QED
      BY <1>12, <2>3, <3>3, <3>4 DEF OnStreamClose, FlushFinished, Destroy, lifeVars
  <2> QED
    BY <2>2, <2>3
<1>13. CASE OwnerDestroy
  BY <1>13, <1>a DEF OwnerDestroy, Causes
<1>14. CASE CloseHandle
  <2>1. PICK m \in {flushed} \cup IF cause = "write" THEN {} ELSE writes : flushed' = m
    BY <1>14 DEF CloseHandle
  <2>2. m = flushed \/ m \in (flushed + 1)..queued
    BY <1>t, <2>1 DEF Kept, Down
  <2>3. UNCHANGED <<sent, acked, queued, cause, streamClosed>>
    BY <1>14 DEF CloseHandle
  <2>4. CASE m = flushed
    BY <1>s, <2>1, <2>3, <2>4
  <2>5. CASE m \in (flushed + 1)..queued
    BY <2>1, <2>3, <2>5, PhaseKept DEF B!HandOver, B!BridgeNext
  <2> QED
    BY <2>2, <2>4, <2>5
<1>15. CASE UNCHANGED vars
  BY <1>15, <1>s DEF vars, lifeVars
<1> QED
  BY <1>2, <1>3, <1>4, <1>5, <1>6, <1>7, <1>8, <1>9, <1>10, <1>11, <1>12,
     <1>13, <1>14, <1>15 DEF Next

\* The pipe implements the Bridge, whatever the marks and the chunk sizes: in
\* particular an orderly end has handed every remote byte over.
THEOREM PipeImplementsBridge == Spec => ImplementsBridge
<1>1. Init => B!BridgeInit
  BY DEF Init, B!BridgeInit, BridgePhase
<1>2. IInv /\ IInv' /\ [Next]_vars => [B!BridgeNext]_(B!bridgeVars)
  BY BridgeStep DEF IInv, Up, Kept
<1> QED
  BY <1>1, <1>2, Invariance, PTL DEF Spec, ImplementsBridge, B!BridgeSpec

-----------------------------------------------------------------------------
(* A connection of the server.                                            *)

\* The handle, and what libuv still owes for it.
Handle ==
    /\ gone => ~HasHandle
    /\ destroyed => sEnded
    /\ ~HasHandle => writes = {}
    /\ tcp \in {"new", "none", "connecting"} => pending = 0 /\ lost = 0 /\ unsent = 0

\* Before on_open nothing is on the stream and nothing comes from it; after it
\* nothing is buffered.  A byte is lost only by a read that stops the socket.
Greeting ==
    /\ ~opened => /\ sent = 0 /\ acked = 0 /\ drains = {} /\ unsent = 0
                  /\ writes = {}
                  /\ sClosed => destroyed
                  /\ lost > 0 => ~reading
    /\ opened => pending = 0
    /\ lost <= MaxChunk

\* Local socket to stream, in place of the pipe's Up.
Owed ==
    /\ Chunks(drains, acked, sent)
    /\ ConnCountersExact
    /\ reading => streamPending < StreamHighWaterMark
    /\ sent + pending + unsent - acked < StreamHighWaterMark + MaxChunk
    /\ ConnStoppedIsOwed

ConnIInv == ConnTypeOK /\ Life /\ Down /\ Handle /\ Greeting /\ Owed

USE MarksAssumption, SizesAssumption, PendingAssumption
    DEF MarksAssumption, SizesAssumption, PendingAssumption

LEMMA InitConnIInv == ConnInit => ConnIInv
<1> SUFFICES ASSUME ConnInit PROVE ConnIInv
  OBVIOUS
<1>1. TypeOK /\ Life /\ Down
  BY InitIInv DEF ConnInit, IInv
<1>2. ConnTypeOK
  <2>1. pending \in 0..MaxPendingBytes /\ lost \in Nat /\ unsent \in Nat
    BY DEF ConnInit
  <2> QED
    BY <1>1, <2>1, Zenon DEF ConnInit, ConnTypeOK
<1>3. Handle /\ Greeting
  BY DEF ConnInit, Init, Handle, Greeting, HasHandle
<1>4. Owed
  BY DEF ConnInit, Init, Owed, Chunks, ConnCountersExact, ConnStoppedIsOwed
<1> QED
  BY <1>1, <1>2, <1>3, <1>4 DEF ConnIInv

-----------------------------------------------------------------------------
(* What the three callbacks of the server's own do, in the pipe's terms.   *)

\* A read, by what the write of make_side() makes of it: buffered or dropped,
\* put on the stream, or refused.
LEMMA ConnReadCases ==
    ASSUME ConnIInv, ConnReadData
    PROVE  /\ tcp = "open" /\ reading /\ ~destroyed /\ ~localEof
           /\ streamPending < StreamHighWaterMark
           /\ UNCHANGED <<localEof, streamClosed, sClosed, acked, downVars, opened,
                          unsent>>
           /\ \E len \in 1..MaxChunk :
                 /\ read' = read + len
                 /\ \/ /\ ~opened /\ PipeReadSubmitted(len) /\ Buffer(len)
                       /\ UNCHANGED <<sent, drains>>
                    \/ /\ opened /\ PipeReadSubmitted(len) /\ Submit(len)
                       /\ UNCHANGED <<pending, lost>>
                    \/ /\ opened /\ PipeReadRejected(len)
                       /\ UNCHANGED <<sent, drains, pending, lost>>
<1>1. tcp = "open" /\ reading /\ ~localEof
  BY DEF ConnReadData, CanRead
<1>2. ~destroyed /\ streamPending < StreamHighWaterMark
  BY <1>1 DEF ConnIInv, Life, Owed
<1> QED
  BY <1>1, <1>2 DEF ConnReadData, endVars

\* on_open, by what becomes of the buffer.
LEMMA StreamOpenCases ==
    ASSUME ConnIInv, StreamOpen
    PROVE  /\ tcp # "new" /\ ~opened /\ ~sClosed /\ opened'
           /\ UNCHANGED <<tcp, destroyed, gone, sEnded, cause, localEof, streamClosed,
                          sClosed, read, drains, downVars, lost>>
           /\ \/ ~destroyed /\ pending > 0 /\ FlushPending
              \/ pending > 0 /\ FlushRefused
              \/ /\ pending = 0
                 /\ UNCHANGED <<sent, acked, streamPending, reading, pending, unsent>>
<1>1. CASE pending > 0 /\ ~sEnded /\ FlushPending
  <2>1. ~destroyed
    BY <1>1 DEF ConnIInv, Handle
  <2> QED
    BY <1>1, <2>1 DEF StreamOpen, endVars
<1>2. CASE ~(pending > 0)
  BY <1>2 DEF StreamOpen, endVars, ConnIInv, ConnTypeOK
<1> QED
  BY <1>1, <1>2 DEF StreamOpen, endVars

-----------------------------------------------------------------------------
(* Preservation, one lemma per part.                                       *)

\* The pipe's own parts, by its own lemmas where the step is the pipe's.
LEMMA ConnPipeParts ==
    ASSUME ConnIInv, [ConnNext]_serverVars
    PROVE  TypeOK' /\ Life' /\ Down'
<1>0. TypeOK /\ Life /\ Down /\ Handle /\ Greeting /\ Owed /\ Chunks(drains, acked, sent)
  BY DEF ConnIInv, ConnTypeOK, Owed
<1>1. CASE [Next]_vars
  BY <1>0, <1>1, TypePreserved, LifePreserved, DownPreserved
<1>2. CASE ConnReadData
  <2>1. PICK len \in 1..MaxChunk :
          /\ read' = read + len
          /\ \/ /\ ~opened /\ PipeReadSubmitted(len) /\ Buffer(len)
                /\ UNCHANGED <<sent, drains>>
             \/ /\ opened /\ PipeReadSubmitted(len) /\ Submit(len)
             \/ /\ opened /\ PipeReadRejected(len)
                /\ UNCHANGED <<sent, drains>>
    BY <1>2, ConnReadCases
  <2>2. /\ len \in Nat /\ tcp = "open" /\ ~destroyed
        /\ UNCHANGED <<localEof, streamClosed, sClosed, acked, downVars>>
    BY <1>2, <2>1, ConnReadCases
  <2>3. CASE PipeReadSubmitted(len)
    <3>1. /\ UNCHANGED <<tcp, gone, destroyed, sEnded, cause>>
          /\ streamPending' = streamPending + len
          /\ reading' \in BOOLEAN
      BY <2>3 DEF PipeReadSubmitted
    <3>2. TypeOK'
      <4>1. sent' \in Nat /\ drains' \in SUBSET Nat
        <5>1. CASE UNCHANGED <<sent, drains>>
          BY <1>0, <5>1 DEF TypeOK
        <5>2. CASE Submit(len)
          BY <1>0, <2>2, <5>2 DEF TypeOK, Submit
        <5> QED
          BY <2>1, <5>1, <5>2
      <4>2. read' \in Nat /\ streamPending' \in Nat
        BY <1>0, <2>1, <2>2, <3>1 DEF TypeOK
      <4> QED
        BY <1>0, <2>2, <3>1, <4>1, <4>2 DEF TypeOK, downVars
    <3>3. Life'
      BY <1>0, <2>2, <3>1 DEF Life
    <3>4. DownUntouched
      BY <2>2, <3>1 DEF DownUntouched, downVars
    <3> QED
      BY <1>0, <3>2, <3>3, <3>4, DownFrame
  <2>4. CASE PipeReadRejected(len) /\ UNCHANGED <<sent, drains>>
    <3>1. /\ destroyed' = TRUE /\ reading' = FALSE /\ sEnded' = TRUE /\ cause' = "stream"
          /\ tcp' = "closing" /\ gone' = gone
          /\ streamPending' = Less(streamPending + len, len)
      BY <2>2, <2>4 DEF PipeReadRejected, Destroy, HasHandle
    <3>2. TypeOK'
      <4>1. read' \in Nat /\ streamPending' \in Nat
        BY <1>0, <2>1, <2>2, <3>1 DEF TypeOK, Less
      <4>2. tcp' \in TcpStates /\ cause' \in Causes
        BY <3>1 DEF TcpStates, Causes
      <4> QED
        BY <1>0, <2>2, <2>4, <3>1, <4>1, <4>2 DEF TypeOK, downVars
    <3>3. Life'
      BY <1>0, <2>2, <3>1 DEF Life
    <3>4. DownUntouched
      BY <2>2, <3>1 DEF DownUntouched, downVars
    <3> QED
      BY <1>0, <3>2, <3>3, <3>4, DownFrame
  <2> QED
    BY <2>1, <2>3, <2>4
<1>3. CASE StreamOpen
  <2>1. /\ tcp # "new" /\ ~opened /\ ~sClosed
        /\ UNCHANGED <<tcp, destroyed, gone, sEnded, cause, localEof, streamClosed,
                       sClosed, read, drains, downVars, lost>>
        /\ \/ ~destroyed /\ pending > 0 /\ FlushPending
           \/ FlushRefused
           \/ UNCHANGED <<sent, acked, streamPending, reading>>
    BY <1>3, StreamOpenCases
  <2>2. DownUntouched
    BY <2>1 DEF DownUntouched, downVars
  <2>3. pending \in Nat /\ (tcp \in {"none", "connecting"} => pending = 0)
    BY <1>0 DEF ConnIInv, ConnTypeOK, Handle
  <2>4. CASE ~destroyed /\ pending > 0 /\ FlushPending
    <3>1. /\ sent' = sent + pending /\ acked' = acked + pending
          /\ streamPending' = Less(streamPending, pending)
          /\ reading' \in BOOLEAN
          /\ tcp \notin {"new", "none", "connecting"}
          /\ reading' => reading \/ HasHandle
      BY <1>0, <2>1, <2>3, <2>4 DEF FlushPending, PipeDrain, TypeOK
    <3>2. TypeOK'
      BY <1>0, <2>1, <2>3, <3>1 DEF TypeOK, Less, downVars
    <3>3. Life'
      BY <1>0, <2>1, <2>4, <3>1 DEF Life, HasHandle
    <3> QED
      BY <1>0, <2>2, <3>2, <3>3, DownFrame
  <2>5. CASE UNCHANGED <<sent, acked, streamPending, reading>>
    <3>1. TypeOK' /\ Life'
      BY <1>0, <2>1, <2>5 DEF TypeOK, Life, downVars
    <3> QED
      BY <1>0, <2>2, <3>1, DownFrame
  <2> QED
    BY <2>1, <2>4, <2>5 DEF FlushRefused
<1>4. CASE ConnDrain
  <2>1. PICK m \in drains : /\ Oldest(m, drains) /\ acked' = m
                            /\ drains' = drains \ {m} /\ PipeDrain(m - acked)
    BY <1>4 DEF ConnDrain
  <2>2. UNCHANGED <<tcp, destroyed, gone, sEnded, cause, localEof, streamClosed,
                    sClosed, read, sent, downVars>>
    BY <1>4 DEF ConnDrain, endVars
  <2>3. m \in Nat /\ acked < m /\ m <= sent
    BY <1>0, <2>1, ChunksTake DEF TypeOK
  <2>4. /\ streamPending' = Less(streamPending, m - acked)
        /\ reading' \in BOOLEAN
        /\ reading' => reading \/ (~destroyed /\ HasHandle)
    BY <1>0, <2>1 DEF PipeDrain, TypeOK
  <2>5. TypeOK'
    BY <1>0, <2>1, <2>2, <2>3, <2>4 DEF TypeOK, Less, downVars
  <2>6. tcp \notin {"new", "none", "connecting"}
    BY <1>0, <2>3 DEF Life, TypeOK
  <2>7. Life'
    BY <1>0, <2>2, <2>4, <2>6 DEF Life, HasHandle
  <2>8. DownUntouched
    BY <2>2 DEF DownUntouched, downVars
  <2> QED
    BY <1>0, <2>5, <2>7, <2>8, DownFrame
<1>5. CASE UNCHANGED serverVars
  BY <1>0, <1>1, <1>5 DEF serverVars
<1> QED
  BY <1>1, <1>2, <1>3, <1>4, <1>5 DEF ConnNext, Next

\* The pipe's other callbacks leave the way from the service to the stream
\* alone, but for stopping it (at the end of file or by destroy()) and for
\* starting it once when the service answers the connect.
Upstream == <<streamPending, read, sent, acked, drains, connVars>>

Early == {"new", "none", "connecting"}

LEMMA ConnUpFrame ==
    ASSUME ConnIInv, [ConnNext]_serverVars, ~ConnReadData, ~StreamOpen, ~ConnDrain
    PROVE  /\ UNCHANGED Upstream
           /\ \/ UNCHANGED <<tcp, reading, destroyed, localEof>>
              \/ ~reading' /\ localEof' /\ UNCHANGED <<tcp, destroyed>>
              \/ /\ ~reading' /\ destroyed'
                 /\ tcp' \in {"closing", "closed"} \/ (tcp = "none" /\ tcp' = tcp)
              \/ tcp = "new" /\ tcp' \in Early /\ ~reading' /\ UNCHANGED destroyed
              \/ tcp = "connecting" /\ tcp' = "open" /\ reading' /\ UNCHANGED destroyed
<1> USE DEF Upstream, upVars
<1>0. /\ tcp \in TcpStates /\ (reading => tcp = "open")
      /\ (destroyed => ~reading) /\ (destroyed => tcp \in {"closing", "closed", "none"})
  BY DEF ConnIInv, ConnTypeOK, TypeOK, TcpStates, Life
<1>d. ASSUME NEW why, Destroy(why) \/ UNCHANGED lifeVars, tcp # "new"
      PROVE  \/ UNCHANGED <<tcp, reading, destroyed>>
             \/ /\ ~reading' /\ destroyed'
                /\ tcp' \in {"closing", "closed"} \/ (tcp = "none" /\ tcp' = tcp)
  BY <1>0, <1>d DEF Destroy, lifeVars, HasHandle, TcpStates
<1>1. CASE Connect /\ UNCHANGED connVars
  BY <1>0, <1>1 DEF Connect, Early
<1>2. CASE ConnectCb /\ UNCHANGED connVars
  BY <1>0, <1>2 DEF ConnectCb, Destroy, HasHandle
<1>3. CASE ReadEof /\ UNCHANGED connVars
  BY <1>3 DEF ReadEof
<1>4. CASE ReadError /\ UNCHANGED connVars
  BY <1>4, <1>d DEF ReadError, CanRead, endVars
<1>5. CASE OnStreamData /\ UNCHANGED connVars
  <2>1. UNCHANGED lifeVars \/ Destroy("local")
    BY <1>5 DEF OnStreamData
  <2> QED
    BY <1>5, <1>d, <2>1 DEF OnStreamData, endVars, HasHandle
<1>6. CASE WriteDone /\ UNCHANGED connVars
  <2>1. UNCHANGED lifeVars \/ Destroy("flushed")
    BY <1>6 DEF WriteDone, FlushFinished
  <2> QED
    BY <1>6, <1>d, <2>1 DEF WriteDone, endVars
<1>7. CASE WriteFailed /\ UNCHANGED connVars
  BY <1>7, <1>d DEF WriteFailed, endVars
<1>8. CASE OnStreamClose /\ UNCHANGED connVars
  <2>1. UNCHANGED lifeVars \/ Destroy("flushed")
    BY <1>8 DEF OnStreamClose, FlushFinished
  <2> QED
    BY <1>8, <1>d, <2>1 DEF OnStreamClose
<1>9. CASE OwnerDestroy /\ UNCHANGED connVars
  BY <1>9, <1>d DEF OwnerDestroy, endVars
<1>10. CASE CloseHandle /\ UNCHANGED connVars
  BY <1>0, <1>10 DEF CloseHandle, Life, ConnIInv
<1>11. CASE UNCHANGED serverVars
  BY <1>11 DEF serverVars, vars, lifeVars, endVars
<1> QED
  BY <1>1, <1>2, <1>3, <1>4, <1>5, <1>6, <1>7, <1>8, <1>9, <1>10, <1>11 DEF ConnNext

\* The buffer keeps its bound: a chunk that does not fit is dropped.
LEMMA ConnTypePreserved ==
    ASSUME ConnIInv, [ConnNext]_serverVars
    PROVE  ConnTypeOK'
<1>0. /\ opened \in BOOLEAN /\ pending \in 0..MaxPendingBytes
      /\ lost \in Nat /\ unsent \in Nat
  BY DEF ConnIInv, ConnTypeOK
<1>1. /\ opened' \in BOOLEAN /\ pending' \in 0..MaxPendingBytes
      /\ lost' \in Nat /\ unsent' \in Nat
  <2>1. CASE ConnReadData
    <3>1. PICK len \in 1..MaxChunk :
            Buffer(len) \/ UNCHANGED <<pending, lost>>
      BY <2>1, ConnReadCases
    <3>2. UNCHANGED <<opened, unsent>> /\ len \in Nat
      BY <2>1, <3>1, ConnReadCases
    <3> QED
      BY <1>0, <3>1, <3>2 DEF Buffer
  <2>2. CASE StreamOpen
    BY <1>0, <2>2, StreamOpenCases DEF StreamOpen, FlushPending, FlushRefused
  <2>3. CASE ConnDrain
    BY <1>0, <2>3 DEF ConnDrain, connVars
  <2>4. CASE ~ConnReadData /\ ~StreamOpen /\ ~ConnDrain
    BY <1>0, <2>4, ConnUpFrame DEF Upstream, connVars
  <2> QED
    BY <2>1, <2>2, <2>3, <2>4
<1> QED
  BY <1>1, ConnPipeParts DEF ConnTypeOK

\* on_destroy_ fires when no handle is left, and no write outlives the handle.
LEMMA HandlePreserved ==
    ASSUME ConnIInv, [ConnNext]_serverVars
    PROVE  Handle'
<1> USE DEF HasHandle
<1>0. /\ gone => ~HasHandle
      /\ destroyed => sEnded
      /\ ~HasHandle => writes = {}
      /\ tcp \in Early => pending = 0 /\ lost = 0 /\ unsent = 0
      /\ tcp \in TcpStates /\ (destroyed => tcp \in {"closing", "closed", "none"})
      /\ gone => destroyed
      /\ reading => tcp = "open"
  BY DEF ConnIInv, Handle, Early, ConnTypeOK, TypeOK, TcpStates, Life
<1>1. tcp' \in Early => pending' = 0 /\ lost' = 0 /\ unsent' = 0
  <2>1. CASE ConnReadData
    <3>1. PICK len \in 1..MaxChunk : PipeReadSubmitted(len) \/ PipeReadRejected(len)
      BY <2>1, ConnReadCases
    <3>2. tcp' \in {"open", "closing"}
      BY <2>1, <3>1, ConnReadCases DEF PipeReadSubmitted, PipeReadRejected, Destroy
    <3> QED
      BY <3>2 DEF Early
  <2>2. CASE StreamOpen
    BY <1>0, <2>2, StreamOpenCases DEF FlushPending, FlushRefused
  <2>3. CASE ConnDrain
    BY <1>0, <2>3 DEF ConnDrain, connVars
  <2>4. CASE ~ConnReadData /\ ~StreamOpen /\ ~ConnDrain
    BY <1>0, <2>4, ConnUpFrame DEF Upstream, connVars, Early
  <2> QED
    BY <2>1, <2>2, <2>3, <2>4
<1>d. ASSUME NEW why, Destroy(why) \/ UNCHANGED lifeVars, tcp # "new"
      PROVE  /\ gone' => tcp' \notin {"connecting", "open", "closing"}
             /\ destroyed' => sEnded'
             /\ tcp' \notin {"connecting", "open", "closing"} => ~HasHandle
  BY <1>0, <1>d DEF Destroy, lifeVars, TcpStates
<1>w. ASSUME NEW why, Destroy(why) \/ UNCHANGED lifeVars, tcp # "new",
             UNCHANGED writes \/ HasHandle
      PROVE  Handle'
  BY <1>0, <1>1, <1>d, <1>w DEF Handle, Early
<1>2. CASE Connect /\ UNCHANGED connVars
  <2>1. writes' = {} /\ UNCHANGED gone
    BY <1>0, <1>2 DEF Connect, downVars
  <2>2. destroyed' => sEnded'
    BY <1>0, <1>2 DEF Connect
  <2>3. ~gone
    BY <1>0, <1>2 DEF Connect
  <2> QED
    BY <1>1, <2>1, <2>2, <2>3 DEF Handle, Early
<1>3. CASE ConnectCb /\ UNCHANGED connVars
  <2>1. UNCHANGED writes /\ tcp = "connecting"
    BY <1>3 DEF ConnectCb, downVars
  <2>2. CASE Destroy("connect")
    BY <1>w, <2>1, <2>2
  <2>3. CASE ~Destroy("connect")
    BY <1>0, <1>1, <1>3, <2>1, <2>3 DEF ConnectCb, Handle, Early
  <2> QED
    BY <2>2, <2>3
<1>4. CASE ReadEof /\ UNCHANGED connVars
  BY <1>0, <1>1, <1>4 DEF ReadEof, downVars, Handle, Early
<1>5. CASE ReadError /\ UNCHANGED connVars
  BY <1>5, <1>w DEF ReadError, CanRead
<1>6. CASE OnStreamData /\ UNCHANGED connVars
  <2>1. UNCHANGED lifeVars \/ Destroy("local")
    BY <1>6 DEF OnStreamData
  <2> QED
    BY <1>6, <1>w, <2>1 DEF OnStreamData
<1>7. CASE WriteDone /\ UNCHANGED connVars
  <2>1. UNCHANGED lifeVars \/ Destroy("flushed")
    BY <1>7 DEF WriteDone, FlushFinished
  <2> QED
    BY <1>7, <1>w, <2>1 DEF WriteDone
<1>8. CASE WriteFailed /\ UNCHANGED connVars
  BY <1>8, <1>w DEF WriteFailed
<1>9. CASE OnStreamClose /\ UNCHANGED connVars
  <2>1. UNCHANGED lifeVars \/ Destroy("flushed")
    BY <1>9 DEF OnStreamClose, FlushFinished
  <2> QED
    BY <1>9, <1>w, <2>1 DEF OnStreamClose, downVars
<1>10. CASE OwnerDestroy /\ UNCHANGED connVars
  BY <1>10, <1>w DEF OwnerDestroy, downVars
<1>11. CASE CloseHandle /\ UNCHANGED connVars
  BY <1>0, <1>1, <1>11 DEF CloseHandle, Handle, Early, Life, ConnIInv
<1>12. CASE ConnReadData
  <2>1. PICK len \in 1..MaxChunk : PipeReadSubmitted(len) \/ PipeReadRejected(len)
    BY <1>12, ConnReadCases
  <2>2. tcp = "open" /\ UNCHANGED writes
    BY <1>12, ConnReadCases DEF downVars
  <2>3. CASE PipeReadRejected(len)
    BY <1>w, <2>2, <2>3 DEF PipeReadRejected
  <2>4. CASE PipeReadSubmitted(len)
    BY <1>0, <1>1, <2>2, <2>4 DEF PipeReadSubmitted, Handle, Early
  <2> QED
    BY <2>1, <2>3, <2>4
<1>13. CASE StreamOpen
  BY <1>0, <1>1, <1>13 DEF StreamOpen, downVars, Handle, Early
<1>14. CASE ConnDrain
  BY <1>0, <1>1, <1>14 DEF ConnDrain, downVars, Handle, Early
<1>15. CASE UNCHANGED serverVars
  BY <1>0, <1>1, <1>15 DEF serverVars, vars, lifeVars, downVars, Handle, Early
<1> QED
  BY <1>2, <1>3, <1>4, <1>5, <1>6, <1>7, <1>8, <1>9, <1>10, <1>11, <1>12, <1>13,
     <1>14, <1>15 DEF ConnNext

\* The service may speak before on_open, the stream may not.
LEMMA GreetingPreserved ==
    ASSUME ConnIInv, [ConnNext]_serverVars
    PROVE  Greeting'
<1>0. /\ ~opened => /\ sent = 0 /\ acked = 0 /\ drains = {} /\ unsent = 0
                    /\ writes = {}
                    /\ sClosed => destroyed
                    /\ lost > 0 => ~reading
      /\ opened => pending = 0
      /\ lost <= MaxChunk /\ lost \in Nat /\ pending \in Nat
      /\ tcp \in {"new", "none", "connecting"} => lost = 0
      /\ reading => tcp = "open"
      /\ opened \in BOOLEAN /\ streamPending \in Nat
  BY DEF ConnIInv, ConnTypeOK, TypeOK, Greeting, Handle, Life
<1>1. CASE ConnReadData
  <2>1. PICK len \in 1..MaxChunk :
          \/ /\ ~opened /\ PipeReadSubmitted(len) /\ Buffer(len)
             /\ UNCHANGED <<sent, drains>>
          \/ /\ opened /\ UNCHANGED <<pending, lost>>
    BY <1>1, ConnReadCases
  <2>2. /\ reading /\ ~destroyed /\ UNCHANGED <<acked, opened, unsent, writes, sClosed>>
    BY <1>1, ConnReadCases DEF downVars
  <2>3. CASE opened
    BY <1>0, <2>1, <2>2, <2>3 DEF Greeting
  <2>4. CASE ~opened
    <3>1. /\ PipeReadSubmitted(len) /\ Buffer(len) /\ UNCHANGED <<sent, drains>>
          /\ lost = 0 /\ len \in Nat /\ len <= MaxChunk /\ ~sClosed
      BY <1>0, <2>1, <2>2, <2>4
    <3>2. streamPending = pending
      BY <1>0, <2>2, <2>4, <3>1 DEF ConnIInv, Owed, ConnCountersExact
    <3>3. CASE pending + len > MaxPendingBytes
      <4>1. lost' = len /\ streamPending' = pending + len
        BY <3>1, <3>2, <3>3 DEF Buffer, PipeReadSubmitted
      <4>2. ~(streamPending' < StreamHighWaterMark)
        BY <1>0, <3>1, <3>3, <4>1
      <4>3. ~reading'
        BY <3>1, <4>2 DEF PipeReadSubmitted
      <4> QED
        BY <1>0, <2>2, <2>4, <3>1, <4>1, <4>3 DEF Greeting
    <3>4. CASE ~(pending + len > MaxPendingBytes)
      <4>1. lost' = 0
        BY <3>1, <3>4 DEF Buffer
      <4> QED
        BY <1>0, <2>2, <2>4, <3>1, <4>1 DEF Greeting
    <3> QED
      BY <3>3, <3>4
  <2> QED
    BY <1>0, <2>3, <2>4
<1>2. CASE StreamOpen
  BY <1>0, <1>2, StreamOpenCases DEF FlushPending, FlushRefused, Greeting
<1>3. CASE ConnDrain
  <2>1. drains # {}
    BY <1>3 DEF ConnDrain
  <2>2. opened /\ UNCHANGED connVars
    BY <1>0, <1>3, <2>1 DEF ConnDrain
  <2> QED
    BY <1>0, <2>2 DEF Greeting, connVars
<1>4. CASE ~ConnReadData /\ ~StreamOpen /\ ~ConnDrain
  <2>1. UNCHANGED <<sent, acked, drains, opened, pending, lost, unsent>>
    BY <1>4, ConnUpFrame DEF Upstream, connVars
  <2>2. ~opened /\ lost > 0 => ~reading'
    BY <1>0, <1>4, ConnUpFrame
  <2>3. ~opened => writes' = {}
    BY <1>0, <1>4
    DEF ConnNext, Connect, ConnectCb, ReadEof, ReadError, WriteDone, WriteFailed,
        OnStreamClose, OwnerDestroy, CloseHandle, serverVars, vars, downVars
  <2>4. ~opened /\ sClosed' => destroyed'
    <3>1. CASE OnStreamClose
      <4>1. ~opened /\ ~destroyed => inflight = 0
        BY <1>0, FS_EmptySet DEF ConnIInv, Down
      <4> QED
        BY <3>1, <4>1 DEF OnStreamClose, FlushFinished, Destroy, lifeVars
    <3>2. CASE ~OnStreamClose
      <4>1. UNCHANGED sClosed
        BY <1>4, <3>2
        DEF ConnNext, Connect, ConnectCb, ReadEof, ReadError, OnStreamData, WriteDone,
            WriteFailed, OwnerDestroy, CloseHandle, serverVars, vars, endVars
      <4>2. destroyed => destroyed'
        BY <1>4, ConnUpFrame
      <4> QED
        BY <1>0, <4>1, <4>2
    <3> QED
      BY <3>1, <3>2
  <2> QED
    BY <1>0, <2>1, <2>2, <2>3, <2>4 DEF Greeting
<1> QED
  BY <1>1, <1>2, <1>3, <1>4

\* A chunk that is buffered or lost adds its length to what is not on the
\* stream; with nothing on the stream, the buffer is the whole window.
LEMMA CountChunk ==
    ASSUME NEW s \in Nat, NEW a \in Nat, NEW p \in Nat, NEW l \in Nat, NEW u \in Nat,
           NEW p1 \in Nat, NEW l1 \in Nat, NEW n \in Nat, p1 + l1 = p + l + n
    PROVE  /\ s + p + l + u + n = s + p1 + l1 + u
           /\ (s - a) + p + l + u + n = (s - a) + p1 + l1 + u
OBVIOUS

LEMMA WindowOfBuffer ==
    ASSUME NEW p \in Nat, p < StreamHighWaterMark + MaxChunk,
           NEW s, NEW u, NEW a, s = 0, u = 0, a = 0
    PROVE  s + p + u - a < StreamHighWaterMark + MaxChunk
OBVIOUS

\* What has been read is accounted for, and a socket that is not read is owed
\* the event that restarts it.
LEMMA OwedPreserved ==
    ASSUME ConnIInv, [ConnNext]_serverVars
    PROVE  Owed'
<1>0. /\ Chunks(drains, acked, sent)
      /\ ~destroyed => /\ read = sent + pending + lost + unsent
                       /\ streamPending = (sent - acked) + pending + lost + unsent
      /\ reading => streamPending < StreamHighWaterMark
      /\ sent + pending + unsent - acked < StreamHighWaterMark + MaxChunk
      /\ tcp = "open" /\ ~reading /\ ~localEof /\ unsent = 0 =>
            /\ streamPending >= StreamHighWaterMark
            /\ drains # {} \/ (~opened /\ pending > 0)
  BY DEF ConnIInv, Owed, ConnCountersExact, ConnStoppedIsOwed
<1>1. /\ streamPending \in Nat /\ read \in Nat /\ sent \in Nat /\ acked \in Nat
      /\ pending \in Nat /\ pending <= MaxPendingBytes /\ lost \in Nat /\ unsent \in Nat
      /\ destroyed \in BOOLEAN /\ reading \in BOOLEAN /\ opened \in BOOLEAN
      /\ tcp = "open" => ~destroyed
      /\ tcp \in Early => sent = 0 /\ acked = 0 /\ pending = 0 /\ lost = 0 /\ unsent = 0
      /\ tcp \in Early \ {"none"} => ~destroyed
  BY DEF ConnIInv, ConnTypeOK, TypeOK, Life, Handle, Early
<1>2. /\ ~opened => sent = 0 /\ acked = 0 /\ drains = {} /\ unsent = 0
      /\ opened => pending = 0
      /\ lost <= MaxChunk
  BY DEF ConnIInv, Greeting
<1>3. CASE ConnReadData
  <2>1. PICK len \in 1..MaxChunk :
          /\ read' = read + len
          /\ \/ /\ ~opened /\ PipeReadSubmitted(len) /\ Buffer(len)
                /\ UNCHANGED <<sent, drains>>
             \/ /\ opened /\ PipeReadSubmitted(len) /\ Submit(len)
                /\ UNCHANGED <<pending, lost>>
             \/ /\ opened /\ PipeReadRejected(len)
                /\ UNCHANGED <<sent, drains, pending, lost>>
    BY <1>3, ConnReadCases
  <2>2. /\ len \in Nat \ {0} /\ len <= MaxChunk
        /\ tcp = "open" /\ ~destroyed /\ ~localEof
        /\ streamPending < StreamHighWaterMark
        /\ UNCHANGED <<localEof, acked, opened, unsent>>
    BY <1>3, <2>1, ConnReadCases
  <2>3. ASSUME PipeReadSubmitted(len)
        PROVE  /\ streamPending' = streamPending + len
               /\ UNCHANGED <<destroyed, tcp>>
               /\ reading' => streamPending' < StreamHighWaterMark
               /\ ~reading' => streamPending' >= StreamHighWaterMark
    <3>1. /\ streamPending' = streamPending + len
          /\ reading' = (streamPending' < StreamHighWaterMark)
          /\ UNCHANGED <<destroyed, tcp>>
      BY <2>3 DEF PipeReadSubmitted
    <3>2. streamPending' \in Nat
      BY <1>1, <2>2, <3>1
    <3>3. ~(streamPending' < StreamHighWaterMark) => streamPending' >= StreamHighWaterMark
      BY <3>2
    <3> QED
      BY <3>1, <3>3, Zenon
  <2>4. CASE /\ ~opened /\ PipeReadSubmitted(len) /\ Buffer(len)
             /\ UNCHANGED <<sent, drains>>
    <3>1. /\ pending' \in Nat /\ pending' + lost' = pending + lost + len
          /\ pending' > 0 /\ pending' <= pending + len
      BY <1>1, <2>2, <2>4 DEF Buffer
    <3>2. lost' \in Nat
      BY <1>1, <2>2, <2>4 DEF Buffer
    <3>a. /\ sent' = sent /\ drains' = drains /\ acked' = acked /\ unsent' = unsent
          /\ streamPending' = streamPending + len
      BY <2>2, <2>3, <2>4
    <3>3. ConnCountersExact'
      <4>1. /\ read = sent + pending + lost + unsent
            /\ streamPending = (sent - acked) + pending + lost + unsent
        BY <1>0, <2>2
      <4>2. /\ read' = sent' + pending' + lost' + unsent'
            /\ streamPending' = (sent' - acked') + pending' + lost' + unsent'
        <5>1. /\ len \in Nat /\ pending \in Nat /\ pending' \in Nat /\ lost \in Nat /\ lost' \in Nat
              /\ sent \in Nat /\ unsent \in Nat /\ acked \in Nat
              /\ pending' + lost' = pending + lost + len
          BY <1>1, <2>2, <3>1, <3>2
        <5>2. read' = read + len
          BY <2>1
        <5> QED
          <6>1. /\ sent + pending + lost + unsent + len = sent + pending' + lost' + unsent
                /\ (sent - acked) + pending + lost + unsent + len =
                     (sent - acked) + pending' + lost' + unsent
            <7> DEFINE p1 == pending'
                       l1 == lost'
            <7>1. p1 \in Nat /\ l1 \in Nat /\ p1 + l1 = pending + lost + len
              BY <5>1
            <7>2. /\ sent \in Nat /\ acked \in Nat /\ unsent \in Nat /\ pending \in Nat
                  /\ lost \in Nat /\ len \in Nat
              BY <5>1
            <7> HIDE DEF p1, l1
            <7>3. /\ sent + pending + lost + unsent + len = sent + p1 + l1 + unsent
                  /\ (sent - acked) + pending + lost + unsent + len =
                       (sent - acked) + p1 + l1 + unsent
              BY <7>1, <7>2, CountChunk
            <7> QED
              BY <7>3 DEF p1, l1
          <6>2. /\ read + len = sent + pending' + lost' + unsent
                /\ streamPending + len = (sent - acked) + pending' + lost' + unsent
            BY <4>1, <6>1, Zenon
          <6> QED
            BY <3>a, <5>2, <6>2, Zenon
      <4> QED
        BY <4>2 DEF ConnCountersExact
    <3>4. ConnStoppedIsOwed'
      BY <2>2, <2>3, <2>4, <3>1 DEF ConnStoppedIsOwed
    <3>5. sent' + pending' + unsent' - acked' < StreamHighWaterMark + MaxChunk
      <4>1. sent = 0 /\ acked = 0 /\ unsent = 0
        BY <1>2, <2>4
      <4>2. streamPending = pending + lost
        BY <1>0, <1>1, <2>2, <4>1
      <4>3. pending + len < StreamHighWaterMark + MaxChunk
        BY <1>1, <2>2, <4>2
      <4> QED
        <5>1. pending' <= pending + len /\ pending' \in Nat /\ pending \in Nat /\ len \in Nat
          BY <1>1, <2>2, <3>1
        <5>2. pending' < StreamHighWaterMark + MaxChunk
          BY <4>3, <5>1
        <5>3. sent' = 0 /\ acked' = 0 /\ unsent' = 0
          BY <3>a, <4>1
        <5> QED
          BY <5>1, <5>2, <5>3, WindowOfBuffer
    <3> QED
      BY <1>0, <2>2, <2>3, <2>4, <3>3, <3>4, <3>5 DEF Owed, Chunks
  <2>5. CASE /\ opened /\ PipeReadSubmitted(len) /\ Submit(len)
             /\ UNCHANGED <<pending, lost>>
    <3>1. sent' = sent + len /\ drains' = drains \cup {sent + len}
      BY <2>5 DEF Submit
    <3>2. Chunks(drains', acked', sent')
      <4>1. Chunks(drains \cup {sent + len}, acked, sent + len)
        BY <1>0, <1>1, <2>2, ChunksAdd
      <4> QED
        BY <2>2, <3>1, <4>1
    <3>3. ConnCountersExact'
      BY <1>0, <1>1, <2>1, <2>2, <2>3, <2>5, <3>1 DEF ConnCountersExact
    <3>4. ConnStoppedIsOwed'
      BY <2>2, <2>3, <2>5, <3>1 DEF ConnStoppedIsOwed
    <3>5. sent' + pending' + unsent' - acked' < StreamHighWaterMark + MaxChunk
      BY <1>0, <1>1, <2>2, <2>5, <3>1
    <3> QED
      BY <2>3, <2>5, <3>2, <3>3, <3>4, <3>5 DEF Owed
  <2>6. CASE /\ opened /\ PipeReadRejected(len)
             /\ UNCHANGED <<sent, drains, pending, lost>>
    <3>1. destroyed' /\ ~reading' /\ tcp' = "closing"
      BY <2>2, <2>6 DEF PipeReadRejected, Destroy, HasHandle
    <3> QED
      BY <1>0, <2>2, <2>6, <3>1
      DEF Owed, Chunks, ConnCountersExact, ConnStoppedIsOwed
  <2> QED
    BY <2>1, <2>4, <2>5, <2>6
<1>4. CASE StreamOpen
  <2>1. /\ ~opened /\ opened'
        /\ UNCHANGED <<tcp, destroyed, localEof, read, drains, lost>>
        /\ \/ ~destroyed /\ pending > 0 /\ FlushPending
           \/ pending > 0 /\ FlushRefused
           \/ /\ pending = 0
              /\ UNCHANGED <<sent, acked, streamPending, reading, pending, unsent>>
    BY <1>4, StreamOpenCases
  <2>2. CASE ~destroyed /\ pending > 0 /\ FlushPending
    <3>1. /\ sent' = pending /\ acked' = pending /\ pending' = 0 /\ unsent' = 0
          /\ streamPending' = Less(streamPending, pending)
          /\ reading' = (reading \/ ( /\ streamPending' < StreamHighWaterMark
                                      /\ ~destroyed /\ HasHandle ))
      BY <1>1, <1>2, <2>1, <2>2 DEF FlushPending, PipeDrain
    <3>2. streamPending' = lost
      BY <1>0, <1>1, <1>2, <2>1, <2>2, <3>1 DEF Less
    <3>3. streamPending' < StreamHighWaterMark
      BY <1>1, <1>2, <3>2
    <3>4. Chunks(drains', acked', sent')
      BY <1>1, <1>2, <2>1, <3>1 DEF Chunks
    <3>5. ConnCountersExact'
      BY <1>0, <1>1, <1>2, <2>1, <2>2, <3>1, <3>2 DEF ConnCountersExact
    <3>6. ConnStoppedIsOwed'
      <4>1. tcp = "open" => reading'
        BY <2>2, <3>1, <3>3, Zenon DEF HasHandle
      <4> QED
        BY <2>1, <4>1 DEF ConnStoppedIsOwed
    <3>7. sent' + pending' + unsent' - acked' < StreamHighWaterMark + MaxChunk
      BY <1>1, <3>1
    <3> QED
      BY <3>3, <3>4, <3>5, <3>6, <3>7 DEF Owed
  <2>3. CASE pending > 0 /\ FlushRefused
    <3>1. /\ pending' = 0 /\ unsent' = pending /\ unsent = 0
          /\ UNCHANGED <<sent, acked, streamPending, reading>>
      BY <1>2, <2>1, <2>3 DEF FlushRefused
    <3>2. Chunks(drains', acked', sent')
      BY <1>0, <2>1, <3>1 DEF Chunks
    <3>3. ConnCountersExact'
      BY <1>0, <1>1, <2>1, <3>1 DEF ConnCountersExact
    <3>4. ConnStoppedIsOwed'
      BY <1>1, <2>3, <3>1 DEF ConnStoppedIsOwed
    <3>5. sent' + pending' + unsent' - acked' < StreamHighWaterMark + MaxChunk
      BY <1>0, <1>1, <3>1
    <3> QED
      BY <1>0, <3>1, <3>2, <3>3, <3>4, <3>5 DEF Owed
  <2>4. CASE /\ pending = 0
             /\ UNCHANGED <<sent, acked, streamPending, reading, pending, unsent>>
    <3>1. Chunks(drains', acked', sent') /\ ConnCountersExact'
      BY <1>0, <2>1, <2>4 DEF Chunks, ConnCountersExact
    <3>2. ConnStoppedIsOwed'
      BY <1>0, <1>1, <1>2, <2>1, <2>4 DEF ConnStoppedIsOwed
    <3> QED
      BY <1>0, <2>4, <3>1, <3>2 DEF Owed
  <2> QED
    BY <2>1, <2>2, <2>3, <2>4
<1>5. CASE ConnDrain
  <2>1. PICK m \in drains : /\ Oldest(m, drains) /\ acked' = m
                            /\ drains' = drains \ {m} /\ PipeDrain(m - acked)
    BY <1>5 DEF ConnDrain
  <2>2. UNCHANGED <<tcp, destroyed, localEof, read, sent, opened, pending, lost, unsent>>
    BY <1>5 DEF ConnDrain, endVars, connVars
  <2>3. m \in Nat /\ acked < m /\ m <= sent /\ Chunks(drains', acked', sent')
    BY <1>0, <1>1, <2>1, <2>2, ChunksTake
  <2>4. opened /\ pending = 0
    BY <1>2, <2>1
  <2>5. /\ streamPending' = Less(streamPending, m - acked)
        /\ reading' <=> reading \/ ( /\ streamPending' < StreamHighWaterMark
                                    /\ ~destroyed /\ HasHandle )
    BY <1>1, <2>1 DEF PipeDrain
  <2>6. ConnCountersExact'
    BY <1>0, <1>1, <2>1, <2>2, <2>3, <2>5 DEF ConnCountersExact, Less
  <2>7. streamPending' \in Nat /\ streamPending' <= streamPending
    BY <1>1, <2>3, <2>5 DEF Less
  <2>8. ConnStoppedIsOwed'
    <3>1. SUFFICES ASSUME tcp = "open", ~reading', unsent = 0
                   PROVE  streamPending' >= StreamHighWaterMark /\ drains' # {}
      BY <2>2 DEF ConnStoppedIsOwed
    <3>2. ~destroyed /\ HasHandle
      BY <1>1, <3>1 DEF HasHandle
    <3>3. streamPending' >= StreamHighWaterMark
      BY <2>5, <2>7, <3>1, <3>2
    <3>4. streamPending' = (sent - m) + lost
      <4>1. streamPending' = (sent' - acked') + pending' + lost' + unsent'
        BY <2>2, <2>6, <3>2 DEF ConnCountersExact
      <4> QED
        BY <1>1, <2>1, <2>2, <2>3, <2>4, <3>1, <4>1
    <3>5. m < sent
      BY <1>1, <1>2, <2>3, <3>3, <3>4
    <3> QED
      BY <2>1, <2>2, <2>3, <3>3, <3>5 DEF Chunks
  <2>9. reading' => streamPending' < StreamHighWaterMark
    BY <1>0, <1>1, <2>5, <2>7
  <2>10. sent' + pending' + unsent' - acked' < StreamHighWaterMark + MaxChunk
    BY <1>0, <1>1, <2>1, <2>2, <2>3
  <2> QED
    BY <2>3, <2>6, <2>8, <2>9, <2>10 DEF Owed
<1>6. CASE ~ConnReadData /\ ~StreamOpen /\ ~ConnDrain
  <2>1. /\ UNCHANGED <<streamPending, read, sent, acked, drains, opened, pending, lost,
                       unsent>>
        /\ \/ UNCHANGED <<tcp, reading, destroyed, localEof>>
           \/ ~reading' /\ localEof' /\ UNCHANGED <<tcp, destroyed>>
           \/ ~reading' /\ destroyed' /\ tcp' # "open"
           \/ tcp = "new" /\ tcp' # "open" /\ ~reading' /\ UNCHANGED destroyed
           \/ tcp = "connecting" /\ tcp' = "open" /\ reading' /\ UNCHANGED destroyed
    BY <1>6, ConnUpFrame DEF Upstream, connVars, Early
  <2>2. Chunks(drains', acked', sent')
    BY <1>0, <2>1 DEF Chunks
  <2>3. ConnCountersExact'
    BY <1>0, <2>1 DEF ConnCountersExact
  <2>4. ConnStoppedIsOwed'
    BY <1>0, <2>1 DEF ConnStoppedIsOwed
  <2>5. reading' => streamPending' < StreamHighWaterMark
    <3>1. ASSUME tcp = "connecting" PROVE streamPending' < StreamHighWaterMark
      <4>1. ~destroyed /\ sent = 0 /\ acked = 0 /\ pending = 0 /\ lost = 0 /\ unsent = 0
        BY <1>1, <3>1 DEF Early
      <4>2. streamPending = 0
        BY <1>0, <4>1
      <4> QED
        BY <2>1, <4>2
    <3>2. CASE UNCHANGED reading
      BY <1>0, <2>1, <3>2
    <3> QED
      BY <2>1, <3>1, <3>2
  <2> QED
    BY <1>0, <2>1, <2>2, <2>3, <2>4, <2>5 DEF Owed
<1> QED
  BY <1>3, <1>4, <1>5, <1>6

-----------------------------------------------------------------------------
(* The theorems.                                                           *)

LEMMA ConnInductive == ConnIInv /\ [ConnNext]_serverVars => ConnIInv'
BY ConnPipeParts, ConnTypePreserved, HandlePreserved, GreetingPreserved, OwedPreserved
DEF ConnIInv

LEMMA ConnInvariance == ConnSpec => []ConnIInv
BY InitConnIInv, ConnInductive, PTL DEF ConnSpec

\* Every variable of a connection keeps its type; in particular the greeting
\* never grows past kMaxPendingBytes.
THEOREM ConnTypeCorrect == ConnSpec => []ConnTypeOK
<1>1. ConnIInv => ConnTypeOK
  BY DEF ConnIInv
<1> QED
  BY <1>1, ConnInvariance, PTL

\* Every byte read from the service is on the stream, in the buffer or one of
\* the two losses, and the pipe counts what it has not been told is away
\* (make_side() and stream_open_cb).
THEOREM ConnCountersAreExact == ConnSpec => []ConnCountersExact
<1>1. ConnIInv => ConnCountersExact
  BY DEF ConnIInv, Owed
<1> QED
  BY <1>1, ConnInvariance, PTL

\* However large the buffer and the reads are, a greeting loses one read at
\* most: the one that passes the mark stops the socket.
THEOREM OneChunkIsLostAtMost == ConnSpec => []OneChunkLostAtMost
<1>1. ConnIInv => OneChunkLostAtMost
  BY DEF ConnIInv, Greeting, OneChunkLostAtMost
<1> QED
  BY <1>1, ConnInvariance, PTL

\* The service is never stopped without an on_open or a drain to restart it,
\* even after a loss, unless the flush was refused.
THEOREM ServiceNeverStoppedForGood == ConnSpec => []ConnStoppedIsOwed
<1>1. ConnIInv => ConnStoppedIsOwed
  BY DEF ConnIInv, Owed
<1> QED
  BY <1>1, ConnInvariance, PTL

\* When both references to the Conn are dropped, libuv owes it nothing.
THEOREM FreedLastOfAll == ConnSpec => []FreedOwesNothing
<1>1. ConnIInv => FreedOwesNothing
  BY DEF ConnIInv, Handle, FreedOwesNothing, Freed
<1> QED
  BY <1>1, ConnInvariance, PTL

-----------------------------------------------------------------------------
(* The refinement.                                                         *)

\* A step of the pipe that leaves the way up alone is the same step of either
\* Bridge.
LEMMA SameBridgeStep ==
    ASSUME [B!BridgeNext]_(B!bridgeVars), UNCHANGED Upstream,
           sent \in Nat, acked \in Nat
    PROVE  [CB!BridgeNext]_(CB!bridgeVars)
<1>1. UNCHANGED <<sent, acked, pending, unsent>>
  BY DEF Upstream, connVars
<1>2. ~B!Take /\ ~B!Settle
  BY <1>1 DEF B!Take, B!Settle
<1>3. CASE UNCHANGED B!bridgeVars
  BY <1>1, <1>3 DEF B!bridgeVars, CB!bridgeVars
<1>4. CASE B!BridgeNext
  BY <1>1, <1>2, <1>4
  DEF B!BridgeNext, CB!BridgeNext, B!Arrive, CB!Arrive, B!HandOver, CB!HandOver,
      B!RemoteFinishes, CB!RemoteFinishes, B!Finish, CB!Finish, B!Abort, CB!Abort
<1> QED
  BY <1>3, <1>4

\* The connection's window bounds the stream's.
LEMMA WindowOfStream ==
    ASSUME NEW s \in Nat, NEW p \in Nat, NEW u \in Nat, NEW a \in Nat,
           s + p + u - a < StreamHighWaterMark + MaxChunk
    PROVE  s - a < StreamHighWaterMark + MaxChunk
OBVIOUS

LEMMA ConnBridgeStep ==
    ASSUME ConnIInv, ConnIInv', [ConnNext]_serverVars
    PROVE  [CB!BridgeNext]_(CB!bridgeVars)
<1>1. SUFFICES CB!BridgeNext \/ UNCHANGED CB!bridgeVars
  OBVIOUS
<1>2. /\ sent \in Nat /\ acked \in Nat /\ pending \in Nat /\ unsent \in Nat
      /\ lost \in Nat /\ acked <= sent
      /\ sent' + pending' + unsent' - acked' < StreamHighWaterMark + MaxChunk
  <2>1. ConnTypeOK /\ TypeOK /\ Owed /\ Owed'
    BY DEF ConnIInv, ConnTypeOK
  <2>2. pending \in Nat
    BY <2>1 DEF ConnTypeOK
  <2> QED
    BY <2>1, <2>2, Zenon DEF ConnTypeOK, TypeOK, Owed, Chunks
<1>3. CASE ConnReadData
  <2>1. PICK len \in 1..MaxChunk :
          \/ /\ ~opened /\ PipeReadSubmitted(len) /\ Buffer(len)
             /\ UNCHANGED <<sent, drains>>
          \/ /\ opened /\ PipeReadSubmitted(len) /\ Submit(len)
             /\ UNCHANGED <<pending, lost>>
          \/ /\ opened /\ PipeReadRejected(len)
             /\ UNCHANGED <<sent, drains, pending, lost>>
    BY <1>3, ConnReadCases
  <2>2. /\ tcp = "open" /\ reading /\ ~destroyed
        /\ UNCHANGED <<acked, unsent, queued, flushed, streamClosed, sClosed>>
    BY <1>3, ConnReadCases DEF downVars
  <2>3. cause = "none"
    BY <2>2 DEF ConnIInv, Life
  <2>4. CASE PipeReadSubmitted(len)
    <3>1. UNCHANGED <<cause, destroyed>>
      BY <2>4 DEF PipeReadSubmitted
    <3>2. UNCHANGED BridgePhase
      BY <2>2, <3>1, PhaseKept
    <3>3. ~streamClosed
      BY <2>1, <2>2, <2>4 DEF ConnIInv, Life, Greeting, Submit, PipeReadRejected, Destroy,
                              PipeReadSubmitted
    <3>4. BridgePhase = "open"
      BY <2>3, <3>3 DEF BridgePhase
    <3>5. CASE sent' + pending' = sent + pending + len
      <4>1. CB!Take
        BY <1>2, <2>2, <3>2, <3>4, <3>5 DEF CB!Take
      <4> QED
        BY <4>1 DEF CB!BridgeNext
    <3>6. CASE sent' + pending' = sent + pending
      BY <1>2, <2>2, <3>2, <3>6 DEF CB!bridgeVars
    <3> QED
      BY <1>2, <2>1, <2>4, <3>5, <3>6 DEF Submit, Buffer
  <2>5. CASE PipeReadRejected(len) /\ UNCHANGED <<sent, drains, pending, lost>>
    <3>1. cause' = "stream"
      BY <2>2, <2>5 DEF PipeReadRejected, Destroy
    <3>2. BridgePhase' = "aborted" /\ BridgePhase \in {"open", "finishing"}
      BY <2>3, <3>1 DEF BridgePhase
    <3> QED
      BY <2>2, <2>5, <3>2 DEF CB!Abort, CB!BridgeNext
  <2> QED
    BY <2>1, <2>4, <2>5
<1>4. CASE StreamOpen
  <2>1. /\ ~opened
        /\ UNCHANGED <<cause, streamClosed, queued, flushed>>
        /\ \/ pending > 0 /\ FlushPending
           \/ pending > 0 /\ FlushRefused
           \/ UNCHANGED <<sent, acked, pending, unsent>>
    BY <1>4, StreamOpenCases DEF downVars
  <2>2. sent = 0 /\ acked = 0 /\ unsent = 0
    BY <2>1 DEF ConnIInv, Greeting
  <2>3. UNCHANGED BridgePhase
    BY <2>1, PhaseKept
  <2>4. CASE pending > 0 /\ FlushPending
    BY <1>2, <2>1, <2>2, <2>3, <2>4 DEF FlushPending, CB!Settle, CB!BridgeNext
  <2>5. CASE pending > 0 /\ FlushRefused
    BY <1>2, <2>1, <2>2, <2>3, <2>5 DEF FlushRefused, CB!bridgeVars
  <2>6. CASE UNCHANGED <<sent, acked, pending, unsent>>
    BY <2>1, <2>3, <2>6 DEF CB!bridgeVars
  <2> QED
    BY <2>1, <2>4, <2>5, <2>6
<1>5. CASE ConnDrain
  <2>1. PICK m \in drains : Oldest(m, drains) /\ acked' = m
    BY <1>5 DEF ConnDrain
  <2>2. m \in (acked + 1)..sent
    BY <2>1 DEF ConnIInv, Owed, Chunks
  <2>3. UNCHANGED <<sent, pending, unsent, queued, flushed, cause, streamClosed>>
    BY <1>5 DEF ConnDrain, endVars, downVars, connVars
  <2>4. UNCHANGED BridgePhase
    BY <2>3, PhaseKept
  <2> QED
    BY <1>2, <2>1, <2>2, <2>3, <2>4 DEF CB!Settle, CB!BridgeNext
<1>6. CASE ~ConnReadData /\ ~StreamOpen /\ ~ConnDrain
  <2>1. [Next]_vars
    BY <1>6 DEF ConnNext, Next, serverVars
  <2>2. Kept /\ Kept'
    <3>1. TypeOK /\ Life /\ Down /\ Chunks(drains, acked, sent)
      BY DEF ConnIInv, ConnTypeOK, Owed
    <3>2. TypeOK' /\ Life' /\ Down' /\ Chunks(drains, acked, sent)'
      BY DEF ConnIInv, ConnTypeOK, Owed
    <3>3. sent - acked < StreamHighWaterMark + MaxChunk
      BY <1>2 DEF ConnIInv, Owed
    <3>4. /\ pending' \in Nat /\ unsent' \in Nat /\ sent' \in Nat /\ acked' \in Nat
      BY <3>2 DEF ConnIInv, ConnTypeOK, TypeOK
    <3>5. sent' - acked' < StreamHighWaterMark + MaxChunk
      <4>1. sent' + pending' + unsent' - acked' < StreamHighWaterMark + MaxChunk
        BY <1>2
      <4> QED
        BY <3>4, <4>1, WindowOfStream
    <3> QED
      BY <3>1, <3>2, <3>3, <3>5 DEF Kept
  <2>3. [B!BridgeNext]_(B!bridgeVars)
    BY <2>1, <2>2, BridgeStep
  <2> QED
    BY <1>2, <1>6, <2>3, ConnUpFrame, SameBridgeStep
<1> QED
  BY <1>3, <1>4, <1>5, <1>6

\* A server connection implements the Bridge, whatever the sizes are: the
\* greeting keeps its place, the window and the promise of an orderly end.
THEOREM ConnIsABridge == ConnSpec => ConnImplementsBridge
<1>1. ConnInit => CB!BridgeInit
  BY DEF ConnInit, Init, CB!BridgeInit, BridgePhase
<1>2. ConnIInv /\ ConnIInv' /\ [ConnNext]_serverVars => [CB!BridgeNext]_(CB!bridgeVars)
  BY ConnBridgeStep
<1> QED
  BY <1>1, <1>2, ConnInvariance, PTL DEF ConnSpec, ConnImplementsBridge, CB!BridgeSpec

=============================================================================
