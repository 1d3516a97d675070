-------------------------- MODULE DhtRecordProofs ---------------------------
(***************************************************************************)
(* Proofs about DhtRecord for any set of nodes and of records, any number  *)
(* of restarts and of lost messages, and any order of replies: a put is    *)
(* not refused for its seq by a node the server heard, and a reader keeps  *)
(* the newest record it heard.                                             *)
(*                                                                         *)
(* The server remembers one reply of all those it heard, and chooses the   *)
(* seq by that one.  So the invariant is about that one (NewestKept): it   *)
(* was heard, and no other is newer.                                       *)
(***************************************************************************)
EXTENDS DhtRecord, TLAPS

\* The GetCtx stands for all the replies it has heard.
NewestKept ==
    IF heard = {} THEN ctx = None
    ELSE ctx \in heard /\ \A e \in heard : e.seq <= ctx.seq

\* The server asks or puts, never both; and with nobody to ask it hears nobody.
OneAtATime ==
    /\ getting => todo = {}
    /\ Nodes = {} => heard = {}

RecordIInv == TypeOK /\ NewestKept /\ OneAtATime /\ PutDominates /\ ReaderKeepsNewest

USE ValuesAssumption, BoundsAssumption DEF ValuesAssumption, BoundsAssumption

-----------------------------------------------------------------------------
(* Replies.                                                                *)

\* Neither an empty node nor an empty GetCtx can be taken for a reply.
LEMMA NoneIsNoEntry ==
    /\ None \notin Entry
    /\ None.seq = Nothing
    /\ \A e \in Entry : e.seq \in Nat /\ e.seq # Nothing /\ e.val \in AllValues
BY DEF None, Entry, Nothing

\* get_value_cb keeps the newest of what it had and what it hears.
LEMMA NewestReplyFacts ==
    ASSUME NEW old \in Entry \cup {None}, NEW e \in Entry
    PROVE  /\ NewestReply(old, e) \in {old, e}
           /\ old = None => NewestReply(old, e) = e
           /\ old \in Entry => /\ NewestReply(old, e) \in Entry
                               /\ old.seq <= NewestReply(old, e).seq
                               /\ e.seq <= NewestReply(old, e).seq
<1>1. CASE old = None
  BY <1>1, NoneIsNoEntry DEF NewestReply
<1>2. CASE old \in Entry
  <2>1. old.seq \in Nat /\ e.seq \in Nat /\ old.seq # Nothing /\ old # None
    BY <1>2, NoneIsNoEntry
  <2>2. CASE e.seq < old.seq
    <3>1. NewestReply(old, e) = old
      BY <2>1, <2>2 DEF NewestReply
    <3> QED
      BY <1>2, <2>1, <2>2, <3>1
  <2>3. CASE ~(e.seq < old.seq)
    <3>1. NewestReply(old, e) = e
      BY <2>1, <2>3 DEF NewestReply
    <3> QED
      BY <2>1, <2>3, <3>1
  <2> QED
    BY <2>2, <2>3
<1> QED
  BY <1>1, <1>2

\* next_seq() chooses a seq above that of the newest reply, or the same one
\* when that reply was the record itself.
LEMMA NextSeqFacts ==
    ASSUME NEW c \in Entry, NEW r \in Values
    PROVE  LET s == NextSeq(c.seq # Nothing, c.seq, c.val = r)
           IN  /\ s \in Nat
               /\ c.seq < s \/ (c.seq = s /\ c = [seq |-> s, val |-> r])
<1>1. c.seq \in Nat /\ c.seq # Nothing
  BY NoneIsNoEntry
<1>2. CASE c.val = r
  <2>1. NextSeq(c.seq # Nothing, c.seq, c.val = r) = c.seq
    BY <1>1, <1>2 DEF NextSeq
  <2>2. c = [seq |-> c.seq, val |-> r]
    BY <1>2 DEF Entry
  <2> QED
    BY <1>1, <2>1, <2>2
<1>3. CASE c.val # r
  <2>1. NextSeq(c.seq # Nothing, c.seq, c.val = r) = c.seq + 1
    BY <1>1, <1>3 DEF NextSeq
  <2> QED
    BY <1>1, <2>1
<1> QED
  BY <1>2, <1>3

-----------------------------------------------------------------------------

LEMMA InitRecordIInv == Init => RecordIInv
<1> SUFFICES ASSUME Init PROVE RecordIInv
  OBVIOUS
<1>1. TypeOK
  <2>1. store \in [Nodes -> Entry \cup {None}]
    <3>1. PICK e \in [seq : 0..1, val : AllValues] \cup {None} : store = [n \in Nodes |-> e]
      BY DEF Init
    <3>2. e \in Entry \cup {None}
      BY DEF Entry
    <3> QED
      BY <3>1, <3>2
  <2>2. lost \in 0..MaxLost /\ restarts \in 0..MaxRestarts
    <3>1. lost = 0 /\ restarts = 0
      BY DEF Init
    <3> QED
      BY <3>1
  <2>3. /\ record \in Values /\ getting \in BOOLEAN /\ ctx \in Entry \cup {None}
        /\ asked \subseteq Nodes /\ heard \subseteq Entry /\ putting \in Entry \cup {None}
        /\ todo \subseteq Nodes /\ reader \in Entry \cup {None} /\ unread \subseteq Nodes
        /\ read \subseteq Entry
    BY DEF Init
  <2> QED
    BY <2>1, <2>2, <2>3, Zenon DEF TypeOK
<1>2. NewestKept /\ OneAtATime /\ PutDominates
  BY DEF Init, NewestKept, OneAtATime, PutDominates
<1>3. ReaderKeepsNewest
  BY DEF Init, ReaderKeepsNewest
<1> QED
  BY <1>1, <1>2, <1>3 DEF RecordIInv

-----------------------------------------------------------------------------
(* Preservation, one lemma per part.                                       *)

\* A message is lost within the bound.
LEMMA LoseType ==
    ASSUME lost \in 0..MaxLost, Lose \/ lost' = lost
    PROVE  lost' \in 0..MaxLost
<1>1. CASE Lose
  <2>1. lost < MaxLost /\ lost' = lost + 1
    BY <1>1 DEF Lose
  <2>2. lost + 1 \in 0..MaxLost
    BY <2>1
  <2> QED
    BY <2>1, <2>2
<1> QED
  BY <1>1

\* What a node is asked for is nothing or an entry.
LEMMA StoredEntry ==
    ASSUME TypeOK, NEW n \in Nodes, store[n] # None
    PROVE  store[n] \in Entry
BY DEF TypeOK

LEMMA RecordTypePreserved ==
    ASSUME RecordIInv, [Next]_vars
    PROVE  TypeOK'
<1>0. TypeOK /\ NewestKept
  BY DEF RecordIInv
<1>l. lost \in 0..MaxLost /\ restarts \in 0..MaxRestarts
  BY <1>0 DEF TypeOK
<1>1. CASE Publish
  BY <1>0, <1>1 DEF Publish, TypeOK, readerVars, boundVars
<1>2. ASSUME NEW n \in Nodes, GetValue(n) PROVE TypeOK'
  <2>1. lost' \in 0..MaxLost
    BY <1>l, <1>2, LoseType DEF GetValue
  <2>2. asked' \subseteq Nodes
    BY <1>0, <1>2 DEF GetValue, TypeOK
  <2>3. ctx' \in Entry \cup {None} /\ heard' \subseteq Entry
    <3>1. CASE UNCHANGED <<ctx, heard>>
      BY <1>0, <3>1 DEF TypeOK
    <3>2. CASE /\ store[n] # None
               /\ ctx' = NewestReply(ctx, store[n]) /\ heard' = heard \cup {store[n]}
      <4>1. store[n] \in Entry /\ ctx \in Entry \cup {None} /\ heard \subseteq Entry
        BY <1>0, <3>2, StoredEntry DEF TypeOK
      <4>2. ctx' \in {ctx, store[n]}
        BY <3>2, <4>1, NewestReplyFacts
      <4> QED
        BY <3>2, <4>1, <4>2
    <3> QED
      BY <1>2, <3>1, <3>2 DEF GetValue
  <2> QED
    BY <1>0, <1>2, <2>1, <2>2, <2>3 DEF GetValue, TypeOK, readerVars
<1>3. CASE GetDone
  <2>1. /\ putting' = [seq |-> NextSeq(ctx.seq # Nothing, ctx.seq, ctx.val = record),
                       val |-> record]
        /\ todo' = Nodes /\ getting' = FALSE
        /\ UNCHANGED <<store, record, ctx, asked, heard, readerVars, boundVars>>
    BY <1>3 DEF GetDone
  <2>2. NextSeq(ctx.seq # Nothing, ctx.seq, ctx.val = record) \in Nat
    <3>1. CASE ctx = None
      BY <3>1, NoneIsNoEntry DEF NextSeq
    <3>2. CASE ctx \in Entry
      BY <1>0, <3>2, NextSeqFacts DEF TypeOK
    <3> QED
      BY <1>0, <3>1, <3>2 DEF TypeOK
  <2>3. putting' \in Entry
    BY <1>0, <2>1, <2>2 DEF TypeOK, Entry, AllValues
  <2> QED
    BY <1>0, <2>1, <2>3 DEF TypeOK, readerVars, boundVars
<1>4. ASSUME NEW n \in Nodes, PutArrives(n) PROVE TypeOK'
  <2>1. lost' \in 0..MaxLost
    BY <1>l, <1>4, LoseType DEF PutArrives
  <2>2. store' \in [Nodes -> Entry \cup {None}]
    BY <1>0, <1>4 DEF PutArrives, TypeOK
  <2> QED
    BY <1>0, <1>4, <2>1, <2>2 DEF PutArrives, TypeOK, readerVars
<1>5. CASE Restart
  <2>1. lost' \in 0..MaxLost
    BY <1>l, <1>5, LoseType DEF Restart
  <2>2. restarts' \in 0..MaxRestarts
    <3>1. restarts < MaxRestarts /\ restarts' = restarts + 1
      BY <1>5 DEF Restart
    <3>2. restarts + 1 \in 0..MaxRestarts
      BY <1>l, <3>1
    <3> QED
      BY <3>1, <3>2
  <2> QED
    BY <1>0, <1>5, <2>1, <2>2 DEF Restart, TypeOK, readerVars
<1>6. ASSUME NEW n \in Nodes, ReadValue(n) PROVE TypeOK'
  <2>1. reader' \in Entry \cup {None} /\ read' \subseteq Entry
    BY <1>0, <1>6, StoredEntry DEF ReadValue, TypeOK
  <2> QED
    BY <1>0, <1>6, <2>1 DEF ReadValue, TypeOK, serverVars, boundVars
<1>7. CASE UNCHANGED vars
  BY <1>0, <1>7 DEF vars, serverVars, readerVars, boundVars, TypeOK
<1> QED
  BY <1>1, <1>2, <1>3, <1>4, <1>5, <1>6, <1>7 DEF Next

LEMMA NewestPreserved ==
    ASSUME RecordIInv, [Next]_vars
    PROVE  NewestKept'
<1>0. TypeOK /\ NewestKept
  BY DEF RecordIInv
<1>1. CASE Publish
  BY <1>1 DEF Publish, NewestKept
<1>2. ASSUME NEW n \in Nodes, GetValue(n) PROVE NewestKept'
  <2>1. CASE UNCHANGED <<ctx, heard>>
    BY <1>0, <2>1 DEF NewestKept
  <2>2. CASE /\ store[n] # None
             /\ ctx' = NewestReply(ctx, store[n]) /\ heard' = heard \cup {store[n]}
    <3>1. store[n] \in Entry /\ ctx \in Entry \cup {None} /\ heard \subseteq Entry
      BY <1>0, <2>2, StoredEntry DEF TypeOK
    <3>2. store[n].seq \in Nat
      BY <3>1, NoneIsNoEntry
    <3>3. CASE heard = {}
      <4>1. ctx' = store[n] /\ heard' = {store[n]}
        BY <1>0, <2>2, <3>1, <3>3, NewestReplyFacts DEF NewestKept
      <4> QED
        BY <3>2, <4>1 DEF NewestKept
    <3>4. CASE heard # {}
      <4>1. ctx \in heard /\ ctx \in Entry /\ \A e \in heard : e.seq <= ctx.seq
        BY <1>0, <3>1, <3>4 DEF NewestKept
      <4>2. /\ ctx' \in {ctx, store[n]} /\ ctx' \in Entry
            /\ ctx.seq <= ctx'.seq /\ store[n].seq <= ctx'.seq
        BY <2>2, <3>1, <4>1, NewestReplyFacts
      <4>3. ctx.seq \in Nat /\ ctx'.seq \in Nat
        BY <4>1, <4>2, NoneIsNoEntry
      <4>4. ASSUME NEW e \in heard PROVE e.seq <= ctx'.seq
        <5>1. e.seq \in Nat /\ e.seq <= ctx.seq
          BY <3>1, <4>1, NoneIsNoEntry
        <5> QED
          BY <4>2, <4>3, <5>1
      <4> QED
        BY <2>2, <4>1, <4>2, <4>4 DEF NewestKept
    <3> QED
      BY <3>3, <3>4
  <2> QED
    BY <1>2, <2>1, <2>2 DEF GetValue
<1>3. CASE \/ GetDone \/ Restart \/ UNCHANGED vars
           \/ \E n \in Nodes : PutArrives(n) \/ ReadValue(n)
  <2>1. UNCHANGED <<ctx, heard>>
    BY <1>3 DEF GetDone, Restart, PutArrives, ReadValue, serverVars, vars
  <2> QED
    BY <1>0, <2>1 DEF NewestKept
<1> QED
  BY <1>1, <1>2, <1>3 DEF Next

LEMMA OneAtATimePreserved ==
    ASSUME RecordIInv, [Next]_vars
    PROVE  OneAtATime'
<1>0. TypeOK /\ OneAtATime
  BY DEF RecordIInv
<1>1. CASE Publish
  BY <1>1 DEF Publish, OneAtATime
<1>2. ASSUME NEW n \in Nodes, GetValue(n) \/ PutArrives(n) \/ ReadValue(n) PROVE OneAtATime'
  <2>1. getting' = getting /\ todo' \subseteq todo
    BY <1>2 DEF GetValue, PutArrives, ReadValue, serverVars
  <2> QED
    BY <1>0, <2>1 DEF OneAtATime
<1>3. CASE GetDone \/ Restart
  <2>1. getting' = FALSE /\ heard' = heard
    BY <1>3 DEF GetDone, Restart
  <2> QED
    BY <1>0, <2>1 DEF OneAtATime
<1>4. CASE UNCHANGED vars
  BY <1>0, <1>4 DEF vars, serverVars, OneAtATime
<1> QED
  BY <1>1, <1>2, <1>3, <1>4 DEF Next

LEMMA PutPreserved ==
    ASSUME RecordIInv, [Next]_vars
    PROVE  PutDominates'
<1>0. TypeOK /\ NewestKept /\ OneAtATime /\ PutDominates
  BY DEF RecordIInv
<1>1. CASE Publish
  BY <1>1 DEF Publish, PutDominates
<1>2. ASSUME NEW n \in Nodes, GetValue(n) PROVE PutDominates'
  <2>1. todo' = {}
    BY <1>0, <1>2 DEF GetValue, OneAtATime
  <2> QED
    BY <2>1 DEF PutDominates
<1>3. CASE GetDone
  <2>1. /\ putting' = [seq |-> NextSeq(ctx.seq # Nothing, ctx.seq, ctx.val = record),
                       val |-> record]
        /\ UNCHANGED <<record, heard>>
    BY <1>3 DEF GetDone
  <2>2. CASE heard = {}
    BY <2>1, <2>2 DEF PutDominates
  <2>3. CASE heard # {}
    <3>1. ctx \in heard /\ ctx \in Entry /\ heard \subseteq Entry /\ record \in Values
      BY <1>0, <2>3 DEF NewestKept, TypeOK
    <3>2. PICK s : s = putting'.seq
      OBVIOUS
    <3>3. s \in Nat /\ (ctx.seq < s \/ (ctx.seq = s /\ ctx = [seq |-> s, val |-> record]))
      BY <2>1, <3>1, <3>2, NextSeqFacts
    <3>4. ASSUME NEW e \in heard
          PROVE  e.seq < s \/ (e.seq = s /\ [seq |-> e.seq, val |-> record] \in heard)
      <4>1. e.seq <= ctx.seq /\ e.seq \in Nat /\ ctx.seq \in Nat
        BY <1>0, <2>3, <3>1, NoneIsNoEntry DEF NewestKept
      <4>2. CASE ctx.seq < s
        BY <3>3, <4>1, <4>2
      <4>3. CASE ctx.seq = s /\ ctx = [seq |-> s, val |-> record]
        <5>1. CASE e.seq = s
          BY <3>1, <4>3, <5>1
        <5>2. CASE e.seq # s
          BY <3>3, <4>1, <4>3, <5>2
        <5> QED
          BY <5>1, <5>2
      <4> QED
        BY <3>3, <4>2, <4>3
    <3> QED
      BY <2>1, <3>2, <3>4 DEF PutDominates
  <2> QED
    BY <2>2, <2>3
<1>4. ASSUME NEW n \in Nodes, PutArrives(n) PROVE PutDominates'
  <2>1. n \notin todo'
    BY <1>4 DEF PutArrives
  <2> QED
    BY <2>1 DEF PutDominates
<1>5. CASE Restart
  <2>1. todo' = {} /\ heard' = heard
    BY <1>5 DEF Restart
  <2> QED
    BY <1>0, <2>1 DEF PutDominates, OneAtATime
<1>6. CASE UNCHANGED vars \/ \E n \in Nodes : ReadValue(n)
  <2>1. UNCHANGED <<todo, heard, putting, record>>
    BY <1>6 DEF ReadValue, vars, serverVars
  <2> QED
    BY <1>0, <2>1 DEF PutDominates
<1> QED
  BY <1>1, <1>2, <1>3, <1>4, <1>5, <1>6 DEF Next

LEMMA ReaderPreserved ==
    ASSUME RecordIInv, [Next]_vars
    PROVE  ReaderKeepsNewest'
<1>0. TypeOK /\ ReaderKeepsNewest
  BY DEF RecordIInv
<1> DEFINE D == {e \in read : e.val # Malformed}
<1>1. CASE UNCHANGED <<reader, read>>
  BY <1>0, <1>1 DEF ReaderKeepsNewest
<1>2. ASSUME NEW n \in Nodes, store[n] # None,
             reader' = IF KeepsReply(reader, store[n]) THEN store[n] ELSE reader,
             read' = read \cup {store[n]}
      PROVE  ReaderKeepsNewest'
  <2>1. PICK r : r = store[n]
    OBVIOUS
  <2>2. r \in Entry /\ r.seq \in Nat /\ read \subseteq Entry
    BY <1>0, <1>2, <2>1, StoredEntry, NoneIsNoEntry DEF TypeOK
  <2>3. CASE r.val = Malformed
    <3>1. reader' = reader /\ {e \in read' : e.val # Malformed} = D
      BY <1>2, <2>1, <2>3 DEF KeepsReply
    <3> QED
      BY <1>0, <3>1 DEF ReaderKeepsNewest
  <2>4. CASE r.val # Malformed
    <3>1. {e \in read' : e.val # Malformed} = D \cup {r}
      BY <1>2, <2>1, <2>4
    <3>2. CASE D = {}
      <4>1. reader = None
        BY <1>0, <3>2 DEF ReaderKeepsNewest
      <4>2. reader' = r
        BY <1>2, <2>1, <2>4, <4>1, NoneIsNoEntry DEF KeepsReply
      <4>3. r.seq <= r.seq
        BY <2>2
      <4> QED
        BY <3>1, <3>2, <4>2, <4>3 DEF ReaderKeepsNewest
    <3>3. CASE D # {}
      <4>1. reader \in D /\ \A e \in D : e.seq <= reader.seq
        BY <1>0, <3>3 DEF ReaderKeepsNewest
      <4>2. reader \in Entry /\ reader.seq \in Nat /\ reader.seq # Nothing
        BY <2>2, <4>1, NoneIsNoEntry
      <4>3. CASE r.seq > reader.seq
        <5>1. reader' = r
          BY <1>2, <2>1, <2>4, <4>3 DEF KeepsReply
        <5>2. ASSUME NEW e \in D PROVE e.seq <= r.seq
          <6>1. e.seq \in Nat /\ e.seq <= reader.seq
            BY <2>2, <4>1, NoneIsNoEntry
          <6> QED
            BY <2>2, <4>2, <4>3, <6>1
        <5>3. r.seq <= r.seq
          BY <2>2
        <5> QED
          BY <3>1, <5>1, <5>2, <5>3 DEF ReaderKeepsNewest
      <4>4. CASE ~(r.seq > reader.seq)
        <5>1. reader' = reader
          BY <1>2, <2>1, <4>2, <4>4 DEF KeepsReply
        <5>2. r.seq <= reader.seq
          BY <2>2, <4>2, <4>4
        <5> QED
          BY <3>1, <4>1, <5>1, <5>2 DEF ReaderKeepsNewest
      <4> QED
        BY <4>3, <4>4
    <3> QED
      BY <3>2, <3>3
  <2> QED
    BY <2>3, <2>4
<1>3. ASSUME NEW n \in Nodes, ReadValue(n) PROVE ReaderKeepsNewest'
  BY <1>1, <1>2, <1>3 DEF ReadValue
<1>4. CASE \/ Publish \/ GetDone \/ Restart \/ UNCHANGED vars
           \/ \E n \in Nodes : GetValue(n) \/ PutArrives(n)
  <2>1. UNCHANGED <<reader, read>>
    BY <1>4 DEF Publish, GetDone, Restart, GetValue, PutArrives, readerVars, vars
  <2> QED
    BY <1>1, <2>1
<1> QED
  BY <1>3, <1>4 DEF Next

-----------------------------------------------------------------------------
(* The theorems.                                                           *)

LEMMA RecordInductive == RecordIInv /\ [Next]_vars => RecordIInv'
BY RecordTypePreserved, NewestPreserved, OneAtATimePreserved, PutPreserved, ReaderPreserved
DEF RecordIInv

LEMMA RecordInvariance == Spec => []RecordIInv
BY InitRecordIInv, RecordInductive, PTL DEF Spec

\* Every variable keeps its type; in particular a put always carries a seq.
THEOREM RecordTypeCorrect == Spec => []TypeOK
<1>1. RecordIInv => TypeOK
  BY DEF RecordIInv
<1> QED
  BY <1>1, RecordInvariance, PTL

\* What the server puts is above every reply it heard, or repeats one, however
\* many nodes there are and whatever is lost (get_value_cb, next_seq()).
THEOREM PutIsNotStale == Spec => []PutDominates
<1>1. RecordIInv => PutDominates
  BY DEF RecordIInv
<1> QED
  BY <1>1, RecordInvariance, PTL

\* A reader holds the newest record it could decode, in whatever order the
\* replies came (mutable_cb, lookup_value_cb).
THEOREM ReaderHasNewest == Spec => []ReaderKeepsNewest
<1>1. RecordIInv => ReaderKeepsNewest
  BY DEF RecordIInv
<1> QED
  BY <1>1, RecordInvariance, PTL

=============================================================================
