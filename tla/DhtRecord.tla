----------------------------- MODULE DhtRecord ------------------------------
(***************************************************************************)
(* The host/port record: how HolesailServer publishes it (server.cpp,      *)
(* publish() and its callbacks) and how HolesailClient and lookup() read   *)
(* it (client.cpp, mutable_cb; holesail.cpp, lookup_value_cb).             *)
(*                                                                         *)
(* The DHT is a set of nodes that each keep one signed value with its      *)
(* sequence number and refuse one that is older, or as old and different.  *)
(* That rule is hyperdht's, not this repository's; the server's seq rule   *)
(* is written against it.  A get hears the nodes one by one in any order   *)
(* and may end before it has heard them all; a put reaches the nodes one   *)
(* by one; both may lose messages, at most MaxLost of them.  The server may *)
(* be restarted with another record, at most MaxRestarts times.            *)
(***************************************************************************)
EXTENDS Integers, FiniteSets

CONSTANTS
    Nodes,        \* the DHT nodes closest to the key
    Values,       \* records a server publishes
    Malformed,    \* a value that decode_record() refuses
    MaxLost,      \* bound: lost replies and puts
    MaxRestarts   \* bound: restarts of the server

ASSUME ValuesAssumption == Malformed \notin Values /\ Values # {}
ASSUME BoundsAssumption == MaxLost \in Nat /\ MaxRestarts \in Nat

VARIABLES
    store,    \* node -> what it keeps
    record,   \* record_ of the running server
    getting,  \* a GetCtx is in flight
    ctx,      \* its seq and value; seq -1 while `had` is false
    asked,    \* nodes whose reply it may still hear
    heard,    \* history: the replies it has heard
    putting,  \* the put in flight
    todo,     \* nodes it has not reached
    reader,   \* record_seq_ and record_ of a reader; seq -1 for none
    unread,   \* nodes the reader may still hear
    read,     \* history: the replies the reader has heard
    lost,     \* messages lost so far
    restarts  \* restarts so far

serverVars == <<record, getting, ctx, asked, heard, putting, todo>>
readerVars == <<reader, unread, read>>
boundVars  == <<lost, restarts>>
vars       == <<store, serverVars, readerVars, boundVars>>

AllValues == Values \cup {Malformed}
Entry     == [seq : Nat, val : AllValues]
Nothing   == -1
None      == [seq |-> Nothing, val |-> Malformed]

TypeOK ==
    /\ store \in [Nodes -> Entry \cup {None}]
    /\ record \in Values
    /\ getting \in BOOLEAN
    /\ ctx \in Entry \cup {None}
    /\ asked \subseteq Nodes
    /\ heard \subseteq Entry
    /\ putting \in Entry \cup {None}
    /\ todo \subseteq Nodes
    /\ reader \in Entry \cup {None}
    /\ unread \subseteq Nodes
    /\ read \subseteq Entry
    /\ lost \in 0..MaxLost
    /\ restarts \in 0..MaxRestarts

\* The nodes agree on what an earlier program published, if anything.
Init ==
    /\ \E e \in [seq : 0..1, val : AllValues] \cup {None} : store = [n \in Nodes |-> e]
    /\ record \in Values
    /\ getting = FALSE
    /\ ctx = None
    /\ asked = {}
    /\ heard = {}
    /\ putting = None
    /\ todo = {}
    /\ reader = None
    /\ unread = Nodes
    /\ read = {}
    /\ lost = 0
    /\ restarts = 0

Lose == lost < MaxLost /\ lost' = lost + 1

-----------------------------------------------------------------------------
(* The server                                                              *)

\* publish(), at the start and at every refresh: 50 minutes apart, so that a
\* refresh finds the previous get and put settled.
Publish ==
    /\ ~getting /\ todo = {}
    /\ getting' = TRUE
    /\ ctx' = None
    /\ asked' = Nodes
    /\ heard' = {}
    /\ UNCHANGED <<store, record, putting, todo, readerVars, boundVars>>

\* Mutant: the last reply wins.
NewestReplyLast(old, e) == e

\* get_value_cb keeps the reply with the highest seq, the last one of equals.
NewestReply(old, e) ==
    IF old.seq # Nothing /\ e.seq < old.seq THEN old ELSE e

GetValue(n) ==
    /\ getting /\ n \in asked
    /\ asked' = asked \ {n}
    /\ \/ /\ store[n] # None
          /\ ctx' = NewestReply(ctx, store[n])
          /\ heard' = heard \cup {store[n]}
          /\ lost' = lost
       \/ store[n] = None /\ UNCHANGED <<ctx, heard, lost>>
       \/ store[n] # None /\ Lose /\ UNCHANGED <<ctx, heard>>
    /\ UNCHANGED <<store, record, getting, putting, todo, readerVars, restarts>>

\* Mutant: the seq is never raised.
NextSeqKept(had, old, unchanged) == IF ~had THEN 0 ELSE old

\* next_seq()
NextSeq(had, old, unchanged) ==
    IF ~had THEN 0 ELSE IF unchanged THEN old ELSE old + 1

\* get_done_cb: put the record under the next seq.
GetDone ==
    /\ getting /\ asked = {}
    /\ getting' = FALSE
    /\ putting' = [seq |-> NextSeq(ctx.seq # Nothing, ctx.seq, ctx.val = record),
                   val |-> record]
    /\ todo' = Nodes
    /\ UNCHANGED <<store, record, ctx, asked, heard, readerVars, boundVars>>

\* A node's rule for a put (hyperdht's).
Accepts(old, new) ==
    \/ old = None
    \/ new.seq > old.seq
    \/ new = old

PutArrives(n) ==
    /\ n \in todo
    /\ todo' = todo \ {n}
    /\ \/ /\ store' = [store EXCEPT ![n] = IF Accepts(@, putting) THEN putting ELSE @]
          /\ lost' = lost
       \/ Lose /\ store' = store
    /\ UNCHANGED <<record, getting, ctx, asked, heard, putting, readerVars, restarts>>

\* The program is stopped and started with another host, port or protocol.
\* The GetCtx dies with it, and what is left of a put in flight is lost.
Restart ==
    /\ restarts < MaxRestarts
    /\ restarts' = restarts + 1
    /\ record' \in Values \ {record}
    /\ getting' = FALSE
    /\ asked' = {}
    /\ todo' = {}
    /\ IF todo = {} THEN lost' = lost ELSE Lose
    /\ UNCHANGED <<store, ctx, heard, putting, readerVars>>

-----------------------------------------------------------------------------
(* A reader                                                                *)

\* Mutant: a malformed value replaces a record.
KeepsReplyUnread(old, e) == e.seq > old.seq

\* mutable_cb and lookup_value_cb: newer than what is there, and decodable.
KeepsReply(old, e) ==
    /\ old.seq = Nothing \/ e.seq > old.seq
    /\ e.val # Malformed

ReadValue(n) ==
    /\ n \in unread
    /\ unread' = unread \ {n}
    /\ IF store[n] = None
       THEN UNCHANGED <<reader, read>>
       ELSE /\ reader' = IF KeepsReply(reader, store[n]) THEN store[n] ELSE reader
            /\ read' = read \cup {store[n]}
    /\ UNCHANGED <<store, serverVars, boundVars>>

-----------------------------------------------------------------------------

Next ==
    \/ Publish \/ GetDone \/ Restart
    \/ \E n \in Nodes : GetValue(n) \/ PutArrives(n) \/ ReadValue(n)

\* The refresh timer runs, and every query and put comes to its end.
Fairness ==
    /\ WF_vars(Publish)
    /\ WF_vars(GetDone)
    /\ \A n \in Nodes : WF_vars(GetValue(n)) /\ WF_vars(PutArrives(n))

Spec == Init /\ [][Next]_vars /\ Fairness

-----------------------------------------------------------------------------
(* Properties                                                              *)

\* What the server puts is not refused for its seq by a node it heard from:
\* the seq is above every reply, or equals the highest one because some reply
\* with that seq already carried this record (server.cpp:151-157, 447-468).
PutDominates ==
    todo = Nodes => \A e \in heard :
        \/ e.seq < putting.seq
        \/ e.seq = putting.seq /\ [seq |-> e.seq, val |-> record] \in heard

\* A reader ends with the newest record it could decode among the replies,
\* whatever their order (client.cpp:146-161, holesail.cpp:263-277).
ReaderKeepsNewest ==
    LET decodable == {e \in read : e.val # Malformed}
    IN  IF decodable = {} THEN reader = None
        ELSE reader \in decodable /\ \A e \in decodable : e.seq <= reader.seq

\* The record of the running server reaches every node and stays, although the
\* server restarts with another record and one message is lost.  With two
\* lost, two records can share a seq: a node then refuses the put of the
\* other, and a get that hears the server's own record last never raises it.
RecordSettles == <>[](\A n \in Nodes : store[n].val = record)
=============================================================================
