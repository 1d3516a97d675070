------------------------------ MODULE Holesail ------------------------------
(***************************************************************************)
(* The facade (holesail.cpp) and the program around it (cli.cpp): ready(), *)
(* close(), lookup(), the deferred teardown of a DHT and the shutdown of   *)
(* the command line.                                                       *)
(*                                                                         *)
(* There are two DHTs, each torn down by a DhtReaper of its own: the one   *)
(* of the endpoint and the throwaway one of a lookup.  hyperdht_destroy    *)
(* leaves close callbacks behind, here CloseLevels of them, one for each   *)
(* turn of the loop ("two levels of uv_close at most", holesail.cpp:24);   *)
(* the storage must outlive them.                                          *)
(***************************************************************************)
EXTENDS Integers

CONSTANTS
    DrainTurns,    \* kDrainTurns
    CloseLevels    \* close callbacks hyperdht still owes after a destroy

\* The margin the reaper counts on.
ASSUME DrainAssumption ==
    /\ DrainTurns \in Nat \ {0}
    /\ CloseLevels \in 0..(DrainTurns - 1)

Dhts == {"endpoint", "lookup"}
Arms == {"primary", "fallback"}

VARIABLES
    \* DHTs and their reapers
    dht,        \* where each DHT is in its life
    turns,      \* DhtReaper::turns_left
    owed,       \* close callbacks hyperdht owes
    \* the facade, and Shutdown of the command line
    endpoint,   \* server_ or client_ exists
    closing,    \* Shutdown::closing
    signals,    \* the two signal handles are open
    status,     \* exit status
    started,    \* ready() has been called
    exited,     \* run_endpoint() has returned
    \* lookup()
    arms,       \* the two queries
    arrived,    \* arms that have decoded a record
    count,      \* LookupCtx::pending
    answers,    \* times cb has been called
    answer      \* what it was called with

dhtVars    == <<dht, turns, owed>>
cliVars    == <<endpoint, closing, signals, status, started, exited>>
lookupVars == <<arms, arrived, count, answers, answer>>
vars       == <<dhtVars, cliVars, lookupVars>>

\* "live": dht_ is set; "scheduled": the reaper's first timer is armed;
\* "destroying": hyperdht_destroy has been called; "draining": it has called
\* back and the turns are counted; "freed".
DhtStates == {"none", "live", "scheduled", "destroying", "draining", "freed"}

TypeOK ==
    /\ dht \in [Dhts -> DhtStates]
    /\ turns \in [Dhts -> 0..DrainTurns]
    /\ owed \in [Dhts -> 0..CloseLevels]
    /\ endpoint \in BOOLEAN
    /\ closing \in BOOLEAN
    /\ signals \in BOOLEAN
    /\ status \in {0, 1}
    /\ started \in BOOLEAN
    /\ exited \in BOOLEAN
    /\ arms \in [Arms -> {"idle", "querying", "done"}]
    /\ arrived \subseteq Arms
    /\ count \in 0..2
    /\ answers \in Nat
    /\ answer \in Arms \cup {"none"}

\* uv_signal_init may have failed, which leaves no handle.
Init ==
    /\ dht = [d \in Dhts |-> "none"]
    /\ turns = [d \in Dhts |-> 0]
    /\ owed = [d \in Dhts |-> 0]
    /\ endpoint = FALSE
    /\ closing = FALSE
    /\ signals \in BOOLEAN
    /\ status = 0
    /\ started = FALSE
    /\ exited = FALSE
    /\ arms = [a \in Arms |-> "idle"]
    /\ arrived = {}
    /\ count = 0
    /\ answers = 0
    /\ answer = "none"

-----------------------------------------------------------------------------
(* DhtReaper                                                               *)

\* reap_dht(), for the DHT a pointer to which is given up with it.
Reap(d) == dht' = [dht EXCEPT ![d] = IF @ = "live" THEN "scheduled" ELSE @]

\* begin_reap, on the first tick: outside every hyperdht callback.
BeginReap(d) ==
    /\ dht[d] = "scheduled"
    /\ dht' = [dht EXCEPT ![d] = "destroying"]
    /\ turns' = [turns EXCEPT ![d] = DrainTurns]
    /\ UNCHANGED <<owed, cliVars, lookupVars>>

\* hyperdht has withdrawn its announcements: the ticks start.
Withdrawn(d) ==
    /\ dht[d] = "destroying"
    /\ dht' = [dht EXCEPT ![d] = "draining"]
    /\ owed' = [owed EXCEPT ![d] = CloseLevels]
    /\ UNCHANGED <<turns, cliVars, lookupVars>>

\* Mutant: the DHT is freed on the first tick.
LastTurnFirst(d) == TRUE

\* `--turns_left > 0` is false.
LastTurn(d) == turns[d] - 1 <= 0

\* One turn of the loop: reap_tick, and one level of close callbacks.  A loop
\* runs its timers before its close callbacks.
ReapTick(d) ==
    /\ dht[d] = "draining"
    /\ turns' = [turns EXCEPT ![d] = @ - 1]
    /\ dht' = [dht EXCEPT ![d] = IF LastTurn(d) THEN "freed" ELSE @]
    /\ owed' = [owed EXCEPT ![d] = IF @ > 0 /\ ~LastTurn(d) THEN @ - 1 ELSE @]
    /\ UNCHANGED <<cliVars, lookupVars>>

-----------------------------------------------------------------------------
(* The endpoint                                                            *)

\* Holesail::close(): the server or client first, then the DHT; nothing is
\* left to do the second time.
Close ==
    /\ endpoint' = FALSE
    /\ Reap("endpoint")

\* Mutant: the handles are left open.
BeginShutdownKeepsSignals ==
    /\ closing' = TRUE
    /\ signals' = signals
    /\ IF closing THEN UNCHANGED <<endpoint, dht>> ELSE Close

\* begin_shutdown(): once.
BeginShutdown ==
    /\ closing' = TRUE
    /\ IF closing
       THEN UNCHANGED <<endpoint, dht, signals>>
       ELSE Close /\ signals' = FALSE

\* The fail lambda of run_endpoint().
Fail == status' = 1 /\ BeginShutdown

\* ready(): no DHT, or a DHT and an endpoint that may fail to start.  A client
\* that fails to listen has already reported it through the callback, so that
\* its second Fail finds the shutdown begun.
Ready ==
    /\ ~started /\ ~exited
    /\ started' = TRUE
    /\ \/ Fail
       \/ /\ endpoint' = TRUE
          /\ dht' = [dht EXCEPT !["endpoint"] = "live"]
          /\ UNCHANGED <<status, closing, signals>>
       \/ /\ endpoint' = FALSE
          /\ dht' = [dht EXCEPT !["endpoint"] = "scheduled"]
          /\ status' = 1 /\ closing' = TRUE /\ signals' = FALSE
    /\ UNCHANGED <<turns, owed, exited, lookupVars>>

\* The endpoint reports, later, that it could not listen.
ListenFails ==
    /\ endpoint
    /\ Fail
    /\ UNCHANGED <<turns, owed, started, exited, lookupVars>>

OnSignal ==
    /\ signals /\ started
    /\ BeginShutdown
    /\ UNCHANGED <<turns, owed, status, started, exited, lookupVars>>

\* uv_run returns when no handle is left; close() again, drain, leave.
Exit ==
    /\ started /\ ~exited /\ ~signals
    /\ dht["endpoint"] \in {"none", "freed"}
    /\ exited' = TRUE
    /\ Close
    /\ UNCHANGED <<turns, owed, closing, signals, status, started, lookupVars>>

-----------------------------------------------------------------------------
(* lookup()                                                                *)

\* Mutants: the fallback is asked first; the arm that could not start is
\* never settled.
AnswerFallbackFirst(S) ==
    IF "fallback" \in S THEN "fallback" ELSE IF "primary" \in S THEN "primary" ELSE "none"
ArmsSettledNever(ok) == 2

\* The record of the secure interpretation, else of the other one.
Answer(S) ==
    IF "primary" \in S THEN "primary" ELSE IF "fallback" \in S THEN "fallback" ELSE "none"

\* `pending` when lookup() returns: an arm that did not start is settled there.
ArmsPending(ok) == IF ok = Arms THEN 2 ELSE 1

\* lookup(): both queries at once.  If none starts the DHT is given up and the
\* caller is told by the return value.
Lookup ==
    /\ dht["lookup"] = "none"
    /\ \E ok \in SUBSET Arms :
          IF ok = {}
          THEN /\ dht' = [dht EXCEPT !["lookup"] = "scheduled"]
               /\ UNCHANGED <<arms, count>>
          ELSE /\ dht' = [dht EXCEPT !["lookup"] = "live"]
               /\ arms' = [a \in Arms |-> IF a \in ok THEN "querying" ELSE "done"]
               /\ count' = ArmsPending(ok)
    /\ UNCHANGED <<turns, owed, cliVars, arrived, answers, answer>>

\* lookup_value_cb with a record that decodes.  DhtRecord says which one an
\* arm keeps.
LookupValue(a) ==
    /\ arms[a] = "querying"
    /\ arrived' = arrived \cup {a}
    /\ UNCHANGED <<dhtVars, cliVars, arms, count, answers, answer>>

\* lookup_done_cb; the last arm finishes the lookup.
LookupDone(a) ==
    /\ arms[a] = "querying"
    /\ arms' = [arms EXCEPT ![a] = "done"]
    /\ count' = count - 1
    /\ IF count' > 0
       THEN UNCHANGED <<dht, answers, answer>>
       ELSE /\ Reap("lookup")
            /\ answers' = answers + 1
            /\ answer' = Answer(arrived)
    /\ UNCHANGED <<turns, owed, cliVars, arrived>>

-----------------------------------------------------------------------------

Next ==
    \/ \E d \in Dhts : BeginReap(d) \/ Withdrawn(d) \/ ReapTick(d)
    \/ Ready \/ ListenFails \/ OnSignal \/ Exit
    \/ Lookup
    \/ \E a \in Arms : LookupValue(a) \/ LookupDone(a)

\* The loop's timers fire, hyperdht finishes what it was asked, and the loop
\* returns when it has nothing left.
Fairness ==
    /\ \A d \in Dhts : WF_vars(BeginReap(d)) /\ WF_vars(Withdrawn(d)) /\ WF_vars(ReapTick(d))
    /\ \A a \in Arms : WF_vars(LookupDone(a))
    /\ WF_vars(Exit)

Spec == Init /\ [][Next]_vars /\ Fairness

-----------------------------------------------------------------------------
(* Properties                                                              *)

\* A DHT is given up only when nothing borrows it any more, and freed only
\* when it owes no close callback (holesail.cpp:14-60, 179-192, 279-293).
FreedLast ==
    /\ dht["endpoint"] # "live" => ~endpoint
    /\ dht["lookup"] # "live" => \A a \in Arms : arms[a] # "querying"
    /\ \A d \in Dhts : dht[d] = "freed" => owed[d] = 0

\* The callback of a lookup is called exactly once, when both arms are done,
\* and prefers the secure interpretation (holesail.hpp:107-109,
\* holesail.cpp:279-300).
LookupAnswer ==
    /\ answers = (IF \A a \in Arms : arms[a] = "done" THEN 1 ELSE 0)
    /\ answers = 1 => answer = (IF "primary" \in arrived THEN "primary"
                                ELSE IF "fallback" \in arrived THEN "fallback" ELSE "none")

\* A shutdown, whoever began it, ends the program, with no handle left open
\* (cli.cpp:195-281).
ShutdownEnds == closing ~> exited /\ ~signals /\ dht["endpoint"] \in {"none", "freed"}

\* A lookup that was started gives its DHT back.
LookupEnds == dht["lookup"] = "live" ~> dht["lookup"] = "freed"
=============================================================================
