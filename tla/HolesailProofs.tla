--------------------------- MODULE HolesailProofs ---------------------------
(***************************************************************************)
(* Proofs about Holesail for every number of drain turns and of levels of  *)
(* close callbacks: a DHT is given up when nothing borrows it and freed    *)
(* when it owes nothing, and a lookup answers once.                        *)
(*                                                                         *)
(* The reaper frees by counting turns, not callbacks, so what makes it     *)
(* right is a race it always wins: while it drains, fewer callbacks are    *)
(* owed than turns are left (Draining).  A lookup counts its arms down     *)
(* (Counting): the count is the number of arms still asking.               *)
(***************************************************************************)
EXTENDS Holesail, TLAPS

\* The reaper: what is owed goes before the turns do.
Draining ==
    \A d \in Dhts :
        /\ dht[d] = "destroying" => turns[d] = DrainTurns
        /\ dht[d] = "draining" => owed[d] < turns[d]
        /\ dht[d] # "draining" => owed[d] = 0

\* The endpoint has a live DHT to borrow, and there is neither before ready().
Borrowing ==
    /\ endpoint => dht["endpoint"] = "live"
    /\ ~started => dht["endpoint"] = "none" /\ ~endpoint /\ ~closing

\* lookup(): before it, while an arm asks, and after the last one.
Asking == {a \in Arms : arms[a] = "querying"}
Counting ==
    /\ dht["lookup"] = "none" => /\ arms = [a \in Arms |-> "idle"]
                                 /\ answers = 0 /\ count = 0
    /\ dht["lookup"] = "live" => /\ \A a \in Arms : arms[a] \in {"querying", "done"}
                                 /\ Asking # {}
                                 /\ count = (IF Asking = Arms THEN 2 ELSE 1)
                                 /\ answers = 0
    /\ dht["lookup"] \notin {"none", "live"} => Asking = {}

HolesailIInv == TypeOK /\ Draining /\ Borrowing /\ Counting /\ LookupAnswer

USE DrainAssumption DEF DrainAssumption

-----------------------------------------------------------------------------

LEMMA InitHolesailIInv == Init => HolesailIInv
<1> SUFFICES ASSUME Init PROVE HolesailIInv
  OBVIOUS
<1>1. TypeOK
  <2>1. /\ turns \in [Dhts -> 0..DrainTurns]
        /\ owed \in [Dhts -> 0..CloseLevels]
    BY DEF Init
  <2>2. count \in 0..2 /\ answers \in Nat /\ status \in {0, 1}
    BY DEF Init
  <2>3. /\ dht \in [Dhts -> DhtStates]
        /\ arms \in [Arms -> {"idle", "querying", "done"}]
        /\ arrived \subseteq Arms /\ answer \in Arms \cup {"none"}
    BY DEF Init, DhtStates
  <2>4. /\ endpoint \in BOOLEAN /\ closing \in BOOLEAN /\ signals \in BOOLEAN
        /\ started \in BOOLEAN /\ exited \in BOOLEAN
    BY DEF Init
  <2> QED
    BY <2>1, <2>2, <2>3, <2>4, Zenon DEF TypeOK
<1>2. Draining /\ Borrowing
  BY DEF Init, Draining, Borrowing, Dhts
<1>3. Counting /\ LookupAnswer
  BY DEF Init, Counting, LookupAnswer, Dhts, Arms, Asking
<1> QED
  BY <1>1, <1>2, <1>3 DEF HolesailIInv

-----------------------------------------------------------------------------
(* What a step does to the DHTs, and to the rest.                          *)

\* A step of a reaper touches neither the facade nor the lookup.
ReaperStep == \E d \in Dhts : BeginReap(d) \/ Withdrawn(d) \/ ReapTick(d)

\* A step of the facade, by what becomes of the endpoint and of its DHT.
FacadeStep == Ready \/ ListenFails \/ OnSignal \/ Exit
LookupStep == Lookup \/ \E a \in Arms : LookupValue(a) \/ LookupDone(a)

LEMMA NextCases == [Next]_vars => ReaperStep \/ FacadeStep \/ LookupStep \/ UNCHANGED vars
BY DEF Next, ReaperStep, FacadeStep, LookupStep

LEMMA FacadeCases ==
    ASSUME TypeOK, Borrowing, FacadeStep
    PROVE  /\ UNCHANGED <<turns, owed, lookupVars>>
           /\ started'
           /\ \/ UNCHANGED <<dht, endpoint>>
              \/ Close
              \/ ~started /\ endpoint' /\ dht' = [dht EXCEPT !["endpoint"] = "live"]
              \/ ~started /\ ~endpoint' /\ dht' = [dht EXCEPT !["endpoint"] = "scheduled"]
<1>0. ASSUME BeginShutdown PROVE UNCHANGED <<dht, endpoint>> \/ Close
  BY <1>0 DEF BeginShutdown
<1>1. CASE Ready
  <2>1. UNCHANGED <<turns, owed, lookupVars>> /\ started' /\ ~started
    BY <1>1 DEF Ready
  <2>2. \/ BeginShutdown
        \/ endpoint' /\ dht' = [dht EXCEPT !["endpoint"] = "live"]
        \/ ~endpoint' /\ dht' = [dht EXCEPT !["endpoint"] = "scheduled"]
    BY <1>1 DEF Ready, Fail
  <2> QED
    BY <1>0, <2>1, <2>2, Zenon
<1>2. CASE ListenFails
  <2>1. endpoint /\ BeginShutdown /\ UNCHANGED <<turns, owed, started, lookupVars>>
    BY <1>2 DEF ListenFails, Fail
  <2>2. started
    BY <2>1 DEF Borrowing
  <2> QED
    BY <1>0, <2>1, <2>2, Zenon
<1>3. CASE OnSignal
  <2>1. started /\ BeginShutdown /\ UNCHANGED <<turns, owed, started, lookupVars>>
    BY <1>3 DEF OnSignal
  <2> QED
    BY <1>0, <2>1, Zenon
<1>4. CASE Exit
  BY <1>4, Zenon DEF Exit
<1> QED
  BY <1>1, <1>2, <1>3, <1>4 DEF FacadeStep

-----------------------------------------------------------------------------
(* Preservation, one lemma per part.                                       *)

LEMMA HolesailTypePreserved ==
    ASSUME HolesailIInv, [Next]_vars
    PROVE  TypeOK'
<1>0. TypeOK /\ Draining /\ Borrowing /\ Counting
  BY DEF HolesailIInv
<1>1. ASSUME NEW d \in Dhts, BeginReap(d) PROVE TypeOK'
  <2>1. /\ dht' \in [Dhts -> DhtStates] /\ turns' \in [Dhts -> 0..DrainTurns]
    BY <1>0, <1>1 DEF BeginReap, TypeOK, DhtStates
  <2> QED
    BY <1>0, <1>1, <2>1 DEF BeginReap, TypeOK, cliVars, lookupVars
<1>2. ASSUME NEW d \in Dhts, Withdrawn(d) PROVE TypeOK'
  <2>1. dht' \in [Dhts -> DhtStates] /\ owed' \in [Dhts -> 0..CloseLevels]
    BY <1>0, <1>2 DEF Withdrawn, TypeOK, DhtStates
  <2> QED
    BY <1>0, <1>2, <2>1 DEF Withdrawn, TypeOK, cliVars, lookupVars
<1>3. ASSUME NEW d \in Dhts, ReapTick(d) PROVE TypeOK'
  <2>1. turns[d] \in 0..DrainTurns /\ owed[d] \in 0..CloseLevels /\ owed[d] < turns[d]
    BY <1>0, <1>3 DEF ReapTick, TypeOK, Draining
  <2>2. turns[d] - 1 \in 0..DrainTurns
    BY <2>1
  <2>3. owed[d] > 0 => owed[d] - 1 \in 0..CloseLevels
    BY <2>1
  <2>4. turns' \in [Dhts -> 0..DrainTurns]
    BY <1>0, <1>3, <2>2 DEF ReapTick, TypeOK
  <2>5. owed' \in [Dhts -> 0..CloseLevels]
    BY <1>0, <1>3, <2>1, <2>3 DEF ReapTick, TypeOK
  <2>6. dht' \in [Dhts -> DhtStates]
    BY <1>0, <1>3 DEF ReapTick, TypeOK, DhtStates
  <2> QED
    BY <1>0, <1>3, <2>4, <2>5, <2>6 DEF ReapTick, TypeOK, cliVars, lookupVars
<1>4. CASE FacadeStep
  <2>1. UNCHANGED <<turns, owed, arms, arrived, count, answers, answer>>
    BY <1>0, <1>4, FacadeCases DEF lookupVars
  <2>2. dht' \in [Dhts -> DhtStates]
    BY <1>0, <1>4, FacadeCases DEF Close, Reap, TypeOK, DhtStates, Dhts
  <2>3. /\ endpoint' \in BOOLEAN /\ closing' \in BOOLEAN /\ signals' \in BOOLEAN
        /\ status' \in {0, 1} /\ started' \in BOOLEAN /\ exited' \in BOOLEAN
    BY <1>0, <1>4
    DEF FacadeStep, Ready, ListenFails, OnSignal, Exit, Fail, BeginShutdown, Close, TypeOK
  <2> QED
    BY <1>0, <2>1, <2>2, <2>3 DEF TypeOK
<1>5. CASE Lookup
  <2>1. dht' \in [Dhts -> DhtStates]
    BY <1>0, <1>5 DEF Lookup, TypeOK, DhtStates
  <2>2. arms' \in [Arms -> {"idle", "querying", "done"}]
    BY <1>0, <1>5 DEF Lookup, TypeOK
  <2>3. count' \in 0..2
    BY <1>0, <1>5 DEF Lookup, ArmsPending, TypeOK
  <2> QED
    BY <1>0, <1>5, <2>1, <2>2, <2>3 DEF Lookup, TypeOK, cliVars
<1>6. ASSUME NEW a \in Arms, LookupValue(a) PROVE TypeOK'
  BY <1>0, <1>6 DEF LookupValue, TypeOK, dhtVars, cliVars
<1>7. ASSUME NEW a \in Arms, LookupDone(a) PROVE TypeOK'
  <2>1. dht' \in [Dhts -> DhtStates]
    BY <1>0, <1>7 DEF LookupDone, Reap, TypeOK, DhtStates
  <2>2. arms' \in [Arms -> {"idle", "querying", "done"}]
    BY <1>0, <1>7 DEF LookupDone, TypeOK
  <2>3. count' \in 0..2
    <3>1. arms[a] = "querying" /\ count' = count - 1
      BY <1>7 DEF LookupDone
    <3>2. a \in Asking /\ dht["lookup"] \in DhtStates
      BY <1>0, <3>1 DEF Asking, TypeOK, Dhts
    <3>3. dht["lookup"] = "live"
      BY <1>0, <3>1, <3>2 DEF Counting
    <3>4. count \in {1, 2}
      BY <1>0, <3>3 DEF Counting
    <3> QED
      BY <3>1, <3>4
  <2>4. answers' \in Nat /\ answer' \in Arms \cup {"none"}
    BY <1>0, <1>7 DEF LookupDone, Answer, TypeOK, Arms
  <2> QED
    BY <1>0, <1>7, <2>1, <2>2, <2>3, <2>4 DEF LookupDone, TypeOK, cliVars
<1>8. CASE UNCHANGED vars
  BY <1>0, <1>8 DEF vars, dhtVars, cliVars, lookupVars, TypeOK
<1> QED
  BY <1>1, <1>2, <1>3, <1>4, <1>5, <1>6, <1>7, <1>8, NextCases DEF ReaperStep, LookupStep

\* Every turn takes one callback off what is owed, and there are more turns.
LEMMA DrainingPreserved ==
    ASSUME HolesailIInv, [Next]_vars
    PROVE  Draining'
<1>0. TypeOK /\ Draining /\ Borrowing /\ Counting
  BY DEF HolesailIInv
<1>t. \A d \in Dhts : turns[d] \in Nat /\ owed[d] \in Nat
  BY <1>0 DEF TypeOK
<1>1. ASSUME NEW d \in Dhts, BeginReap(d) PROVE Draining'
  <2>1. /\ dht' = [dht EXCEPT ![d] = "destroying"] /\ dht[d] = "scheduled"
        /\ turns' = [turns EXCEPT ![d] = DrainTurns] /\ owed' = owed
    BY <1>1 DEF BeginReap
  <2> QED
    BY <1>0, <2>1 DEF Draining, TypeOK
<1>2. ASSUME NEW d \in Dhts, Withdrawn(d) PROVE Draining'
  <2>1. /\ dht' = [dht EXCEPT ![d] = "draining"] /\ dht[d] = "destroying"
        /\ owed' = [owed EXCEPT ![d] = CloseLevels] /\ turns' = turns
    BY <1>2 DEF Withdrawn
  <2>2. CloseLevels < turns[d]
    BY <1>0, <2>1 DEF Draining
  <2> QED
    BY <1>0, <2>1, <2>2 DEF Draining, TypeOK
<1>3. ASSUME NEW d \in Dhts, ReapTick(d) PROVE Draining'
  <2>1. /\ dht[d] = "draining" /\ owed[d] < turns[d]
        /\ turns' = [turns EXCEPT ![d] = turns[d] - 1]
        /\ dht' = [dht EXCEPT ![d] = IF LastTurn(d) THEN "freed" ELSE dht[d]]
        /\ owed' = [owed EXCEPT ![d] = IF owed[d] > 0 /\ ~LastTurn(d) THEN owed[d] - 1
                                                                    ELSE owed[d]]
    BY <1>0, <1>3 DEF ReapTick, Draining
  <2>2. \A e \in Dhts : e # d => /\ dht'[e] = dht[e] /\ turns'[e] = turns[e]
                                 /\ owed'[e] = owed[e]
    BY <1>0, <2>1 DEF TypeOK
  <2>3. CASE LastTurn(d)
    <3>1. owed[d] = 0
      BY <1>t, <2>1, <2>3 DEF LastTurn
    <3>2. dht'[d] = "freed" /\ owed'[d] = 0
      BY <1>0, <2>1, <2>3, <3>1 DEF TypeOK
    <3> QED
      BY <1>0, <2>2, <3>2 DEF Draining
  <2>4. CASE ~LastTurn(d)
    <3>1. turns'[d] = turns[d] - 1 /\ turns[d] - 1 > 0 /\ dht'[d] = "draining"
      BY <1>0, <1>t, <2>1, <2>4 DEF TypeOK, LastTurn
    <3>2. owed'[d] = (IF owed[d] > 0 THEN owed[d] - 1 ELSE owed[d])
      BY <1>0, <2>1, <2>4 DEF TypeOK
    <3>3. owed'[d] < turns'[d]
      BY <1>t, <2>1, <3>1, <3>2
    <3> QED
      BY <1>0, <2>2, <3>1, <3>3 DEF Draining
  <2> QED
    BY <2>3, <2>4
<1>4. CASE FacadeStep
  <2>1. turns' = turns /\ owed' = owed
    BY <1>0, <1>4, FacadeCases
  <2>2. \A d \in Dhts : \/ dht'[d] = dht[d]
                        \/ dht[d] \in {"none", "live"} /\ dht'[d] \in {"live", "scheduled"}
    BY <1>0, <1>4, FacadeCases DEF Close, Reap, TypeOK, Dhts, Borrowing
  <2> QED
    BY <1>0, <2>1, <2>2 DEF Draining
<1>5. CASE LookupStep
  <2>1. turns' = turns /\ owed' = owed
    BY <1>5 DEF LookupStep, Lookup, LookupValue, LookupDone, dhtVars
  <2>2. \A d \in Dhts : \/ dht'[d] = dht[d]
                        \/ dht[d] \in {"none", "live"} /\ dht'[d] \in {"live", "scheduled"}
    BY <1>0, <1>5
    DEF LookupStep, Lookup, LookupValue, LookupDone, dhtVars, Reap, TypeOK, Dhts
  <2> QED
    BY <1>0, <2>1, <2>2 DEF Draining
<1>6. CASE UNCHANGED vars
  BY <1>0, <1>6 DEF vars, dhtVars, Draining
<1> QED
  BY <1>1, <1>2, <1>3, <1>4, <1>5, <1>6, NextCases DEF ReaperStep

\* The endpoint is dropped in the step that gives its DHT up.
LEMMA BorrowingPreserved ==
    ASSUME HolesailIInv, [Next]_vars
    PROVE  Borrowing'
<1>0. TypeOK /\ Borrowing
  BY DEF HolesailIInv
<1>1. CASE ReaperStep
  <2>1. UNCHANGED <<endpoint, started, closing>>
    BY <1>1 DEF ReaperStep, BeginReap, Withdrawn, ReapTick, cliVars
  <2>2. dht["endpoint"] \in {"none", "live"} => dht'["endpoint"] = dht["endpoint"]
    BY <1>0, <1>1 DEF ReaperStep, BeginReap, Withdrawn, ReapTick, TypeOK, Dhts
  <2> QED
    BY <1>0, <2>1, <2>2 DEF Borrowing
<1>2. CASE FacadeStep
  <2>1. started'
    BY <1>0, <1>2, FacadeCases
  <2>2. endpoint' => dht'["endpoint"] = "live"
    BY <1>0, <1>2, FacadeCases DEF Close, Borrowing, TypeOK, Dhts
  <2> QED
    BY <2>1, <2>2 DEF Borrowing
<1>3. CASE LookupStep
  <2>1. UNCHANGED <<endpoint, started, closing>>
    BY <1>3 DEF LookupStep, Lookup, LookupValue, LookupDone, cliVars
  <2>2. dht'["endpoint"] = dht["endpoint"]
    BY <1>0, <1>3
    DEF LookupStep, Lookup, LookupValue, LookupDone, dhtVars, Reap, TypeOK, Dhts
  <2> QED
    BY <1>0, <2>1, <2>2 DEF Borrowing
<1>4. CASE UNCHANGED vars
  BY <1>0, <1>4 DEF vars, dhtVars, cliVars, Borrowing
<1> QED
  BY <1>1, <1>2, <1>3, <1>4, NextCases

\* The last arm to be done, and no other, answers and gives the DHT up.
LEMMA CountingPreserved ==
    ASSUME HolesailIInv, [Next]_vars
    PROVE  Counting' /\ LookupAnswer'
<1>0. TypeOK /\ Counting /\ LookupAnswer /\ Borrowing
  BY DEF HolesailIInv
<1>1. CASE ReaperStep \/ FacadeStep \/ UNCHANGED vars
  <2>1. UNCHANGED <<arms, arrived, count, answers, answer>>
    BY <1>0, <1>1, FacadeCases
    DEF ReaperStep, BeginReap, Withdrawn, ReapTick, vars, lookupVars
  <2>2. \/ dht'["lookup"] = dht["lookup"]
        \/ {dht["lookup"], dht'["lookup"]} \cap {"none", "live"} = {}
    BY <1>0, <1>1, FacadeCases
    DEF ReaperStep, BeginReap, Withdrawn, ReapTick, Close, Reap, vars, dhtVars, TypeOK, Dhts
  <2>3. Counting'
    BY <1>0, <2>1, <2>2 DEF Counting, Asking
  <2>4. LookupAnswer'
    BY <1>0, <2>1 DEF LookupAnswer
  <2> QED
    BY <2>3, <2>4
<1>2. CASE Lookup
  <2>1. /\ dht["lookup"] = "none" /\ UNCHANGED <<arrived, answers, answer>>
        /\ answers = 0
    BY <1>0, <1>2 DEF Lookup, Counting
  <2>2. PICK ok \in SUBSET Arms :
          IF ok = {}
          THEN /\ dht' = [dht EXCEPT !["lookup"] = "scheduled"]
               /\ UNCHANGED <<arms, count>>
          ELSE /\ dht' = [dht EXCEPT !["lookup"] = "live"]
               /\ arms' = [a \in Arms |-> IF a \in ok THEN "querying" ELSE "done"]
               /\ count' = ArmsPending(ok)
    BY <1>2 DEF Lookup
  <2>3. CASE ok = {}
    <3>1. dht'["lookup"] = "scheduled" /\ arms' = [a \in Arms |-> "idle"]
      BY <1>0, <2>1, <2>2, <2>3 DEF TypeOK, Dhts, Counting
    <3> QED
      BY <2>1, <3>1 DEF Counting, LookupAnswer, Asking, Arms
  <2>4. CASE ok # {}
    <3>1. /\ dht'["lookup"] = "live"
          /\ arms' = [a \in Arms |-> IF a \in ok THEN "querying" ELSE "done"]
          /\ count' = (IF ok = Arms THEN 2 ELSE 1)
      BY <1>0, <2>2, <2>4 DEF TypeOK, Dhts, ArmsPending
    <3>2. Asking' = ok
      BY <3>1 DEF Asking
    <3>3. Counting'
      BY <2>1, <2>4, <3>1, <3>2 DEF Counting
    <3>4. LookupAnswer'
      BY <2>1, <2>4, <3>1 DEF LookupAnswer
    <3> QED
      BY <3>3, <3>4
  <2> QED
    BY <2>3, <2>4
<1>3. ASSUME NEW a \in Arms, LookupValue(a) PROVE Counting' /\ LookupAnswer'
  <2>1. arms[a] = "querying" /\ UNCHANGED <<dht, arms, count, answers, answer>>
    BY <1>3 DEF LookupValue, dhtVars
  <2>2. answers = 0
    BY <1>0, <2>1 DEF LookupAnswer
  <2>3. Counting'
    BY <1>0, <2>1 DEF Counting, Asking
  <2>4. LookupAnswer'
    BY <1>0, <2>1, <2>2 DEF LookupAnswer
  <2> QED
    BY <2>3, <2>4
<1>4. ASSUME NEW a \in Arms, LookupDone(a) PROVE Counting' /\ LookupAnswer'
  <2>1. /\ arms[a] = "querying" /\ arms' = [arms EXCEPT ![a] = "done"]
        /\ count' = count - 1 /\ UNCHANGED arrived
        /\ IF count' > 0
           THEN UNCHANGED <<dht, answers, answer>>
           ELSE /\ Reap("lookup")
                /\ answers' = answers + 1
                /\ answer' = Answer(arrived)
    BY <1>4 DEF LookupDone
  <2>2. a \in Asking /\ dht["lookup"] = "live"
    <3>1. a \in Asking
      BY <2>1 DEF Asking
    <3> QED
      BY <1>0, <2>1, <3>1 DEF Counting
  <2>3. /\ \A b \in Arms : arms[b] \in {"querying", "done"}
        /\ count = (IF Asking = Arms THEN 2 ELSE 1) /\ answers = 0
    BY <1>0, <2>2 DEF Counting
  <2>4. Asking' = Asking \ {a} /\ \A b \in Arms : arms'[b] \in {"querying", "done"}
    BY <1>0, <2>1, <2>3 DEF TypeOK, Asking
  <2>5. CASE Asking = Arms
    <3>1. count' = 1 /\ UNCHANGED <<dht, answers, answer>>
      BY <2>1, <2>3, <2>5
    <3>2. Asking' # {} /\ Asking' # Arms
      BY <2>4, <2>5 DEF Arms
    <3>3. Counting'
      BY <2>2, <2>3, <2>4, <3>1, <3>2 DEF Counting
    <3>4. LookupAnswer'
      BY <2>3, <3>1, <3>2 DEF LookupAnswer, Asking
    <3> QED
      BY <3>3, <3>4
  <2>6. CASE Asking # Arms
    <3>1. Asking = {a}
      BY <2>2, <2>6 DEF Arms, Asking
    <3>2. count' = 0
      BY <2>1, <2>3, <2>6
    <3>3. Reap("lookup") /\ answers' = 1 /\ answer' = Answer(arrived)
      BY <2>1, <2>3, <3>2
    <3>4. dht'["lookup"] = "scheduled" /\ Asking' = {}
      BY <1>0, <2>2, <2>4, <3>1, <3>3 DEF Reap, TypeOK, Dhts
    <3>5. \A b \in Arms : arms'[b] = "done"
      BY <2>4, <3>4 DEF Asking
    <3>6. Counting'
      BY <3>4 DEF Counting
    <3>7. LookupAnswer'
      BY <2>1, <3>3, <3>5 DEF LookupAnswer, Answer
    <3> QED
      BY <3>6, <3>7
  <2> QED
    BY <2>5, <2>6
<1> QED
  BY <1>1, <1>2, <1>3, <1>4, NextCases DEF LookupStep

-----------------------------------------------------------------------------
(* The theorems.                                                           *)

LEMMA HolesailInductive == HolesailIInv /\ [Next]_vars => HolesailIInv'
BY HolesailTypePreserved, DrainingPreserved, BorrowingPreserved, CountingPreserved
DEF HolesailIInv

LEMMA HolesailInvariance == Spec => []HolesailIInv
BY InitHolesailIInv, HolesailInductive, PTL DEF Spec

\* Every variable keeps its type; in particular neither turns_left nor the
\* count of a lookup goes below zero.
THEOREM HolesailTypeCorrect == Spec => []TypeOK
<1>1. HolesailIInv => TypeOK
  BY DEF HolesailIInv
<1> QED
  BY <1>1, HolesailInvariance, PTL

\* However many levels of callbacks hyperdht leaves behind, as long as there
\* are more turns, a DHT is freed after the last of them; and it is given up
\* after its last borrower (DhtReaper, close(), lookup_done_cb).
THEOREM DhtIsFreedLast == Spec => []FreedLast
<1>1. HolesailIInv => FreedLast
  <2> SUFFICES ASSUME HolesailIInv PROVE FreedLast
    OBVIOUS
  <2>1. dht["endpoint"] # "live" => ~endpoint
    BY DEF HolesailIInv, Borrowing
  <2>2. dht["lookup"] # "live" => \A a \in Arms : arms[a] # "querying"
    BY DEF HolesailIInv, Counting, Asking
  <2>3. \A d \in Dhts : dht[d] = "freed" => owed[d] = 0
    BY DEF HolesailIInv, Draining
  <2> QED
    BY <2>1, <2>2, <2>3 DEF FreedLast
<1> QED
  BY <1>1, HolesailInvariance, PTL

\* A lookup answers once, when both arms are done, with the record of the
\* secure interpretation if there is one.
THEOREM LookupAnswersOnce == Spec => []LookupAnswer
<1>1. HolesailIInv => LookupAnswer
  BY DEF HolesailIInv
<1> QED
  BY <1>1, HolesailInvariance, PTL

=============================================================================
