------------------------------- MODULE Bridge -------------------------------
(***************************************************************************)
(* What a connection promises, whatever carries it: two byte streams, one  *)
(* in each direction, that never reorder or skip a byte, never let more    *)
(* than a window of bytes pile up, and, when the remote side finishes,     *)
(* hand over every byte it sent before going down - unless the connection  *)
(* is aborted, which any failure or its owner may do at any time.          *)
(*                                                                         *)
(* This is the contract the comments of pipe.hpp and pipe.cpp state        *)
(* (pipe.hpp:34-48, pipe.cpp:219-221); TcpPipe is shown to implement it.   *)
(***************************************************************************)
EXTENDS Integers

CONSTANTS
    OutWindow,   \* most bytes taken and not yet acknowledged
    InWindow     \* most bytes arrived and not yet handed over

VARIABLES
    taken,     \* bytes accepted from the local side, for the remote one
    settled,   \* bytes of those the remote side acknowledged
    arrived,   \* bytes accepted from the remote side, for the local one
    handed,    \* bytes of those handed over to the local side
    phase      \* open, then finishing or aborted, then finished

bridgeVars == <<taken, settled, arrived, handed, phase>>

BridgeInit ==
    /\ taken = 0
    /\ settled = 0
    /\ arrived = 0
    /\ handed = 0
    /\ phase = "open"

Take ==
    /\ phase = "open"
    /\ \E n \in 1..OutWindow :
          /\ taken + n - settled <= OutWindow
          /\ taken' = taken + n
    /\ UNCHANGED <<settled, arrived, handed, phase>>

Settle ==
    /\ settled' \in (settled + 1)..taken
    /\ UNCHANGED <<taken, arrived, handed, phase>>

Arrive ==
    /\ phase = "open"
    /\ \E n \in 1..InWindow :
          /\ arrived + n - handed <= InWindow
          /\ arrived' = arrived + n
    /\ UNCHANGED <<taken, settled, handed, phase>>

HandOver ==
    /\ handed' \in (handed + 1)..arrived
    /\ UNCHANGED <<taken, settled, arrived, phase>>

\* The remote side is done, with bytes still to hand over.
RemoteFinishes ==
    /\ phase = "open" /\ handed < arrived
    /\ phase' = "finishing"
    /\ UNCHANGED <<taken, settled, arrived, handed>>

\* Down in good order: every byte of the remote side is handed over.
Finish ==
    /\ phase \in {"open", "finishing"}
    /\ phase' = "finished"
    /\ handed' = arrived
    /\ UNCHANGED <<taken, settled, arrived>>

Abort ==
    /\ phase \in {"open", "finishing"}
    /\ phase' = "aborted"
    /\ UNCHANGED <<taken, settled, arrived, handed>>

BridgeNext ==
    \/ Take \/ Settle \/ Arrive \/ HandOver
    \/ RemoteFinishes \/ Finish \/ Abort

BridgeSpec == BridgeInit /\ [][BridgeNext]_bridgeVars
=============================================================================
