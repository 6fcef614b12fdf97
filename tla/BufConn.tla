------------------------------ MODULE BufConn ------------------------------
(***************************************************************************)
(* service.BufConn: in-memory listeners by address.  Dialing and listening *)
(* both make the listener that is missing, whichever comes first, and a    *)
(* client keeps the listener it has dialed, not the address.               *)
(***************************************************************************)
EXTENDS Naturals

CONSTANT Addrs

VARIABLES
  listeners,  \* the map: address -> listener, 0 without an entry
  made,       \* listeners are numbered as they are made
  closed,     \* the listeners that are closed
  sweep,      \* addresses that a CloseAll under way has still to visit
  spent,      \* addresses whose listener somebody closed and left in the map
  fatal       \* the runtime has ended the program for a concurrent map write

connVars == <<listeners, made, closed, sweep, spent, fatal>>

ConnInit ==
  /\ listeners = [a \in Addrs |-> 0]
  /\ made = 0
  /\ closed = {}
  /\ sweep = {}
  /\ spent = {}
  /\ fatal = FALSE

\* CloseAll ranges over the map without the mutex: a write in the meantime may
\* be detected, which ends the program, or go unnoticed.
MapWrite == fatal' \in IF sweep = {} THEN {FALSE} ELSE BOOLEAN

\* What Dial, Tranport and Listen are going to get for an address.
Listener(a) == IF listeners[a] = 0 THEN made + 1 ELSE listeners[a]

\* A range under way may or may not come to an entry that is new.
listenerFor(a) ==
  /\ IF listeners[a] = 0
     THEN /\ listeners' = [listeners EXCEPT ![a] = made + 1]
          /\ made' = made + 1
          /\ MapWrite
          /\ sweep' \in IF sweep = {} THEN {{}} ELSE {sweep, sweep \cup {a}}
     ELSE UNCHANGED <<listeners, made, sweep, fatal>>
  /\ UNCHANGED <<closed, spent>>

\* Closing a bufconn listener makes Accept and DialContext fail; a server does
\* it when it ends, and knows nothing of the map.
CloseListener(a, l) ==
  /\ closed' = closed \cup {l}
  /\ spent' = IF listeners[a] = l THEN spent \cup {a} ELSE spent
  /\ UNCHANGED <<listeners, made, sweep, fatal>>

\* Mutant of Close: the entry stays in the map.
CloseKeepsEntry(a) ==
  /\ closed' = IF listeners[a] = 0 THEN closed ELSE closed \cup {listeners[a]}
  /\ MapWrite
  /\ spent' = spent \ {a}
  /\ UNCHANGED <<listeners, made, sweep>>

Close(a) ==
  /\ IF listeners[a] = 0
     THEN UNCHANGED <<listeners, closed, fatal>>
     ELSE /\ listeners' = [listeners EXCEPT ![a] = 0]
          /\ closed' = closed \cup {listeners[a]}
          /\ MapWrite
  /\ spent' = spent \ {a}
  /\ sweep' = sweep \ {a}
  /\ UNCHANGED made

CloseAll ==
  /\ sweep' = {a \in Addrs : listeners[a] # 0}
  /\ UNCHANGED <<listeners, made, closed, spent, fatal>>

\* One turn of the range.
CloseNext(a) ==
  /\ a \in sweep
  /\ sweep' = sweep \ {a}
  /\ closed' = closed \cup {listeners[a]}
  /\ spent' = spent \cup {a}
  /\ UNCHANGED <<listeners, made, fatal>>
=============================================================================
