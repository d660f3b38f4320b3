--------------------------- MODULE ControlSocket ---------------------------
(***************************************************************************)
(* The control socket (control/server.go, bound in cmd/ranet-lite/main.go): *)
(* which of several daemons owns the path, through starts that race, kills  *)
(* between any two system calls and closes that run twice, and how many     *)
(* connections the owner has open.                                          *)
(*                                                                          *)
(* A socket at the path is named by the daemon that bound it.  The lock     *)
(* file is never unlinked, so the lock is one for every daemon, and the     *)
(* kernel drops it with the descriptor of a process that dies.              *)
(***************************************************************************)
EXTENDS Naturals, FiniteSets

CONSTANTS
    Daemons,        \* the instances configured with this path
    Clients,        \* the programs that dial it
    maxConnections,
    SocketStarts,   \* bound: starts of a daemon
    SocketFaults,   \* bound: system calls that fail
    Free,           \* the path is free, or nobody holds the lock
    Foreign         \* something at the path that is not a socket

SocketAssumption ==
    /\ Free \notin Daemons /\ Foreign \notin Daemons /\ Free # Foreign
    /\ IsFiniteSet(Clients) /\ maxConnections \in Nat
    /\ SocketStarts \in Nat /\ SocketFaults \in Nat

VARIABLES
    path,      \* what is at the path
    lock,      \* who holds the lock
    put,       \* whether an operator put a file at the path
    at,        \* where each daemon is
    listening, \* the daemons whose listening descriptor is open
    closing,   \* the closes of its listener each daemon runs, by who called
    unlinked,  \* the daemons whose listener was unlinked: once per listener
    conns,     \* each daemon's connections, by client
    places,    \* the length of each daemon's channel of places
    socketStarts, socketFaults

socketVars == <<path, lock, put, at, listening, closing, unlinked, conns, places, socketStarts,
                socketFaults>>

Closers == {"main", "serve"}

TypeOK ==
    /\ path \in Daemons \cup {Free, Foreign} /\ lock \in Daemons \cup {Free}
    /\ put \in BOOLEAN
    /\ at \in [Daemons -> {"down", "lock", "lstat", "remove", "bind", "chmod", "serving",
                           "leaving"}]
    /\ listening \subseteq Daemons /\ unlinked \subseteq Daemons
    /\ closing \in [Daemons -> [Closers -> {"no", "socket", "lock", "done"}]]
    /\ conns \in [Daemons -> [Clients -> {"none", "dialed", "open", "shut"}]]
    /\ places \in [Daemons -> 0..Cardinality(Clients)]
    /\ socketStarts \in 0..SocketStarts /\ socketFaults \in 0..SocketFaults

Init ==
    /\ put \in BOOLEAN /\ path = IF put THEN Foreign ELSE Free
    /\ lock = Free
    /\ at = [d \in Daemons |-> "down"]
    /\ listening = {} /\ unlinked = {}
    /\ closing = [d \in Daemons |-> [w \in Closers |-> "no"]]
    /\ conns = [d \in Daemons |-> [c \in Clients |-> "none"]]
    /\ places = [d \in Daemons |-> 0]
    /\ socketStarts = 0 /\ socketFaults = 0

Goes(d, to) == at' = [at EXCEPT ![d] = to]

served == <<listening, closing, unlinked, conns, places>>

SocketFault == socketFaults < SocketFaults /\ socketFaults' = socketFaults + 1

\* A start that is refused after it took the lock: closing the descriptor gives
\* the lock back.
Refused(d) == Goes(d, "down") /\ lock' = Free /\ UNCHANGED <<path, put, served, socketStarts>>

----------------------------------------------------------------------------
(* Listen.                                                                 *)

\* makeParent, and the lock file opened or created.
Start(d) ==
    /\ at[d] = "down" /\ socketStarts < SocketStarts
    /\ socketStarts' = socketStarts + 1
    /\ Goes(d, "lock")
    /\ UNCHANGED <<path, lock, put, served, socketFaults>>

\* A lock somebody holds is reported, not waited for.
takeOwnership(d) ==
    /\ at[d] = "lock"
    /\ IF lock = Free THEN lock' = d /\ Goes(d, "lstat") ELSE Goes(d, "down") /\ UNCHANGED lock
    /\ UNCHANGED <<path, put, served, socketStarts, socketFaults>>

clearStale(d) ==
    /\ at[d] = "lstat" /\ UNCHANGED socketFaults
    /\ \/ /\ path # Foreign
          /\ Goes(d, IF path = Free THEN "bind" ELSE "remove")
          /\ UNCHANGED <<path, lock, put, served, socketStarts>>
       \/ path = Foreign /\ Refused(d)

Remove(d) ==
    /\ at[d] = "remove"
    /\ IF path = Free THEN Refused(d)
       ELSE path' = Free /\ Goes(d, "bind") /\ UNCHANGED <<lock, put, served, socketStarts>>
    /\ UNCHANGED socketFaults

\* The bind creates the socket; a path that is taken, or a call that fails,
\* refuses the start.
Bind(d) ==
    /\ at[d] = "bind"
    /\ \/ /\ path = Free
          /\ path' = d /\ listening' = listening \cup {d} /\ unlinked' = unlinked \ {d}
          /\ Goes(d, "chmod")
          /\ UNCHANGED <<lock, put, closing, conns, places, socketStarts, socketFaults>>
       \/ Refused(d) /\ IF path = Free THEN SocketFault ELSE UNCHANGED socketFaults

\* A socket whose mode could not be set is closed, then the lock is; no server
\* runs on it.
Chmod(d) ==
    /\ at[d] = "chmod"
    /\ \/ Goes(d, "serving") /\ UNCHANGED <<closing, socketFaults>>
       \/ /\ SocketFault /\ Goes(d, "leaving")
          /\ closing' = [closing EXCEPT ![d] =
                              [w \in Closers |-> IF w = "main" THEN "socket" ELSE "done"]]
    /\ UNCHANGED <<path, lock, put, listening, unlinked, conns, places, socketStarts>>

----------------------------------------------------------------------------
(* ownedListener.Close, by main as it returns and by the http server as it  *)
(* leaves its accept loop.                                                  *)

Shutdown(d) ==
    /\ at[d] = "serving" /\ Goes(d, "leaving")
    /\ closing' = [closing EXCEPT ![d]["main"] = "socket"]
    /\ UNCHANGED <<path, lock, put, listening, unlinked, conns, places, socketStarts,
                   socketFaults>>

\* The accept loop meets the closed descriptor.
Serve(d) ==
    /\ at[d] = "leaving" /\ d \notin listening /\ closing[d]["serve"] = "no"
    /\ closing' = [closing EXCEPT ![d]["serve"] = "socket"]
    /\ UNCHANGED <<path, lock, put, at, listening, unlinked, conns, places, socketStarts,
                   socketFaults>>

\* The socket first: whatever is at the path is unlinked, once per listener.
\* Then the lock, whose descriptor is this process's own.
Close(d, w) ==
    /\ \/ /\ closing[d][w] = "socket"
          /\ path' = IF d \in unlinked THEN path ELSE Free
          /\ unlinked' = unlinked \cup {d} /\ listening' = listening \ {d}
          /\ closing' = [closing EXCEPT ![d][w] = "lock"]
          /\ UNCHANGED lock
       \/ /\ closing[d][w] = "lock"
          /\ lock' = IF lock = d THEN Free ELSE lock
          /\ closing' = [closing EXCEPT ![d][w] = "done"]
          /\ UNCHANGED <<path, listening, unlinked>>
    /\ UNCHANGED <<put, at, conns, places, socketStarts, socketFaults>>

\* The process ends: main has returned, or it was killed after any call.  Its
\* descriptors go, the path stays as it is.
Gone(d) ==
    /\ Goes(d, "down")
    /\ lock' = IF lock = d THEN Free ELSE lock
    /\ listening' = listening \ {d} /\ unlinked' = unlinked \ {d}
    /\ closing' = [closing EXCEPT ![d] = [w \in Closers |-> "no"]]
    /\ conns' = [conns EXCEPT ![d] = [c \in Clients |-> "none"]]
    /\ places' = [places EXCEPT ![d] = 0]
    /\ UNCHANGED <<path, put, socketStarts, socketFaults>>

Exit(d) == at[d] = "leaving" /\ closing[d]["main"] = "done" /\ Gone(d)

Kill(d) == at[d] # "down" /\ Gone(d)

----------------------------------------------------------------------------
(* boundedListener and boundedConn.                                        *)

Connection(d, c, from, to) ==
    /\ conns[d][c] = from /\ conns' = [conns EXCEPT ![d][c] = to]
    /\ UNCHANGED <<path, lock, put, at, listening, closing, unlinked, socketStarts,
                   socketFaults>>

\* Into the backlog of the socket the path names, if anybody listens on it.
Dial(d, c) ==
    /\ path = d /\ d \in listening
    /\ Connection(d, c, "none", "dialed") /\ UNCHANGED places

\* A connection past the places is closed at once: the loop never waits.
Accept(d, c) ==
    /\ at[d] = "serving" /\ d \in listening
    /\ IF places[d] < maxConnections
       THEN Connection(d, c, "dialed", "open") /\ places' = [places EXCEPT ![d] = @ + 1]
       ELSE Connection(d, c, "dialed", "none") /\ UNCHANGED places

\* The descriptor is closed before the place is given back.
CloseConn(d, c) ==
    \/ Connection(d, c, "open", "shut") /\ UNCHANGED places
    \/ Connection(d, c, "shut", "none") /\ places' = [places EXCEPT ![d] = @ - 1]

----------------------------------------------------------------------------

Next ==
    \E d \in Daemons:
        \/ Start(d) \/ takeOwnership(d) \/ clearStale(d) \/ Remove(d) \/ Bind(d) \/ Chmod(d)
        \/ Shutdown(d) \/ Serve(d) \/ Exit(d) \/ Kill(d)
        \/ \E w \in Closers: Close(d, w)
        \/ \E c \in Clients: Dial(d, c) \/ Accept(d, c) \/ CloseConn(d, c)

Spec == Init /\ [][Next]_socketVars

----------------------------------------------------------------------------
(* Properties.                                                             *)

\* A daemon that listens holds the lock and its own socket is at the path: no
\* other start cleared it and no close of an earlier owner unlinked it
\* (control/server.go:50, :151).
OneOwner == \A d \in listening : path = d /\ lock = d

\* Under the lock nothing takes the path between the look and the bind, so a
\* socket a killed daemon left behind refuses no start (control/server.go:50);
\* and what an operator put there is still there (control/server.go:54).
StaleOnly ==
    /\ \A d \in Daemons : at[d] = "bind" => path = Free
    /\ put => path = Foreign

\* Every connection that is open holds one of the places, a place is held by no
\* connection that is gone, and there are no more than maxConnections
\* (control/server.go:322).
PlacesKept ==
    \A d \in Daemons :
        /\ places[d] = Cardinality({c \in Clients : conns[d][c] \in {"open", "shut"}})
        /\ places[d] <= maxConnections
=============================================================================
