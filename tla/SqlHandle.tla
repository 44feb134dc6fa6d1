------------------------------ MODULE SqlHandle ------------------------------
(***************************************************************************)
(* database/sql over the managed pool (stdlib/stdlib.go). database/sql     *)
(* keeps no idle connections of its own, but hands a released connection   *)
(* directly to a goroutine that waits for one, without the managed pool's  *)
(* hooks: ResetSession alone guards that path. Closing the DB closes the   *)
(* pool it owns.                                                           *)
(***************************************************************************)
EXTENDS Integers, FiniteSets

CONSTANTS
    Goroutines,       \* that use the DB
    Conns,            \* MaxOpenConns connections, as many as the pool's MaxConns
    MaxRetries        \* maxBadConnRetries of database/sql

ASSUME SqlAssumption == "pool" \notin Goroutines /\ MaxRetries \in Nat

VARIABLES
    at,               \* what each goroutine does
    conn,             \* per connection: its goroutine, or "pool"
    valid,            \* Valid(conn)
    tries,            \* driver.ErrBadConn answers a goroutine got
    life              \* of the DB: "open", "closing", "stopping" the pool, "closed"

vars == <<at, conn, valid, tries, life>>

Open == {c \in Conns : conn[c] # "pool"}
Held(g) == {c \in Conns : conn[c] = g}

Init ==
    /\ at = [g \in Goroutines |-> "idle"]
    /\ conn = [c \in Conns |-> "pool"]
    /\ valid = [c \in Conns |-> TRUE]
    /\ tries = [g \in Goroutines |-> 0]
    /\ life = "open"

Goes(g, from, to) == at[g] = from /\ at' = [at EXCEPT ![g] = to]

\* An operation on the DB begins.
Ask(g) ==
    /\ Goes(g, "idle", "asks") /\ tries' = [tries EXCEPT ![g] = 0]
    /\ UNCHANGED <<conn, valid, life>>

\* DB.conn: a new connection from the pool, whose PrepareConn checks it.
Connect(g) ==
    /\ life = "open" /\ Goes(g, "asks", "uses")
    /\ \E c \in Conns \ Open :
         conn' = [conn EXCEPT ![c] = g] /\ valid' = [valid EXCEPT ![c] = TRUE]
    /\ UNCHANGED <<tries, life>>

\* All are in use.
Wait(g) ==
    /\ life = "open" /\ Open = Conns /\ Goes(g, "asks", "waits")
    /\ UNCHANGED <<conn, valid, tries, life>>

\* connectionOpener, after a connection was closed that somebody waits for.
OpenForWaiter(g) ==
    /\ life = "open" /\ Goes(g, "waits", "uses")
    /\ \E c \in Conns \ Open :
         conn' = [conn EXCEPT ![c] = g] /\ valid' = [valid EXCEPT ![c] = TRUE]
    /\ UNCHANGED <<tries, life>>

\* The context of an operation ends before it has a connection, or the DB closes.
GiveUp(g) ==
    /\ at[g] \in {"asks", "waits"} /\ at' = [at EXCEPT ![g] = "idle"]
    /\ UNCHANGED <<conn, valid, tries, life>>

\* DB.putConn: to a waiter, else, as no idle ones are kept, back to the pool.
Release(g) ==
    /\ at[g] = "uses"
    /\ LET waiters == {w \in Goroutines : at[w] = "waits"}
       IN  \E c \in Held(g) :
             \/ /\ waiters = {} \/ life # "open"
                /\ conn' = [conn EXCEPT ![c] = "pool"]
                /\ at' = [at EXCEPT ![g] = "idle"]
             \/ /\ life = "open"
                /\ \E w \in waiters :
                     /\ conn' = [conn EXCEPT ![c] = w]
                     /\ at' = [at EXCEPT ![g] = "idle", ![w] = "resets"]
    /\ UNCHANGED <<valid, tries, life>>

\* Mutant of ResetSession: it is left to PrepareConn to check connections.
ResetSessionUnchecked(g) ==
    /\ Goes(g, "resets", "uses")
    /\ UNCHANGED <<conn, valid, tries, life>>

\* An obsolete connection is closed, and database/sql tries again, or reports
\* driver.ErrBadConn when it has done so often enough.
ResetSession(g) ==
    \/ /\ Goes(g, "resets", "uses") /\ \A c \in Held(g) : valid[c]
       /\ UNCHANGED <<conn, valid, tries, life>>
    \/ /\ \E c \in Held(g) : ~valid[c] /\ conn' = [conn EXCEPT ![c] = "pool"]
       /\ Goes(g, "resets", IF tries[g] < MaxRetries THEN "asks" ELSE "idle")
       /\ tries' = [tries EXCEPT ![g] = IF tries[g] < MaxRetries THEN @ + 1 ELSE 0]
       /\ UNCHANGED <<valid, life>>

\* The routes of some connections change.
Reroute ==
    /\ \E obsolete \in SUBSET Open :
         /\ \E c \in obsolete : valid[c]
         /\ valid' = [c \in Conns |-> valid[c] /\ c \notin obsolete]
    /\ UNCHANGED <<at, conn, tries, life>>

\* DB.Close, up to the connector.
Close ==
    /\ life = "open" /\ life' = "closing"
    /\ UNCHANGED <<at, conn, valid, tries>>

\* Mutant of CloseConnector: pgx's own connector, which owns no pool.
CloseForeignConnector == FALSE /\ UNCHANGED vars

\* ownedConnector.Close closes the pool: what is acquired or idle is obsolete.
CloseConnector ==
    /\ life = "closing" /\ life' = "stopping"
    /\ valid' = [c \in Conns |-> FALSE]
    /\ UNCHANGED <<at, conn, tries>>

PoolCloses ==
    /\ life = "stopping" /\ Open = {} /\ life' = "closed"
    /\ UNCHANGED <<at, conn, valid, tries>>

Proceed(g) == Connect(g) \/ Wait(g) \/ OpenForWaiter(g) \/ ResetSession(g) \/ Release(g)

Next ==
    \/ \E g \in Goroutines : Ask(g) \/ Proceed(g) \/ GiveUp(g)
    \/ Reroute \/ Close \/ CloseConnector \/ PoolCloses

\* Applications release what they hold; database/sql and the pool go on.
Spec ==
    /\ Init /\ [][Next]_vars
    /\ \A g \in Goroutines : WF_vars(Proceed(g))
    /\ WF_vars(CloseConnector) /\ WF_vars(PoolCloses)

-----------------------------------------------------------------------------

SqlTypeOK ==
    /\ at \in [Goroutines -> {"idle", "asks", "waits", "resets", "uses"}]
    /\ conn \in [Conns -> Goroutines \cup {"pool"}]
    /\ valid \in [Conns -> BOOLEAN]
    /\ tries \in [Goroutines -> 0..MaxRetries]
    /\ life \in {"open", "closing", "stopping", "closed"}
    /\ \A g \in Goroutines :
         Cardinality(Held(g)) = IF at[g] \in {"uses", "resets"} THEN 1 ELSE 0

\* However many goroutines queue for connections, an obsolete one is not handed
\* from one to the next for ever: it leaves the DB (stdlib.go:34-39).
ObsoleteSessionsLeave == \A c \in Conns : ~valid[c] ~> conn[c] = "pool"

\* Close of the DB ends in a closed pool, whatever is still in use when it begins.
DBCloseClosesPool == life = "closing" ~> life = "closed"
=============================================================================
