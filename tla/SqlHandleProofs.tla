--------------------------- MODULE SqlHandleProofs ---------------------------
(***************************************************************************)
(* A theorem about SqlHandle for any number of goroutines and connections: *)
(* handing connections from one to the other neither loses nor shares one. *)
(***************************************************************************)
EXTENDS SqlHandle, FiniteSetTheorems, TLAPS

USE SqlAssumption

\* SqlTypeOK without cardinalities: a goroutine that has a connection has one.
Owns(g, c) == \A d \in Conns : conn[d] = g <=> d = c

SqlInv ==
    /\ at \in [Goroutines -> {"idle", "asks", "waits", "resets", "uses"}]
    /\ conn \in [Conns -> Goroutines \cup {"pool"}]
    /\ valid \in [Conns -> BOOLEAN]
    /\ tries \in [Goroutines -> 0..MaxRetries]
    /\ life \in {"open", "closing", "stopping", "closed"}
    /\ \A g \in Goroutines :
         IF at[g] \in {"uses", "resets"} THEN \E c \in Conns : Owns(g, c)
                                         ELSE \A d \in Conns : conn[d] # g

\* The counts per goroutine are those of the type invariant.
LEMMA SqlTyped == SqlInv => SqlTypeOK
<1> SUFFICES ASSUME SqlInv, NEW g \in Goroutines
             PROVE  Cardinality(Held(g)) = IF at[g] \in {"uses", "resets"} THEN 1 ELSE 0
  BY DEF SqlInv, SqlTypeOK
<1>1. CASE at[g] \in {"uses", "resets"}
  <2>1. PICK c \in Conns : Owns(g, c)
    BY <1>1 DEF SqlInv
  <2>2. Held(g) = {c}
    BY <2>1 DEF Owns, Held
  <2> QED
    BY <1>1, <2>2, FS_Singleton
<1>2. CASE at[g] \notin {"uses", "resets"}
  <2>1. Held(g) = {}
    BY <1>2 DEF SqlInv, Held
  <2> QED
    BY <1>2, <2>1, FS_EmptySet
<1> QED
  BY <1>1, <1>2

\* A goroutine takes a connection of the pool.
LEMMA Opened ==
    ASSUME SqlInv, NEW g \in Goroutines, at[g] \notin {"uses", "resets"},
           at' = [at EXCEPT ![g] = "uses"], NEW c \in Conns \ Open,
           conn' = [conn EXCEPT ![c] = g], valid' = [valid EXCEPT ![c] = TRUE],
           UNCHANGED <<tries, life>>
    PROVE  SqlInv'
<1>1. conn[c] = "pool"
  BY DEF Open
<1>2. Owns(g, c)'
  BY DEF Owns, SqlInv
<1>3. ASSUME NEW h \in Goroutines, h # g
      PROVE  at'[h] = at[h] /\ \A d \in Conns : conn'[d] = h <=> conn[d] = h
  BY <1>1, <1>3 DEF SqlInv
<1>4. \A h \in Goroutines :
         IF at'[h] \in {"uses", "resets"} THEN \E d \in Conns : Owns(h, d)'
                                          ELSE \A d \in Conns : conn'[d] # h
  BY <1>2, <1>3 DEF SqlInv, Owns
<1> QED
  BY <1>4 DEF SqlInv

\* A goroutine gives its connection back to the pool.
LEMMA GivenBack ==
    ASSUME SqlInv, NEW g \in Goroutines, at[g] \in {"uses", "resets"},
           NEW CONSTANT to \in {"idle", "asks"}, at' = [at EXCEPT ![g] = to],
           NEW c \in Held(g), conn' = [conn EXCEPT ![c] = "pool"],
           tries' \in [Goroutines -> 0..MaxRetries], UNCHANGED <<valid, life>>
    PROVE  SqlInv'
<1>1. c \in Conns /\ conn[c] = g
  BY DEF Held
<1>2. \A d \in Conns : conn'[d] # g
  BY <1>1 DEF SqlInv, Owns
<1>3. ASSUME NEW h \in Goroutines, h # g
      PROVE  at'[h] = at[h] /\ \A d \in Conns : conn'[d] = h <=> conn[d] = h
  BY <1>1, <1>3 DEF SqlInv
<1>4. \A h \in Goroutines :
         IF at'[h] \in {"uses", "resets"} THEN \E d \in Conns : Owns(h, d)'
                                          ELSE \A d \in Conns : conn'[d] # h
  BY <1>2, <1>3 DEF SqlInv, Owns
<1>5. at' \in [Goroutines -> {"idle", "asks", "waits", "resets", "uses"}]
      /\ conn' \in [Conns -> Goroutines \cup {"pool"}]
  BY DEF SqlInv
<1> QED
  BY <1>4, <1>5 DEF SqlInv

\* A goroutine hands its connection to one that waits.
LEMMA HandedOver ==
    ASSUME SqlInv, NEW g \in Goroutines, at[g] = "uses", NEW c \in Held(g),
           NEW w \in Goroutines, at[w] = "waits",
           conn' = [conn EXCEPT ![c] = w], at' = [at EXCEPT ![g] = "idle", ![w] = "resets"],
           UNCHANGED <<valid, tries, life>>
    PROVE  SqlInv'
<1>1. c \in Conns /\ conn[c] = g /\ w # g
  BY DEF Held
<1>2. \A d \in Conns : conn'[d] # g
  BY <1>1 DEF SqlInv, Owns
<1>3. Owns(w, c)'
  BY <1>1 DEF SqlInv, Owns
<1>4. ASSUME NEW h \in Goroutines, h # g, h # w
      PROVE  at'[h] = at[h] /\ \A d \in Conns : conn'[d] = h <=> conn[d] = h
  BY <1>1, <1>4 DEF SqlInv
<1>5. at'[g] = "idle" /\ at'[w] = "resets"
  BY <1>1 DEF SqlInv
<1>6. \A h \in Goroutines :
         IF at'[h] \in {"uses", "resets"} THEN \E d \in Conns : Owns(h, d)'
                                          ELSE \A d \in Conns : conn'[d] # h
  BY <1>1, <1>2, <1>3, <1>4, <1>5 DEF SqlInv, Owns
<1>7. at' \in [Goroutines -> {"idle", "asks", "waits", "resets", "uses"}]
      /\ conn' \in [Conns -> Goroutines \cup {"pool"}]
  BY DEF SqlInv
<1> QED
  BY <1>6, <1>7 DEF SqlInv

\* A goroutine moves between stages that own as much.
LEMMA Moved ==
    ASSUME SqlInv, NEW g \in Goroutines,
           NEW CONSTANT to \in {"idle", "asks", "waits", "uses"},
           at[g] \in {"uses", "resets"} <=> to = "uses",
           at' = [at EXCEPT ![g] = to], conn' = conn,
           tries' \in [Goroutines -> 0..MaxRetries], UNCHANGED <<valid, life>>
    PROVE  SqlInv'
<1>1. at'[g] = to /\ \A h \in Goroutines \ {g} : at'[h] = at[h]
  BY DEF SqlInv
<1>2. \A h \in Goroutines :
         IF at'[h] \in {"uses", "resets"} THEN \E d \in Conns : Owns(h, d)'
                                          ELSE \A d \in Conns : conn'[d] # h
  BY <1>1 DEF SqlInv, Owns
<1>3. at' \in [Goroutines -> {"idle", "asks", "waits", "resets", "uses"}]
  BY DEF SqlInv
<1> QED
  BY <1>2, <1>3 DEF SqlInv

\* Every step keeps the counts.
LEMMA SqlNext ==
    ASSUME SqlInv, [Next]_vars
    PROVE  SqlInv'
<1>0. tries \in [Goroutines -> 0..MaxRetries]
  BY DEF SqlInv
<1>1. ASSUME NEW g \in Goroutines, Ask(g) PROVE SqlInv'
  <2>1. tries' \in [Goroutines -> 0..MaxRetries]
    BY <1>0, <1>1 DEF Ask
  <2>2. at[g] = "idle" /\ at' = [at EXCEPT ![g] = "asks"] /\ UNCHANGED <<conn, valid, life>>
    BY <1>1 DEF Ask, Goes
  <2> QED
    BY <2>1, <2>2, Moved
<1>2. ASSUME NEW g \in Goroutines, Connect(g) \/ OpenForWaiter(g) PROVE SqlInv'
  BY <1>2, Opened DEF Connect, OpenForWaiter, Goes
<1>3. ASSUME NEW g \in Goroutines, Wait(g) \/ GiveUp(g) PROVE SqlInv'
  BY <1>0, <1>3, Moved DEF Wait, GiveUp, Goes
<1>4. ASSUME NEW g \in Goroutines, Release(g) PROVE SqlInv'
  <2>1. PICK c \in Held(g) :
          \/ conn' = [conn EXCEPT ![c] = "pool"] /\ at' = [at EXCEPT ![g] = "idle"]
          \/ \E w \in {v \in Goroutines : at[v] = "waits"} :
                /\ conn' = [conn EXCEPT ![c] = w]
                /\ at' = [at EXCEPT ![g] = "idle", ![w] = "resets"]
    BY <1>4 DEF Release
  <2>2. at[g] = "uses" /\ UNCHANGED <<valid, tries, life>>
    BY <1>4 DEF Release
  <2>3. CASE conn' = [conn EXCEPT ![c] = "pool"] /\ at' = [at EXCEPT ![g] = "idle"]
    BY <1>0, <2>2, <2>3, GivenBack
  <2>4. CASE \E w \in {v \in Goroutines : at[v] = "waits"} :
                /\ conn' = [conn EXCEPT ![c] = w]
                /\ at' = [at EXCEPT ![g] = "idle", ![w] = "resets"]
    BY <2>2, <2>4, HandedOver
  <2> QED
    BY <2>1, <2>3, <2>4
<1>5. ASSUME NEW g \in Goroutines, ResetSession(g) PROVE SqlInv'
  <2>1. CASE Goes(g, "resets", "uses") /\ UNCHANGED <<conn, valid, tries, life>>
    BY <1>0, <2>1, Moved DEF Goes
  <2>2. CASE /\ \E c \in Held(g) : ~valid[c] /\ conn' = [conn EXCEPT ![c] = "pool"]
             /\ Goes(g, "resets", IF tries[g] < MaxRetries THEN "asks" ELSE "idle")
             /\ tries' = [tries EXCEPT ![g] = IF tries[g] < MaxRetries THEN @ + 1 ELSE 0]
             /\ UNCHANGED <<valid, life>>
    <3>1. PICK c \in Held(g) : conn' = [conn EXCEPT ![c] = "pool"]
      BY <2>2
    <3>2. tries' \in [Goroutines -> 0..MaxRetries]
      BY <1>0, <2>2
    <3>3. at[g] = "resets" /\ UNCHANGED <<valid, life>>
      BY <2>2 DEF Goes
    <3>4. at' = [at EXCEPT ![g] = "asks"] \/ at' = [at EXCEPT ![g] = "idle"]
      BY <2>2 DEF Goes
    <3> QED
      BY <3>1, <3>2, <3>3, <3>4, GivenBack
  <2> QED
    BY <1>5, <2>1, <2>2 DEF ResetSession
<1>6. CASE Reroute \/ Close \/ CloseConnector \/ PoolCloses \/ UNCHANGED vars
  <2>1. /\ UNCHANGED <<at, conn, tries>>
        /\ valid' \in [Conns -> BOOLEAN]
        /\ life' \in {"open", "closing", "stopping", "closed"}
    BY <1>6 DEF Reroute, Close, CloseConnector, PoolCloses, vars, SqlInv
  <2> QED
    BY <2>1 DEF SqlInv, Owns
<1> QED
  BY <1>1, <1>2, <1>3, <1>4, <1>5, <1>6 DEF Next, Proceed

\* Whoever hands a connection to whom, and however often one is found obsolete on
\* the way, a goroutine at work has exactly one and nobody else has it.
THEOREM SqlTypes == Spec => []SqlTypeOK
<1>1. Init => SqlInv
  BY DEF Init, SqlInv
<1> QED
  BY <1>1, SqlNext, SqlTyped, PTL DEF Spec
=============================================================================
