-------------------------- MODULE McpServerProofs ---------------------------
(***************************************************************************)
(* The server.  Whatever the repositories, the directories they share, the *)
(* loaders and the timeouts: a watcher that changes the graph owns its     *)
(* database.  Whatever the lines of a session hold: those the server is    *)
(* done with have their answers, in order and once; and HTTP answers a     *)
(* message as standard input does.                                         *)
(***************************************************************************)
EXTENDS McpServer, TLAPS

Holding == {"register", "remove", "build", "meta", "close"}

\* What the argument needs to know of the types.
Shapes ==
  /\ pc \in [Repos -> Steps]
  /\ handle \in [Repos -> {"none", "open", "closed"}]
  /\ holders \in [DBs -> SUBSET (Repos \cup Loaders \cup Foreign)]
  /\ loader \in [Loaders -> DBs \cup {"idle"}]

\* A watcher has its directory open from Open until Close.
Held == \A r \in Repos : pc[r] \in Holding => r \in holders[DBOf[r]]

\* Badger's lock: a writer is alone.
Exclusive == \A db \in DBs : \A w \in Writers : w \in holders[db] => holders[db] = {w}

\* A store is registered from Register until Close.
Registered == \A r \in Repos : pc[r] \in {"remove", "build", "meta", "close"} => handle[r] = "open"

IInv == Shapes /\ Held /\ Exclusive /\ Registered

\* The steps of a watcher between two waits that leave directory and registration alone.
Stays(r) ==
  /\ \E step \in Steps :
       /\ pc' = [pc EXCEPT ![r] = step]
       /\ step \in Holding => pc[r] \in Holding
       /\ step \in {"remove", "build", "meta", "close"} => pc[r] \in {"remove", "build", "meta", "close"}
  /\ UNCHANGED <<handle, holders, loader>>

\* The initial states satisfy the invariant: nothing is open.
LEMMA InitHolds == Init => IInv
  BY StorageAssumption DEF Init, IInv, Shapes, Held, Exclusive, Registered, Steps, Holding

\* A reader that is let in, or anybody but the watcher of the directory that leaves it,
\* changes nothing for the writers.
LEMMA ReaderTakes ==
  ASSUME IInv, NEW db \in DBs, NEW who \in Loaders \cup {"export"}, CanRead(db), Take(db, who),
         pc' = pc, handle' = handle, loader' \in [Loaders -> DBs \cup {"idle"}]
  PROVE IInv'
<1>1. who \in Repos \cup Loaders \cup Foreign /\ who \notin Writers
  BY NamesAssumption DEF Foreign, Writers
<1>2. Shapes'
  BY <1>1 DEF IInv, Shapes, Take
<1>3. Held'
  BY StorageAssumption DEF IInv, Shapes, Held, Take
<1>4. Exclusive'
  <2> SUFFICES ASSUME NEW d \in DBs, NEW w \in Writers, w \in holders'[d] PROVE holders'[d] = {w}
    BY DEF Exclusive
  <2>1. CASE d = db
    BY <2>1, <1>1 DEF IInv, Shapes, Take, CanRead
  <2>2. CASE d # db
    BY <2>2 DEF IInv, Shapes, Exclusive, Take
  <2> QED BY <2>1, <2>2
<1>5. Registered'
  BY DEF IInv, Registered
<1> QED BY <1>2, <1>3, <1>4, <1>5 DEF IInv

LEMMA OtherLeaves ==
  ASSUME IInv, NEW db \in DBs, NEW who \in Loaders \cup Foreign, Leave(db, who),
         pc' = pc, handle' = handle, loader' \in [Loaders -> DBs \cup {"idle"}]
  PROVE IInv'
<1>1. who \notin Repos
  BY NamesAssumption
<1>2. Shapes'
  BY DEF IInv, Shapes, Leave
<1>3. Held'
  BY <1>1, StorageAssumption DEF IInv, Shapes, Held, Leave
<1>4. Exclusive'
  BY DEF IInv, Shapes, Exclusive, Leave
<1>5. Registered'
  BY DEF IInv, Registered
<1> QED BY <1>2, <1>3, <1>4, <1>5 DEF IInv

\* A writer of another process.
LEMMA AnalyzeTakes ==
  ASSUME IInv, NEW db \in DBs, CanWrite(db), Take(db, "analyze"),
         pc' = pc, handle' = handle, loader' = loader
  PROVE IInv'
<1>1. Shapes'
  BY DEF IInv, Shapes, Take, Foreign
<1>2. Held'
  BY StorageAssumption DEF IInv, Shapes, Held, Take
<1>3. Exclusive'
  BY DEF IInv, Shapes, Exclusive, Take, CanWrite
<1> QED BY <1>1, <1>2, <1>3 DEF IInv, Registered

LEMMA StepStays ==
  ASSUME IInv, NEW r \in Repos, Stays(r)
  PROVE IInv'
<1>1. PICK step \in Steps :
        /\ pc' = [pc EXCEPT ![r] = step]
        /\ step \in Holding => pc[r] \in Holding
        /\ step \in {"remove", "build", "meta", "close"} => pc[r] \in {"remove", "build", "meta", "close"}
  BY DEF Stays
<1>2. Shapes'
  BY <1>1 DEF IInv, Shapes, Stays
<1>3. Held'
  BY <1>1 DEF IInv, Shapes, Held, Stays
<1>4. Exclusive'
  BY DEF IInv, Exclusive, Stays
<1>5. Registered'
  BY <1>1 DEF IInv, Shapes, Registered, Stays
<1> QED BY <1>2, <1>3, <1>4, <1>5 DEF IInv

\* Every step of a watcher keeps the invariant.
LEMMA RunnerKeeps ==
  ASSUME IInv, NEW r \in Repos, Begin(r) \/ RunnerStep(r)
  PROVE IInv'
<1>1. CASE Open(r)
  <2> USE <1>1
  <2>1. Shapes'
    BY StorageAssumption DEF IInv, Shapes, Open, Take, Goto, Steps
  <2>2. Held'
    BY StorageAssumption DEF IInv, Shapes, Held, Open, Take, Goto, Holding
  <2>3. Exclusive'
    BY StorageAssumption DEF IInv, Shapes, Exclusive, Open, Take, CanWrite
  <2>4. Registered'
    BY DEF IInv, Shapes, Registered, Open, Goto
  <2> QED BY <2>1, <2>2, <2>3, <2>4 DEF IInv
<1>2. CASE Register(r)
  <2> USE <1>2
  <2>1. Shapes'
    BY DEF IInv, Shapes, Register, Goto, Steps
  <2>2. Held'
    BY DEF IInv, Shapes, Held, Register, Goto, Holding
  <2>3. Exclusive'
    BY DEF IInv, Exclusive, Register
  <2>4. Registered'
    BY DEF IInv, Shapes, Registered, Register, Goto
  <2> QED BY <2>1, <2>2, <2>3, <2>4 DEF IInv
<1>3. CASE Close(r)
  <2> USE <1>3
  <2>1. Shapes'
    BY StorageAssumption DEF IInv, Shapes, Close, Leave, Goto, Steps
  <2>2. Held'
    BY StorageAssumption DEF IInv, Shapes, Held, Close, Leave, Goto, Holding
  <2>3. Exclusive'
    BY StorageAssumption DEF IInv, Shapes, Exclusive, Close, Leave
  <2>4. Registered'
    BY DEF IInv, Shapes, Registered, Close, Goto
  <2> QED BY <2>1, <2>2, <2>3, <2>4 DEF IInv
<1>4. CASE Unregister(r)
  <2> USE <1>4
  <2>1. Shapes'
    BY DEF IInv, Shapes, Unregister, Goto, Steps
  <2>2. Held'
    BY DEF IInv, Shapes, Held, Unregister, Goto, Holding
  <2>3. Exclusive'
    BY DEF IInv, Exclusive, Unregister
  <2>4. Registered'
    BY DEF IInv, Shapes, Registered, Unregister, Goto
  <2> QED BY <2>1, <2>2, <2>3, <2>4 DEF IInv
<1>5. CASE OpenLocked(r)
  BY <1>5 DEF OpenLocked, IInv, Shapes, Held, Exclusive, Registered
<1>6. CASE Begin(r) \/ OpenFails(r) \/ GiveUp(r) \/ OpenCancelled(r)
  <2>1. Stays(r)
    BY <1>6 DEF Stays, Begin, OpenFails, GiveUp, OpenCancelled, Goto, Steps, Holding
  <2> QED BY <2>1, StepStays
<1>7. CASE Remove(r) \/ Build(r) \/ ChangeFails(r) \/ SaveMetadata(r)
  <2>1. Stays(r)
    BY <1>7 DEF Stays, Remove, Build, Change, ChangeFails, SaveMetadata, Goto, Steps, Holding
  <2> QED BY <2>1, StepStays
<1> QED BY <1>1, <1>2, <1>3, <1>4, <1>5, <1>6, <1>7 DEF RunnerStep

\* Every step keeps the invariant.
LEMMA NextKeeps == IInv /\ [Next]_vars => IInv'
<1> SUFFICES ASSUME IInv, [Next]_vars PROVE IInv'
  OBVIOUS
<1>1. CASE \E r \in Repos : Begin(r) \/ RunnerStep(r)
  BY <1>1, RunnerKeeps
<1>2. ASSUME NEW l \in Loaders, LoaderCloses(l) PROVE IInv'
  <2>1. loader[l] \in DBs /\ loader' \in [Loaders -> DBs \cup {"idle"}]
    BY <1>2 DEF LoaderCloses, IInv, Shapes
  <2> QED BY <1>2, <2>1, OtherLeaves DEF LoaderCloses
<1>3. ASSUME NEW l \in Loaders, NEW db \in DBs, LoaderOpens(l, db) PROVE IInv'
  <2>1. loader' \in [Loaders -> DBs \cup {"idle"}]
    BY <1>3 DEF LoaderOpens, IInv, Shapes
  <2> QED BY <1>3, <2>1, ReaderTakes DEF LoaderOpens
<1>4. ASSUME NEW db \in DBs, ForeignOpens(db) PROVE IInv'
  <2>1. PICK p \in Foreign :
          /\ IF p \in Writers THEN CanWrite(db) ELSE CanRead(db)
          /\ Take(db, p)
          /\ UNCHANGED <<pc, waited, since, handle, loader, updates, cancelled, closedUse>>
    BY <1>4 DEF ForeignOpens
  <2>2. CASE p = "analyze"
    BY <2>1, <2>2, AnalyzeTakes DEF Writers
  <2>3. CASE p = "export"
    <3>1. "export" \notin Writers
      BY NamesAssumption DEF Foreign, Writers
    <3>2. loader' \in [Loaders -> DBs \cup {"idle"}]
      BY <2>1 DEF IInv, Shapes
    <3> QED BY <2>1, <2>3, <3>1, <3>2, ReaderTakes
  <2> QED BY <2>2, <2>3 DEF Foreign
<1>5. ASSUME NEW db \in DBs, ForeignCloses(db) PROVE IInv'
  <2>1. loader' \in [Loaders -> DBs \cup {"idle"}]
    BY <1>5 DEF ForeignCloses, IInv, Shapes
  <2> QED BY <1>5, <2>1, OtherLeaves DEF ForeignCloses
<1>6. CASE Cancel \/ Tick \/ UNCHANGED vars
  BY <1>6 DEF Cancel, Tick, vars, IInv, Shapes, Held, Exclusive, Registered
<1> QED BY <1>1, <1>2, <1>3, <1>4, <1>5, <1>6 DEF Next

\* The invariant holds throughout.
LEMMA IInvHolds == Spec => []IInv
  BY InitHolds, NextKeeps, PTL DEF Spec

\* While an update changes the graph and its metadata, its own store is registered and
\* open and nobody else has the directory open, for any number of watchers, databases
\* and loaders, with and without a directory that two repositories share.
THEOREM UpdateOwnsStoreHolds == Spec => []UpdateOwnsStore
<1>1. IInv => UpdateOwnsStore
  BY StorageAssumption DEF IInv, Held, Exclusive, Registered, UpdateOwnsStore, Holding, Writers
<1> QED BY <1>1, IInvHolds, PTL

-----------------------------------------------------------------------------
(* A database that is free is found.  A watcher that gives up has made an  *)
(* attempt within the last delay, and it met somebody else: the invariant  *)
(* relates how long the directory was free to how long ago that was.       *)

\* Only a watcher that is between Open and Close has its directory open.
OnlyHeld == \A r \in Repos : r \in holders[DBOf[r]] => pc[r] \in Holding

\* Nobody is said to have been alone while somebody else had the directory open.
Disturbed == \A r \in Repos : ~(holders[DBOf[r]] \subseteq {r}) => quiet[r] = 0

\* Attempts are never more than a delay apart, and the last one that was made failed on
\* somebody's lock.
Recent ==
  \A r \in Repos : pc[r] = "opening" =>
    /\ since[r] <= Delay
    /\ waited[r] > 0 \/ since[r] < Delay => quiet[r] <= since[r]

TInv == IInv /\ TypeOK /\ OnlyHeld /\ Disturbed /\ Recent

LEMMA InitIsTimed == Init => TInv
<1> SUFFICES ASSUME Init PROVE TInv
  OBVIOUS
<1>1. TypeOK
  <2>1. 0 \in Nat /\ 0 \in 0..Timeout /\ 0 \in 0..MaxUpdates /\ Delay + 1 \in 0..(Delay + 1)
    BY StorageAssumption
  <2>2. /\ waited \in [Repos -> 0..Timeout] /\ since \in [Repos -> Nat]
        /\ updates \in [Repos -> 0..MaxUpdates]
    BY <2>1 DEF Init
  <2>3. quiet \in [Repos -> 0..(Delay + 1)]
    BY <2>1 DEF Init
  <2>4. /\ pc \in [Repos -> Steps] /\ handle \in [Repos -> {"none", "open", "closed"}]
        /\ loader \in [Loaders -> DBs \cup {"idle"}]
    BY DEF Init, Steps
  <2>5. holders \in [DBs -> SUBSET (Repos \cup Loaders \cup Foreign)]
    BY DEF Init
  <2>6. cancelled \in BOOLEAN /\ closedUse \subseteq Repos
    BY DEF Init
  <2> QED BY <2>2, <2>3, <2>4, <2>5, <2>6 DEF TypeOK
<1>2. OnlyHeld /\ Disturbed
  <2>1. \A r \in Repos : DBOf[r] \in DBs
    BY StorageAssumption
  <2> QED BY <2>1 DEF Init, OnlyHeld, Disturbed
<1>3. Recent
  BY DEF Init, Recent
<1> QED BY <1>1, <1>2, <1>3, InitHolds DEF TInv

\* Somebody other than a watcher opens a directory, for reading or writing.
LEMMA TakenByOther ==
  ASSUME TInv, NEW db \in DBs, NEW who \in Loaders \cup Foreign, Take(db, who),
         loader' \in [Loaders -> DBs \cup {"idle"}],
         UNCHANGED <<pc, waited, since, handle, updates, cancelled, closedUse>>
  PROVE TypeOK' /\ OnlyHeld' /\ Disturbed' /\ Recent'
<1>1. \A r \in Repos : who # r
  BY NamesAssumption
<1>2. quiet' \in [Repos -> 0..(Delay + 1)]
  BY StorageAssumption DEF TInv, TypeOK, Take
<1>3. TypeOK'
  BY <1>2 DEF TInv, TypeOK, Take
<1>4. OnlyHeld'
  BY <1>1, StorageAssumption DEF TInv, TypeOK, OnlyHeld, Take
<1>5. Disturbed'
  <2> SUFFICES ASSUME NEW r \in Repos, ~(holders'[DBOf[r]] \subseteq {r}) PROVE quiet'[r] = 0
    BY DEF Disturbed
  <2>1. CASE DBOf[r] = db
    BY <2>1, <1>1 DEF Take
  <2>2. CASE DBOf[r] # db
    BY <2>2, StorageAssumption DEF TInv, TypeOK, Disturbed, Take
  <2> QED BY <2>1, <2>2
<1>6. Recent'
  <2> SUFFICES ASSUME NEW r \in Repos, pc[r] = "opening",
                      waited[r] > 0 \/ since[r] < Delay
               PROVE quiet'[r] <= since[r]
    BY DEF Recent, TInv
  <2>1. since[r] \in Nat /\ quiet[r] <= since[r]
    BY DEF TInv, TypeOK, Recent
  <2>2. quiet'[r] = 0 \/ quiet'[r] = quiet[r]
    BY DEF Take
  <2> QED BY <2>1, <2>2
<1> QED BY <1>3, <1>4, <1>5, <1>6

\* Somebody leaves a directory, or changes nothing about directories at all.
LEMMA LeftByOther ==
  ASSUME TInv, NEW db \in DBs, NEW who \in Loaders \cup Foreign, Leave(db, who),
         loader' \in [Loaders -> DBs \cup {"idle"}],
         UNCHANGED <<pc, waited, since, handle, quiet, updates, cancelled, closedUse>>
  PROVE TypeOK' /\ OnlyHeld' /\ Disturbed' /\ Recent'
<1>1. TypeOK'
  BY DEF TInv, TypeOK, Leave
<1>2. \A d \in DBs : holders'[d] \subseteq holders[d]
  BY DEF TInv, TypeOK, Leave
<1>3. OnlyHeld'
  BY <1>2, StorageAssumption DEF TInv, OnlyHeld
<1>4. Disturbed'
  BY <1>2, StorageAssumption DEF TInv, Disturbed
<1>5. Recent'
  BY DEF TInv, Recent
<1> QED BY <1>1, <1>3, <1>4, <1>5

\* A watcher's step that leaves all directories alone and ends outside of openWatchStorage.
LEMMA StepIsTimed ==
  ASSUME TInv, NEW r \in Repos, NEW step \in Steps \ {"opening"},
         pc' = [pc EXCEPT ![r] = step], pc[r] \in Holding => step \in Holding,
         handle' \in [Repos -> {"none", "open", "closed"}], closedUse' \subseteq Repos,
         UNCHANGED <<waited, since, holders, loader, quiet, updates, cancelled>>
  PROVE TypeOK' /\ OnlyHeld' /\ Disturbed' /\ Recent'
<1>1. TypeOK'
  BY DEF TInv, TypeOK
<1>2. OnlyHeld'
  BY DEF TInv, TypeOK, OnlyHeld
<1>3. Disturbed'
  BY DEF TInv, Disturbed
<1>4. Recent'
  BY DEF TInv, TypeOK, Recent
<1> QED BY <1>1, <1>2, <1>3, <1>4

LEMMA RunnerIsTimed ==
  ASSUME TInv, NEW r \in Repos, Begin(r) \/ RunnerStep(r)
  PROVE TypeOK' /\ OnlyHeld' /\ Disturbed' /\ Recent'
<1> USE StorageAssumption
<1>1. CASE Begin(r)
  <2> USE <1>1
  <2>1. TypeOK'
    BY DEF TInv, TypeOK, Begin, Goto, Steps
  <2>2. OnlyHeld'
    BY DEF TInv, TypeOK, OnlyHeld, Begin, Goto, Holding
  <2>3. Disturbed'
    BY DEF TInv, Disturbed, Begin
  <2>4. Recent'
    <3> SUFFICES ASSUME NEW s \in Repos, pc'[s] = "opening"
                 PROVE /\ since'[s] <= Delay
                       /\ waited'[s] > 0 \/ since'[s] < Delay => quiet'[s] <= since'[s]
      BY DEF Recent
    <3>1. CASE s = r
      BY <3>1 DEF TInv, TypeOK, Begin
    <3>2. CASE s # r
      BY <3>2 DEF TInv, TypeOK, Recent, Begin, Goto
    <3> QED BY <3>1, <3>2
  <2> QED BY <2>1, <2>2, <2>3, <2>4
<1>2. CASE Open(r)
  <2> USE <1>2
  <2>1. TypeOK'
    <3>1. holders' \in [DBs -> SUBSET (Repos \cup Loaders \cup Foreign)]
      BY DEF TInv, TypeOK, Open, Take
    <3>2. quiet' \in [Repos -> 0..(Delay + 1)]
      BY DEF TInv, TypeOK, Open, Take
    <3> QED BY <3>1, <3>2 DEF TInv, TypeOK, Open, Goto, Steps
  <2>2. OnlyHeld'
    <3> SUFFICES ASSUME NEW s \in Repos, s \in holders'[DBOf[s]] PROVE pc'[s] \in Holding
      BY DEF OnlyHeld
    <3>1. CASE s = r
      BY <3>1 DEF TInv, TypeOK, Open, Goto, Holding
    <3>2. CASE s # r
      <4>1. s \in holders[DBOf[s]]
        BY <3>2 DEF TInv, TypeOK, Open, Take
      <4> QED BY <4>1, <3>2 DEF TInv, TypeOK, OnlyHeld, Open, Goto
    <3> QED BY <3>1, <3>2
  <2>3. Disturbed'
    <3> SUFFICES ASSUME NEW s \in Repos, ~(holders'[DBOf[s]] \subseteq {s}) PROVE quiet'[s] = 0
      BY DEF Disturbed
    <3>1. CASE DBOf[s] = DBOf[r] /\ s # r
      BY <3>1 DEF Open, Take
    <3>2. CASE DBOf[s] # DBOf[r]
      <4>1. holders'[DBOf[s]] = holders[DBOf[s]] /\ quiet'[s] = quiet[s]
        BY <3>2 DEF TInv, TypeOK, Open, Take
      <4> QED BY <4>1 DEF TInv, Disturbed
    <3>3. CASE s = r
      BY <3>3 DEF TInv, TypeOK, Open, Take, CanWrite
    <3> QED BY <3>1, <3>2, <3>3
  <2>4. Recent'
    <3> SUFFICES ASSUME NEW s \in Repos, pc'[s] = "opening"
                 PROVE /\ since'[s] <= Delay
                       /\ waited'[s] > 0 \/ since'[s] < Delay => quiet'[s] <= since'[s]
      BY DEF Recent
    <3>1. s # r /\ pc[s] = "opening"
      BY DEF TInv, TypeOK, Open, Goto
    <3>2. quiet'[s] = 0 \/ quiet'[s] = quiet[s]
      BY DEF Open, Take
    <3>3. since'[s] = since[s] /\ waited'[s] = waited[s] /\ since[s] \in Nat
      BY DEF TInv, TypeOK, Open
    <3> QED BY <3>1, <3>2, <3>3 DEF TInv, Recent
  <2> QED BY <2>1, <2>2, <2>3, <2>4
<1>3. CASE OpenLocked(r)
  <2> USE <1>3
  <2>1. TypeOK'
    BY DEF TInv, TypeOK, OpenLocked
  <2>2. OnlyHeld' /\ Disturbed'
    BY DEF TInv, OnlyHeld, Disturbed, OpenLocked
  <2>3. quiet[r] = 0
    <3>1. r \notin holders[DBOf[r]] /\ holders[DBOf[r]] # {}
      BY DEF TInv, OnlyHeld, OpenLocked, CanWrite, Holding
    <3> QED BY <3>1 DEF TInv, Disturbed
  <2>4. Recent'
    BY <2>3 DEF TInv, TypeOK, Recent, OpenLocked
  <2> QED BY <2>1, <2>2, <2>4
<1>4. CASE Close(r)
  <2> USE <1>4
  <2>1. TypeOK'
    BY DEF TInv, TypeOK, Close, Leave, Goto, Steps
  <2>2. OnlyHeld'
    BY DEF TInv, TypeOK, OnlyHeld, Close, Leave, Goto
  <2>3. Disturbed'
    <3>1. \A d \in DBs : holders'[d] \subseteq holders[d]
      BY DEF TInv, TypeOK, Close, Leave
    <3> QED BY <3>1 DEF TInv, Disturbed, Close
  <2>4. Recent'
    BY DEF TInv, TypeOK, Recent, Close, Goto
  <2> QED BY <2>1, <2>2, <2>3, <2>4
<1>5. CASE OpenFails(r) \/ GiveUp(r) \/ OpenCancelled(r)
  <2>1. pc[r] = "opening" /\ pc' = [pc EXCEPT ![r] = "idle"]
        /\ UNCHANGED <<waited, since, handle, holders, loader, quiet, updates, cancelled, closedUse>>
    BY <1>5 DEF OpenFails, GiveUp, OpenCancelled, Goto
  <2>2. pc[r] \notin Holding /\ "idle" \in Steps \ {"opening"}
    BY <2>1 DEF Holding, Steps
  <2>3. handle' \in [Repos -> {"none", "open", "closed"}] /\ closedUse' \subseteq Repos
    BY <2>1 DEF TInv, TypeOK
  <2> QED BY <2>1, <2>2, <2>3, StepIsTimed
<1>6. CASE Register(r)
  <2>1. pc' = [pc EXCEPT ![r] = "remove"]
        /\ UNCHANGED <<waited, since, holders, loader, quiet, updates, cancelled, closedUse>>
    BY <1>6 DEF Register, Goto
  <2>2. "remove" \in Steps \ {"opening"} /\ "remove" \in Holding
    BY DEF Holding, Steps
  <2>3. handle' \in [Repos -> {"none", "open", "closed"}] /\ closedUse' \subseteq Repos
    BY <1>6 DEF TInv, TypeOK, Register
  <2> QED BY <2>1, <2>2, <2>3, StepIsTimed
<1>7. CASE Unregister(r)
  <2>1. pc[r] = "unregister" /\ pc' = [pc EXCEPT ![r] = "idle"]
        /\ UNCHANGED <<waited, since, holders, loader, quiet, updates, cancelled, closedUse>>
    BY <1>7 DEF Unregister, Goto
  <2>2. pc[r] \notin Holding /\ "idle" \in Steps \ {"opening"}
    BY <2>1 DEF Holding, Steps
  <2>3. handle' \in [Repos -> {"none", "open", "closed"}] /\ closedUse' \subseteq Repos
    BY <1>7 DEF TInv, TypeOK, Unregister
  <2> QED BY <2>1, <2>2, <2>3, StepIsTimed
<1>8. CASE Remove(r) \/ Build(r) \/ ChangeFails(r) \/ SaveMetadata(r)
  <2>1. PICK step \in {"build", "meta", "close"} : pc' = [pc EXCEPT ![r] = step]
    BY <1>8 DEF Remove, Build, Change, ChangeFails, SaveMetadata, Goto
  <2>2. step \in Steps \ {"opening"} /\ step \in Holding
    BY DEF Holding, Steps
  <2>3. UNCHANGED <<waited, since, handle, holders, loader, quiet, updates, cancelled>>
    BY <1>8 DEF Remove, Build, Change, ChangeFails, SaveMetadata
  <2>4. handle' \in [Repos -> {"none", "open", "closed"}] /\ closedUse' \subseteq Repos
    BY <1>8 DEF TInv, TypeOK, Remove, Build, Change, ChangeFails, SaveMetadata
  <2> QED BY <2>1, <2>2, <2>3, <2>4, StepIsTimed
<1> QED BY <1>1, <1>2, <1>3, <1>4, <1>5, <1>6, <1>7, <1>8 DEF RunnerStep

\* A tick adds as much to the time since the last attempt as to the time alone, and none
\* passes while an attempt is due.
LEMMA TickIsTimed ==
  ASSUME TInv, Tick
  PROVE TypeOK' /\ OnlyHeld' /\ Disturbed' /\ Recent'
<1> USE StorageAssumption
<1>1. TypeOK'
  <2>1. waited' \in [Repos -> 0..Timeout]
    BY DEF TInv, TypeOK, Tick
  <2>2. since' \in [Repos -> Nat]
    BY DEF TInv, TypeOK, Tick
  <2>3. quiet' \in [Repos -> 0..(Delay + 1)]
    BY DEF TInv, TypeOK, Tick
  <2> QED BY <2>1, <2>2, <2>3 DEF TInv, TypeOK, Tick
<1>2. OnlyHeld'
  BY DEF TInv, OnlyHeld, Tick
<1>3. Disturbed'
  BY DEF TInv, Disturbed, Tick
<1>4. Recent'
  <2> SUFFICES ASSUME NEW r \in Repos, pc'[r] = "opening"
               PROVE since'[r] <= Delay /\ quiet'[r] <= since'[r]
    BY DEF Recent
  <2>1. since[r] \in Nat /\ quiet[r] \in Nat /\ since[r] < Delay
    BY DEF TInv, TypeOK, Tick, Due
  <2>2. quiet[r] <= since[r]
    BY <2>1 DEF TInv, Recent, Tick
  <2>3. since'[r] = since[r] + 1
    BY DEF Tick
  <2>4. quiet'[r] = 0 \/ quiet'[r] = quiet[r] \/ quiet'[r] = quiet[r] + 1
    BY DEF Tick
  <2> QED BY <2>1, <2>2, <2>3, <2>4
<1> QED BY <1>1, <1>2, <1>3, <1>4

LEMMA NextIsTimed == TInv /\ [Next]_vars => TInv'
<1> SUFFICES ASSUME TInv, [Next]_vars PROVE TypeOK' /\ OnlyHeld' /\ Disturbed' /\ Recent'
  BY NextKeeps DEF TInv
<1>1. CASE \E r \in Repos : Begin(r) \/ RunnerStep(r)
  BY <1>1, RunnerIsTimed
<1>2. ASSUME NEW l \in Loaders, LoaderCloses(l) PROVE TypeOK' /\ OnlyHeld' /\ Disturbed' /\ Recent'
  <2>1. loader[l] \in DBs /\ loader' \in [Loaders -> DBs \cup {"idle"}]
    BY <1>2 DEF LoaderCloses, TInv, TypeOK
  <2> QED BY <1>2, <2>1, LeftByOther DEF LoaderCloses
<1>3. ASSUME NEW l \in Loaders, NEW db \in DBs, LoaderOpens(l, db)
      PROVE TypeOK' /\ OnlyHeld' /\ Disturbed' /\ Recent'
  <2>1. loader' \in [Loaders -> DBs \cup {"idle"}]
    BY <1>3 DEF LoaderOpens, TInv, TypeOK
  <2> QED BY <1>3, <2>1, TakenByOther DEF LoaderOpens
<1>4. ASSUME NEW db \in DBs, ForeignOpens(db) PROVE TypeOK' /\ OnlyHeld' /\ Disturbed' /\ Recent'
  <2>1. PICK p \in Foreign :
          /\ Take(db, p)
          /\ UNCHANGED <<pc, waited, since, handle, loader, updates, cancelled, closedUse>>
    BY <1>4 DEF ForeignOpens
  <2>2. loader' \in [Loaders -> DBs \cup {"idle"}]
    BY <2>1 DEF TInv, TypeOK
  <2> QED BY <2>1, <2>2, TakenByOther
<1>5. ASSUME NEW db \in DBs, ForeignCloses(db) PROVE TypeOK' /\ OnlyHeld' /\ Disturbed' /\ Recent'
  <2>1. loader' \in [Loaders -> DBs \cup {"idle"}]
    BY <1>5 DEF ForeignCloses, TInv, TypeOK
  <2> QED BY <1>5, <2>1, LeftByOther DEF ForeignCloses
<1>6. CASE Tick
  BY <1>6, TickIsTimed
<1>7. CASE Cancel \/ UNCHANGED vars
  BY <1>7 DEF Cancel, vars, TInv, TypeOK, OnlyHeld, Disturbed, Recent
<1> QED BY <1>1, <1>2, <1>3, <1>4, <1>5, <1>6, <1>7 DEF Next

\* Every reachable state of the server's databases is well-typed.
THEOREM StorageTypesHold == Spec => []TypeOK
<1>1. TInv => TypeOK
  BY DEF TInv
<1> QED BY <1>1, InitIsTimed, NextIsTimed, PTL DEF Spec

\* An update is dropped for the lock only if somebody else had the database open within
\* the last delay, for any timeout and delay, the timeout shorter than the delay included.
THEOREM DroppedOnlyIfLockedHolds == Spec => DroppedOnlyIfLocked
<1>1. TInv => \A r \in Repos : GiveUp(r) => quiet[r] <= Delay
  <2> SUFFICES ASSUME TInv, NEW r \in Repos, GiveUp(r) PROVE quiet[r] <= Delay
    OBVIOUS
  <2>1. since[r] \in Nat /\ quiet[r] \in Nat /\ waited[r] > 0
    BY StorageAssumption DEF TInv, TypeOK, GiveUp
  <2>2. quiet[r] <= since[r] /\ since[r] <= Delay
    BY <2>1 DEF TInv, Recent, GiveUp
  <2> QED BY <2>1, <2>2, StorageAssumption
<1>2. TInv /\ [Next]_vars => [\A r \in Repos : GiveUp(r) => quiet[r] <= Delay]_vars
  BY <1>1
<1> QED BY <1>2, InitIsTimed, NextIsTimed, PTL DEF Spec, DroppedOnlyIfLocked

-----------------------------------------------------------------------------
(* A session on standard input.  The lines of the client are s1, of which  *)
(* the server has read s3; s2 says that the client is done, s4 holds the   *)
(* answers, s5 is where the loop is, s6 the answer on its way, s7 what was *)
(* asked of the graph, s8 the signal, s9 why the server stopped.           *)

Replies == [id : Nat, code : Stdio!Codes]

SessionShapes ==
  /\ s1 \in Seq(Lines) /\ Len(s1) <= MaxSent /\ s3 \in 0..Len(s1)
  /\ s2 \in BOOLEAN /\ s8 \in BOOLEAN
  /\ s4 \in Seq([line : Nat, reply : Replies])
  /\ s5 \in {"scan", "handle", "call", "write", "stopped"}
  /\ s9 \in {None, "too-long", "signal", "end-of-input", "broken-pipe"}

\* The id an answer to a line has; a line that is no message has none of its own.
IdOf(m) == IF m.text = "json" THEN m.id ELSE 0

\* What the place in the loop says of the line that was read last.
LineAtHand ==
  /\ s5 \in {"handle", "call", "write"} => s3 > 0
  /\ s5 = "stopped" => s3 > 0 \/ s9 # "too-long"
  /\ s5 \in {"handle", "call"} => Stdio!Line.text = "json"
  /\ s5 = "call" => Stdio!WantsAnswer(Stdio!Line)
  /\ s5 = "write" => s6 \in Replies /\ Stdio!WantsAnswer(Stdio!Line) /\ s6.id = IdOf(Stdio!Line)

\* The answers that were written are those that are due.
Answered ==
  /\ {s4[i].line : i \in DOMAIN s4} = {i \in 1..Stdio!Due : Stdio!WantsAnswer(s1[i])}
  /\ \A i, j \in DOMAIN s4 : i < j => s4[i].line < s4[j].line
  /\ \A i \in DOMAIN s4 : s4[i].reply.id = IdOf(s1[s4[i].line])

\* What reached the graph had been accepted.
Called ==
  \A a \in s7 :
    /\ a.line \in 1..s3
    /\ Stdio!Accepted(s1[a.line]) /\ a.limits = Stdio!Asked(s1[a.line])

SessionInv == SessionShapes /\ LineAtHand /\ Answered /\ Called /\ Stdio!StopsForCause

\* An answer is not the absence of one.
LEMMA ReplyIsAnswer ==
  ASSUME NEW m \in Lines, NEW code \in Stdio!Codes
  PROVE /\ Stdio!Reply(m.id, code) \in Replies /\ Stdio!Reply(m.id, code).id = m.id
        /\ Stdio!Reply(m.id, code) # None
        /\ Stdio!Reply(0, code) \in Replies /\ Stdio!Reply(0, code).id = 0
        /\ Stdio!Reply(0, code) # None
<1>1. m.id \in Nat /\ m.id \in {0} \cup {x.id : x \in Lines} /\ 0 \in {0} \cup {x.id : x \in Lines}
  BY RequestsAssumption DEF Stdio!MessageAssumption
<1>2. Stdio!Reply(m.id, code) # None /\ Stdio!Reply(0, code) # None
  BY <1>1, RequestsAssumption DEF Stdio!MessageAssumption
<1> QED BY <1>1, <1>2 DEF Stdio!Reply, Replies

\* handleRequestContext answers the messages that want an answer, with their ids.
LEMMA AnswerIfWanted ==
  ASSUME NEW m \in Lines, m.text = "json", ~(Stdio!ValidVersion(m) /\ Stdio!CallsTool(m))
  PROVE IF Stdio!WantsAnswer(m)
        THEN Stdio!Answer(m) \in Replies /\ Stdio!Answer(m).id = m.id /\ Stdio!Answer(m) # None
        ELSE Stdio!Answer(m) = None
<1>1. {Stdio!Result, Stdio!InvalidRequest, Stdio!InvalidParams, Stdio!NotFound} \subseteq Stdio!Codes
  BY DEF Stdio!Codes
<1>2. \A code \in {Stdio!Result, Stdio!InvalidRequest, Stdio!InvalidParams, Stdio!NotFound} :
        /\ Stdio!Reply(m.id, code) \in Replies /\ Stdio!Reply(m.id, code).id = m.id
        /\ Stdio!Reply(m.id, code) # None
  BY <1>1, ReplyIsAnswer
<1>3. CASE ~Stdio!ValidVersion(m)
  BY <1>2, <1>3 DEF Stdio!Answer, Stdio!WantsAnswer
<1>4. CASE Stdio!ValidVersion(m)
  BY <1>2, <1>4 DEF Stdio!Answer, Stdio!WantsAnswer
<1> QED BY <1>3, <1>4

LEMMA ToolCodesAreCodes == ASSUME NEW m, NEW cut PROVE Stdio!ToolCodes(m, cut) \subseteq Stdio!Codes
  BY DEF Stdio!ToolCodes, Stdio!Codes

LEMMA SessionInitially == Stdio!Init => SessionInv
<1> SUFFICES ASSUME Stdio!Init PROVE SessionInv
  OBVIOUS
<1>1. SessionShapes
  <2>1. s1 \in Seq(Lines) /\ Len(s1) = 0 /\ s4 \in Seq([line : Nat, reply : Replies])
    BY DEF Stdio!Init
  <2>2. 0 <= MaxSent /\ 0 \in 0..0
    BY RequestsAssumption
  <2> QED BY <2>1, <2>2 DEF Stdio!Init, SessionShapes
<1>2. LineAtHand /\ Called /\ Stdio!StopsForCause
  BY DEF Stdio!Init, LineAtHand, Called, Stdio!StopsForCause
<1>3. Answered
  BY DEF Stdio!Init, Answered, Stdio!Due
<1> QED BY <1>1, <1>2, <1>3 DEF SessionInv

\* More lines do not change what was made of those that were read.
LEMMA SendKeeps ==
  ASSUME SessionInv, NEW m \in Lines, Stdio!Send(m)
  PROVE SessionInv'
<1>1. /\ s1' = Append(s1, m) /\ Len(s1) < MaxSent /\ s2 # TRUE
      /\ UNCHANGED <<s2, s3, s4, s5, s6, s7, s8, s9>>
  BY DEF Stdio!Send
<1>2. /\ s1' \in Seq(Lines) /\ Len(s1') = Len(s1) + 1
      /\ \A i \in 1..s3 : s1'[i] = s1[i]
  BY <1>1 DEF SessionInv, SessionShapes
<1>3. SessionShapes'
  BY <1>1, <1>2, RequestsAssumption DEF SessionInv, SessionShapes
<1>4. s3 > 0 => Stdio!Line' = Stdio!Line
  BY <1>1, <1>2 DEF Stdio!Line, SessionInv, SessionShapes
<1>5. LineAtHand'
  <2>1. CASE s3 > 0
    <3>1. (Stdio!WantsAnswer(Stdio!Line))' = Stdio!WantsAnswer(Stdio!Line) /\ IdOf(Stdio!Line)' = IdOf(Stdio!Line)
      BY <1>4, <2>1 DEF Stdio!WantsAnswer, Stdio!ValidVersion, IdOf
    <3> QED BY <1>1, <1>4, <2>1, <3>1 DEF SessionInv, LineAtHand
  <2>2. CASE ~(s3 > 0)
    BY <1>1, <2>2 DEF SessionInv, LineAtHand
  <2> QED BY <2>1, <2>2
<1>6. Called'
  <2> SUFFICES ASSUME NEW a \in s7
               PROVE a.line \in 1..s3 /\ Stdio!Accepted(s1'[a.line]) /\ a.limits = Stdio!Asked(s1'[a.line])
    BY <1>1 DEF Called
  <2>1. a.line \in 1..s3 /\ Stdio!Accepted(s1[a.line]) /\ a.limits = Stdio!Asked(s1[a.line])
    BY DEF SessionInv, Called
  <2> QED BY <1>2, <2>1
<1>7. Stdio!StopsForCause'
  <2>1. CASE s9 = "too-long"
    <3>1. s5 = "stopped" => s3 > 0
      BY <2>1 DEF SessionInv, LineAtHand
    <3> QED BY <1>1, <1>4, <2>1, <3>1 DEF SessionInv, Stdio!StopsForCause
  <2>2. CASE s9 # "too-long"
    BY <1>1, <2>2 DEF SessionInv, Stdio!StopsForCause
  <2> QED BY <2>1, <2>2
<1>8. Answered'
  <2>1. Stdio!Due' = Stdio!Due /\ Stdio!Due \in Int /\ Stdio!Due <= s3
    BY <1>1 DEF Stdio!Due, SessionInv, SessionShapes
  <2>2. \A i \in 1..Stdio!Due : s1'[i] = s1[i]
    BY <1>2, <2>1 DEF SessionInv, SessionShapes
  <2>3. \A i \in DOMAIN s4 : s4[i].line \in 1..Stdio!Due
    BY DEF SessionInv, Answered
  <2>4. {i \in 1..Stdio!Due : Stdio!WantsAnswer(s1[i])}' = {i \in 1..Stdio!Due : Stdio!WantsAnswer(s1[i])}
    BY <2>1, <2>2 DEF Stdio!WantsAnswer, Stdio!ValidVersion
  <2>5. \A i \in DOMAIN s4 : IdOf(s1[s4[i].line])' = IdOf(s1[s4[i].line])
    BY <1>1, <2>2, <2>3 DEF IdOf
  <2>6. \A i \in DOMAIN s4 : s4'[i].reply.id = IdOf(s1[s4[i].line])'
    BY <1>1, <2>5 DEF SessionInv, Answered
  <2>7. {i \in 1..Stdio!Due : Stdio!WantsAnswer(s1[i])}' = {s4'[i].line : i \in DOMAIN s4'}
    BY <1>1, <2>4 DEF SessionInv, Answered
  <2> QED BY <1>1, <2>6, <2>7 DEF SessionInv, Answered
<1> QED BY <1>3, <1>5, <1>6, <1>7, <1>8 DEF SessionInv

\* The server: a step that leaves lines, answers and calls alone keeps what was said of
\* them as long as the same answers are due.
LEMMA SameDue ==
  ASSUME SessionInv, UNCHANGED <<s1, s4>>, Stdio!Due' = Stdio!Due
  PROVE Answered'
<1>1. {i \in 1..Stdio!Due : Stdio!WantsAnswer(s1[i])}' = {i \in 1..Stdio!Due : Stdio!WantsAnswer(s1[i])}
  BY DEF Stdio!WantsAnswer, Stdio!ValidVersion
<1>2. \A i \in DOMAIN s4 : IdOf(s1[s4[i].line])' = IdOf(s1[s4[i].line])
  BY DEF IdOf
<1> QED BY <1>1, <1>2 DEF SessionInv, Answered

LEMMA CallsStay ==
  ASSUME SessionInv, UNCHANGED <<s1, s7>>, s3' >= s3, s3' \in Nat
  PROVE Called'
<1> SUFFICES ASSUME NEW a \in s7
             PROVE a.line \in 1..s3' /\ Stdio!Accepted(s1'[a.line]) /\ a.limits = Stdio!Asked(s1'[a.line])
  BY DEF Called
<1>1. a.line \in 1..s3 /\ Stdio!Accepted(s1[a.line]) /\ a.limits = Stdio!Asked(s1[a.line])
  BY DEF SessionInv, Called
<1> QED BY <1>1 DEF SessionInv, SessionShapes

LEMMA ScanKeeps ==
  ASSUME SessionInv, Stdio!Scan
  PROVE SessionInv'
<1>1. /\ s5 = "scan" /\ s3 < Len(s1) /\ s3' = s3 + 1 /\ UNCHANGED <<s1, s2, s4, s7, s8>>
  BY DEF Stdio!Scan
<1>2. s3 \in Nat /\ s3' \in 1..Len(s1) /\ Len(s1) \in Nat /\ Stdio!Line' = s1[s3'] /\ s1[s3'] \in Lines
  BY <1>1 DEF SessionInv, SessionShapes, Stdio!Line
<1>3. Stdio!Due = s3 /\ s9 = s9
  BY <1>1 DEF Stdio!Due
<1> DEFINE m == s1[s3']
<1>4. \/ m.text = "oversize" /\ s5' = "stopped" /\ s9' = "too-long" /\ s6' = s6
      \/ s8 /\ s5' = "stopped" /\ s9' = "signal" /\ s6' = s6
      \/ /\ m.text \in {"garbage", "trailing"}
         /\ s5' = "write" /\ s6' = Stdio!Reply(0, Stdio!ParseError) /\ s9' = s9
      \/ m.text = "json" /\ s5' = "handle" /\ s6' = s6 /\ s9' = s9
  <2>1. Stdio!Reply(0, Stdio!ParseError) # None
    BY <1>2, ReplyIsAnswer DEF Stdio!Codes
  <2>2. m.text \in {"json", "trailing", "garbage", "oversize"}
    BY <1>2, RequestsAssumption DEF Stdio!MessageAssumption
  <2>3. s8 \in BOOLEAN
    BY DEF SessionInv, SessionShapes
  <2> QED BY <1>1, <2>1, <2>2, <2>3 DEF Stdio!Scan, Stdio!Stop, Stdio!Respond
<1>5. Stdio!Reply(0, Stdio!ParseError) \in Replies /\ Stdio!Reply(0, Stdio!ParseError).id = 0
  BY <1>2, ReplyIsAnswer DEF Stdio!Codes
<1>6. SessionShapes'
  BY <1>1, <1>2, <1>4 DEF SessionInv, SessionShapes
<1>7. LineAtHand'
  <2>1. m.text \in {"garbage", "trailing"} => Stdio!WantsAnswer(m) /\ IdOf(m) = 0
    BY DEF Stdio!WantsAnswer, IdOf
  <2> QED BY <1>2, <1>4, <1>5, <2>1 DEF LineAtHand
<1>8. Answered'
  <2>1. Stdio!Due' = Stdio!Due
    BY <1>1, <1>2, <1>3, <1>4 DEF Stdio!Due
  <2> QED BY <1>1, <2>1, SameDue
<1>9. Called'
  BY <1>1, <1>2, CallsStay
<1>10. Stdio!StopsForCause'
  BY <1>1, <1>2, <1>4 DEF Stdio!StopsForCause
<1> QED BY <1>6, <1>7, <1>8, <1>9, <1>10 DEF SessionInv

\* A line that wants no answer is dealt with, one that wants it is answered next.
LEMMA HandleKeeps ==
  ASSUME SessionInv, Stdio!Handle
  PROVE SessionInv'
<1>1. s5 = "handle" /\ UNCHANGED <<s1, s2, s3, s4, s8>> /\ Stdio!Line' = Stdio!Line
  BY DEF Stdio!Handle, Stdio!Line
<1> DEFINE m == Stdio!Line
<1>2. s3 \in 1..Len(s1) /\ Len(s1) \in Nat /\ m = s1[s3] /\ m \in Lines /\ m.text = "json"
  <2>1. s1 \in Seq(Lines) /\ s3 \in 0..Len(s1) /\ s3 > 0
    BY <1>1 DEF SessionInv, SessionShapes, LineAtHand
  <2> QED BY <1>1, <2>1 DEF SessionInv, LineAtHand, Stdio!Line
<1>3. Stdio!Due = s3 - 1
  BY <1>1 DEF Stdio!Due
<1>4. CASE Stdio!ValidVersion(m) /\ Stdio!CallsTool(m)
  <2>1. /\ s5' = "call" /\ UNCHANGED <<s6, s9>>
        /\ s7' = IF Stdio!Accepted(m) THEN s7 \cup {[line |-> s3, limits |-> Stdio!Asked(m)]} ELSE s7
    BY <1>4 DEF Stdio!Handle
  <2>2. Stdio!WantsAnswer(m)
    BY <1>4 DEF Stdio!WantsAnswer, Stdio!CallsTool
  <2>3. SessionShapes' /\ LineAtHand'
    BY <1>1, <1>2, <2>1, <2>2 DEF SessionInv, SessionShapes, LineAtHand
  <2>4. Called'
    <3> SUFFICES ASSUME NEW a \in s7'
                 PROVE a.line \in 1..s3 /\ Stdio!Accepted(s1[a.line]) /\ a.limits = Stdio!Asked(s1[a.line])
      BY <1>1 DEF Called
    <3>1. CASE a \in s7
      BY <3>1 DEF SessionInv, Called
    <3>2. CASE a \notin s7
      <4>1. a = [line |-> s3, limits |-> Stdio!Asked(m)] /\ Stdio!Accepted(m)
        BY <2>1, <3>2
      <4>2. a.line = s3 /\ a.limits = Stdio!Asked(m)
        BY <4>1
      <4> QED BY <1>2, <4>1, <4>2
    <3> QED BY <3>1, <3>2
  <2>5. Answered'
    BY <1>1, <1>3, <2>1, SameDue DEF Stdio!Due
  <2>6. Stdio!StopsForCause'
    BY <2>1 DEF Stdio!StopsForCause
  <2> QED BY <2>3, <2>4, <2>5, <2>6 DEF SessionInv
<1>5. CASE ~(Stdio!ValidVersion(m) /\ Stdio!CallsTool(m))
  <2>1. /\ s5' = (IF Stdio!Answer(m) = None THEN "scan" ELSE "write")
        /\ s6' = Stdio!Answer(m) /\ UNCHANGED <<s7, s9>>
    BY <1>5 DEF Stdio!Handle, Stdio!Respond
  <2>2. IF Stdio!WantsAnswer(m)
        THEN Stdio!Answer(m) \in Replies /\ Stdio!Answer(m).id = m.id /\ Stdio!Answer(m) # None
        ELSE Stdio!Answer(m) = None
    BY <1>2, <1>5, AnswerIfWanted
  <2>3. SessionShapes'
    BY <1>1, <2>1 DEF SessionInv, SessionShapes
  <2>4. LineAtHand'
    BY <1>1, <1>2, <2>1, <2>2 DEF LineAtHand, IdOf
  <2>5. Called'
    BY <1>1, <1>2, <2>1, CallsStay
  <2>6. Answered'
    <3>1. CASE Stdio!WantsAnswer(m)
      BY <1>1, <1>3, <2>1, <2>2, <3>1, SameDue DEF Stdio!Due
    <3>2. CASE ~Stdio!WantsAnswer(m)
      <4>1. Stdio!Due' = s3
        BY <1>1, <2>1, <2>2, <3>2 DEF Stdio!Due
      <4>2. {i \in 1..s3 : Stdio!WantsAnswer(s1[i])} = {i \in 1..(s3 - 1) : Stdio!WantsAnswer(s1[i])}
        BY <1>2, <3>2
      <4>3. {i \in 1..Stdio!Due : Stdio!WantsAnswer(s1[i])}' = {i \in 1..s3 : Stdio!WantsAnswer(s1[i])}
        BY <1>1, <4>1 DEF Stdio!WantsAnswer, Stdio!ValidVersion
      <4>4. \A i \in DOMAIN s4 : IdOf(s1[s4[i].line])' = IdOf(s1[s4[i].line])
        BY <1>1 DEF IdOf
      <4> QED BY <1>1, <1>3, <4>2, <4>3, <4>4 DEF SessionInv, Answered
    <3> QED BY <3>1, <3>2
  <2>7. Stdio!StopsForCause'
    BY <2>1 DEF Stdio!StopsForCause
  <2> QED BY <2>3, <2>4, <2>5, <2>6, <2>7 DEF SessionInv
<1> QED BY <1>4, <1>5

LEMMA ToolEndsKeeps ==
  ASSUME SessionInv, Stdio!ToolEnds
  PROVE SessionInv'
<1> DEFINE m == Stdio!Line
<1>1. s5 = "call" /\ UNCHANGED <<s1, s2, s3, s4, s7, s8>> /\ Stdio!Line' = m
  BY DEF Stdio!ToolEnds, Stdio!Line
<1>2. s3 \in 1..Len(s1) /\ Len(s1) \in Nat /\ m \in Lines /\ m.text = "json" /\ Stdio!WantsAnswer(m)
  <2>1. s1 \in Seq(Lines) /\ s3 \in 0..Len(s1) /\ s3 > 0
    BY <1>1 DEF SessionInv, SessionShapes, LineAtHand
  <2> QED BY <1>1, <2>1 DEF SessionInv, LineAtHand, Stdio!Line
<1>3. PICK code \in Stdio!ToolCodes(m, s8) : Stdio!Respond(Stdio!Reply(m.id, code))
  BY DEF Stdio!ToolEnds
<1>4. code \in Stdio!Codes
  BY ToolCodesAreCodes
<1>5. s5' = "write" /\ s6' = Stdio!Reply(m.id, code) /\ s9' = s9 /\ s6' \in Replies /\ s6'.id = m.id
  BY <1>2, <1>3, <1>4, ReplyIsAnswer DEF Stdio!Respond
<1>6. SessionShapes'
  BY <1>1, <1>5 DEF SessionInv, SessionShapes
<1>7. LineAtHand'
  BY <1>1, <1>2, <1>5 DEF LineAtHand, IdOf
<1>8. Called' /\ Answered' /\ Stdio!StopsForCause'
  BY <1>1, <1>2, <1>5, CallsStay, SameDue DEF Stdio!Due, Stdio!StopsForCause
<1> QED BY <1>6, <1>7, <1>8 DEF SessionInv

\* The answer to the line at hand comes behind those to the lines before it.
LEMMA WriteKeepsSession ==
  ASSUME SessionInv, Stdio!Write
  PROVE SessionInv'
<1> DEFINE answer == [line |-> s3, reply |-> s6]
<1>1. /\ s5 = "write" /\ s5' = "scan" /\ s4' = Append(s4, answer)
      /\ UNCHANGED <<s1, s2, s3, s7, s8, s9>>
  BY DEF Stdio!Write
<1>2. s3 \in Nat \ {0} /\ s4 \in Seq([line : Nat, reply : Replies]) /\ answer \in [line : Nat, reply : Replies]
  BY <1>1 DEF SessionInv, SessionShapes, LineAtHand
<1>3. Stdio!Due = s3 - 1 /\ Stdio!Due' = s3
  BY <1>1 DEF Stdio!Due
<1>4. SessionShapes'
  BY <1>1, <1>2 DEF SessionInv, SessionShapes
<1>5. LineAtHand' /\ Called' /\ Stdio!StopsForCause'
  BY <1>1, <1>2, CallsStay DEF LineAtHand, Stdio!StopsForCause
<1>6. Answered'
  <2>1. /\ DOMAIN s4' = 1..(Len(s4) + 1) /\ DOMAIN s4 = 1..Len(s4) /\ Len(s4) \in Nat
        /\ \A i \in DOMAIN s4 : s4'[i] = s4[i]
        /\ s4'[Len(s4) + 1] = answer
    BY <1>1, <1>2
  <2>2. s6.id = IdOf(s1[s3]) /\ Stdio!WantsAnswer(s1[s3])
    BY <1>1 DEF SessionInv, LineAtHand, Stdio!Line
  <2>3. answer.line = s3 /\ answer.reply.id = IdOf(s1[s3])
    BY <2>2
  <2> HIDE DEF answer
  <2>4. \A i \in DOMAIN s4 : s4[i].line \in 1..(s3 - 1)
    BY <1>3 DEF SessionInv, Answered
  <2>5. {s4'[i].line : i \in DOMAIN s4'} = {s4[i].line : i \in DOMAIN s4} \cup {s3}
    BY <2>1, <2>3
  <2>6. {i \in 1..s3 : Stdio!WantsAnswer(s1[i])} = {i \in 1..(s3 - 1) : Stdio!WantsAnswer(s1[i])} \cup {s3}
    BY <1>2, <2>2
  <2>7. {i \in 1..Stdio!Due : Stdio!WantsAnswer(s1[i])}' = {i \in 1..s3 : Stdio!WantsAnswer(s1[i])}
    BY <1>1, <1>3 DEF Stdio!WantsAnswer, Stdio!ValidVersion
  <2>8. {s4'[i].line : i \in DOMAIN s4'} = {i \in 1..Stdio!Due : Stdio!WantsAnswer(s1[i])}'
    BY <1>3, <2>5, <2>6, <2>7 DEF SessionInv, Answered
  <2>9. \A i, j \in DOMAIN s4' : i < j => s4'[i].line < s4'[j].line
    <3> SUFFICES ASSUME NEW i \in DOMAIN s4', NEW j \in DOMAIN s4', i < j PROVE s4'[i].line < s4'[j].line
      OBVIOUS
    <3>1. CASE j = Len(s4) + 1
      BY <1>2, <2>1, <2>3, <2>4, <3>1
    <3>2. CASE j # Len(s4) + 1
      <4>1. i \in DOMAIN s4 /\ j \in DOMAIN s4
        BY <2>1, <3>2
      <4> QED BY <2>1, <4>1 DEF SessionInv, Answered
    <3> QED BY <3>1, <3>2
  <2>10. \A i \in DOMAIN s4' : s4'[i].reply.id = IdOf(s1[s4'[i].line])
    <3> SUFFICES ASSUME NEW i \in DOMAIN s4' PROVE s4'[i].reply.id = IdOf(s1[s4'[i].line])
      OBVIOUS
    <3>1. CASE i = Len(s4) + 1
      BY <2>1, <2>3, <3>1
    <3>2. CASE i # Len(s4) + 1
      BY <2>1, <3>2 DEF SessionInv, Answered
    <3> QED BY <3>1, <3>2
  <2>11. \A x : IdOf(x)' = IdOf(x)
    BY DEF IdOf
  <2> QED BY <1>1, <2>8, <2>9, <2>10, <2>11 DEF Answered, IdOf
<1> QED BY <1>4, <1>5, <1>6 DEF SessionInv

\* The session ends between two lines or with an answer nobody reads.
LEMMA EndsKeep ==
  ASSUME SessionInv, Stdio!ScanEnd \/ Stdio!WriteFails
  PROVE SessionInv'
<1>1. /\ s5' = "stopped" /\ UNCHANGED <<s1, s2, s3, s4, s7, s8>>
      /\ \/ s5 = "scan" /\ s9' = "end-of-input" /\ s2 /\ s3 = Len(s1)
         \/ s5 = "write" /\ s9' = "broken-pipe"
  BY DEF Stdio!ScanEnd, Stdio!WriteFails, Stdio!Stop
<1>2. s3 \in Nat
  BY DEF SessionInv, SessionShapes
<1>3. SessionShapes' /\ LineAtHand' /\ Stdio!StopsForCause'
  BY <1>1 DEF SessionInv, SessionShapes, LineAtHand, Stdio!StopsForCause
<1>4. Stdio!Due' = Stdio!Due
  BY <1>1 DEF Stdio!Due
<1> QED BY <1>1, <1>2, <1>3, <1>4, CallsStay, SameDue DEF SessionInv

LEMMA SessionKeeps == SessionInv /\ [Stdio!Next]_(Stdio!vars) => SessionInv'
<1> SUFFICES ASSUME SessionInv, [Stdio!Next]_(Stdio!vars) PROVE SessionInv'
  OBVIOUS
<1>1. CASE Stdio!Close \/ Stdio!Signal \/ UNCHANGED Stdio!vars
  <2>1. /\ UNCHANGED <<s1, s3, s4, s5, s6, s7, s9>>
        /\ s2' \in BOOLEAN /\ s8' \in BOOLEAN /\ (s2 => s2') /\ (s8 => s8')
    BY <1>1 DEF Stdio!Close, Stdio!Signal, Stdio!vars, SessionInv, SessionShapes
  <2>2. s3 \in Nat /\ Stdio!Due' = Stdio!Due /\ Stdio!Line' = Stdio!Line
    BY <2>1 DEF SessionInv, SessionShapes, Stdio!Due, Stdio!Line
  <2>3. SessionShapes'
    BY <2>1 DEF SessionInv, SessionShapes
  <2>4. (Stdio!WantsAnswer(Stdio!Line))' = Stdio!WantsAnswer(Stdio!Line) /\ IdOf(Stdio!Line)' = IdOf(Stdio!Line)
    BY <2>2 DEF Stdio!WantsAnswer, Stdio!ValidVersion, IdOf
  <2>5. LineAtHand'
    BY <2>1, <2>2, <2>4 DEF SessionInv, LineAtHand
  <2>6. Stdio!StopsForCause'
    BY <2>1, <2>2 DEF SessionInv, Stdio!StopsForCause
  <2> QED BY <2>1, <2>2, <2>3, <2>5, <2>6, CallsStay, SameDue DEF SessionInv
<1> QED
  BY <1>1, SendKeeps, ScanKeeps, HandleKeeps, ToolEndsKeeps, WriteKeepsSession, EndsKeep
  DEF Stdio!Next, Stdio!Server

\* What is known of calls is enough for the limits.
LEMMA CallsAreLimited == SessionShapes /\ Called => Stdio!LimitsHonoured
<1> SUFFICES ASSUME SessionShapes, Called, NEW a \in s7
             PROVE LET m == s1[a.line] IN
                   /\ a.limits.dependents \in 1..MaxLimit
                   /\ m.tool = "execute_cypher" => m.args["limit"] = a.limits.limit
                   /\ Stdio!Given(m, "limit") =>
                        a.limits.limit = m.args["limit"] \/ (m.args["limit"] = 0 /\ m.tool # "get_node_context")
                   /\ m.tool = "get_node_context" =>
                        \A x \in {"dependents", "callers"} :
                          Stdio!Given(m, x) => a.limits.dependents = m.args[x]
  BY DEF Stdio!LimitsHonoured
<1> DEFINE m == s1[a.line]
<1>1. m \in Lines /\ Stdio!Accepted(m) /\ a.limits = Stdio!Asked(m)
  BY DEF Called, SessionShapes
<1>2. /\ DefaultLimit \in 1..MaxLimit /\ MaxLimit \in Nat
      /\ \A x \in {"dependents", "callers", "limit"} : m.args[x] \in Int \cup {None}
  BY <1>1, RequestsAssumption DEF Stdio!MessageAssumption, Stdio!Arguments
<1>3. a.limits.limit = Stdio!OrDefault(m, "limit")
  BY <1>1 DEF Stdio!Asked
<1>4. CASE m.tool = "get_node_context"
  <2>1. /\ \A x \in {"dependents", "callers", "limit"} : Stdio!Given(m, x) => m.args[x] \in 1..MaxLimit
        /\ Stdio!Given(m, "dependents") /\ Stdio!Given(m, "callers") => m.args["dependents"] = m.args["callers"]
    BY <1>1, <1>4 DEF Stdio!Accepted, Stdio!WithinLimit, Stdio!Arguments
  <2>2. a.limits.dependents = Stdio!DependentsLimit(m)
    BY <1>1, <1>4 DEF Stdio!Asked
  <2> QED BY <1>2, <1>3, <1>4, <2>1, <2>2 DEF Stdio!DependentsLimit, Stdio!OrDefault, Stdio!Given
<1>5. CASE m.tool # "get_node_context"
  <2>1. a.limits.dependents = DefaultLimit
    BY <1>1, <1>5 DEF Stdio!Asked
  <2>2. m.tool = "execute_cypher" => Stdio!Given(m, "limit") /\ m.args["limit"] > 0
    BY <1>1 DEF Stdio!Accepted
  <2> QED BY <1>2, <1>3, <1>5, <2>1, <2>2 DEF Stdio!OrDefault, Stdio!Given
<1> QED BY <1>4, <1>5

LEMMA SessionIsRight ==
  SessionInv => Stdio!TypeOK /\ Stdio!AnswersInOrder /\ Stdio!LimitsHonoured /\ Stdio!StopsForCause
<1> SUFFICES ASSUME SessionInv
             PROVE Stdio!TypeOK /\ Stdio!AnswersInOrder /\ Stdio!LimitsHonoured /\ Stdio!StopsForCause
  OBVIOUS
<1>1. s5 = "write" => s6 # None
  <2> SUFFICES ASSUME s5 = "write" PROVE s6 # None
    OBVIOUS
  <2>1. s6 \in Replies /\ Stdio!Line \in Lines /\ s6.id = IdOf(Stdio!Line)
    <3>1. s1 \in Seq(Lines) /\ s3 \in 1..Len(s1)
      BY DEF SessionInv, SessionShapes, LineAtHand
    <3> QED BY <3>1 DEF SessionInv, LineAtHand, Stdio!Line
  <2>2. s6 = Stdio!Reply(s6.id, s6.code) /\ s6.code \in Stdio!Codes
    BY <2>1 DEF Replies, Stdio!Reply
  <2> QED BY <2>1, <2>2, ReplyIsAnswer DEF IdOf
<1>2. Stdio!TypeOK
  BY <1>1 DEF SessionInv, SessionShapes, Stdio!TypeOK
<1>3. Stdio!AnswersInOrder
  BY DEF SessionInv, Answered, IdOf, Stdio!AnswersInOrder
<1> QED BY <1>2, <1>3, CallsAreLimited DEF SessionInv

-----------------------------------------------------------------------------
(* Requests over HTTP.  The server is s1, the signal s2, the connections   *)
(* of the clients are s3.                                                  *)

Answers == [id : Nat, code : Http!Codes] \cup {None}
Connections ==
  [state : Http!States, request : Posts \cup {Http!Nothing}, status : Nat, reply : Answers]

\* Where a connection is says what it holds.
ConnectionOK(k) ==
  /\ k.state \in {"idle", "sent", "running"} <=> k.status = 0 /\ k.state \notin {"gone", "lost"}
  /\ k.state # "idle" => k.request \in Posts
  /\ k.state = "running" => Http!Runs(k.request)

\* An answer over HTTP to what the server was sent as a message.
Agrees(k) ==
  LET r == k.request IN
  k.state = "answered" /\ r.path = "rpc" /\ r.verb = "POST" /\ Http!AllowedOrigin(r) =>
    \/ k.reply \in Http!OverStdio(r.message)
    \/ r.message.method = "notifications/initialized" /\ k.reply = Http!Reply(r.message.id, Http!NotFound)

HttpInv ==
  /\ s1 \in {"starting", "listening", "closing", "exited"} /\ s2 \in BOOLEAN
  /\ s3 \in [Clients -> Connections]
  /\ \A c \in Clients : ConnectionOK(s3[c]) /\ Agrees(s3[c])
  /\ s1 = "closing" => s2
  /\ \A c \in Clients : s3[c].state = "lost" => s2

LEMMA HttpInitially == Http!Init => HttpInv
<1> SUFFICES ASSUME Http!Init PROVE HttpInv
  OBVIOUS
<1>1. Http!Idle \in Connections /\ ConnectionOK(Http!Idle) /\ Agrees(Http!Idle) /\ Http!Idle.state = "idle"
  BY DEF Http!Idle, Connections, ConnectionOK, Agrees, Http!States, Answers
<1> QED BY <1>1 DEF Http!Init, HttpInv

LEMMA CodesAreAnswers ==
  ASSUME NEW r \in Posts, NEW code \in Http!Codes
  PROVE /\ Http!Reply(r.message.id, code) \in Answers /\ Http!Reply(0, code) \in Answers
        /\ Http!Reply(r.message.id, code) # None
<1>1. r.message \in Bodies
  BY RequestsAssumption DEF Http!HttpAssumption
<1>2. r.message.id \in Nat /\ Http!Reply(r.message.id, code) # None
  BY <1>1, RequestsAssumption DEF Http!MessageAssumption
<1> QED BY <1>2 DEF Http!Reply, Answers

\* What the handlers settle at once is a status with an answer Serve could have written.
LEMMA SettledIsRight ==
  ASSUME NEW r \in Posts, ~Http!Runs(r)
  PROVE /\ Http!Settle(r).status \in Nat \ {0} /\ Http!Settle(r).reply \in Answers
        /\ r.path = "rpc" /\ r.verb = "POST" /\ Http!AllowedOrigin(r) =>
             \/ Http!Settle(r).reply \in Http!OverStdio(r.message)
             \/ /\ r.message.method = "notifications/initialized"
                /\ Http!Settle(r).reply = Http!Reply(r.message.id, Http!NotFound)
<1> DEFINE m == r.message
<1>1. {Http!Result, Http!ParseError, Http!InvalidRequest, Http!InvalidParams, Http!NotFound} \subseteq Http!Codes
  BY DEF Http!Codes
<1>2. /\ m.text \in {"json", "trailing", "garbage", "oversize"}
      /\ r.path \in {"rpc", "health", "other"} /\ r.verb \in {"POST", "GET", "OPTIONS"}
  BY RequestsAssumption DEF Http!HttpAssumption, Http!MessageAssumption
<1>3. \A code \in {Http!Result, Http!ParseError, Http!InvalidRequest, Http!InvalidParams, Http!NotFound} :
        /\ Http!Reply(m.id, code) \in Answers /\ Http!Reply(0, code) \in Answers
        /\ Http!Reply(m.id, code) # None
  BY <1>1, CodesAreAnswers
<1>4. None \in Answers
  BY DEF Answers
<1>5. Http!Answer(m) \in Answers
  BY <1>3, <1>4 DEF Http!Answer
<1>6. Http!Answer(m) = None /\ m.id # 0 /\ Http!ValidVersion(m) => m.method = "notifications/initialized"
  BY <1>3 DEF Http!Answer
<1>7. CASE r.path = "rpc" /\ r.verb = "POST" /\ Http!AllowedOrigin(r)
  <2>1. Http!Settle(r) = Http!Rpc(r)
    BY <1>7 DEF Http!Settle
  <2>2. CASE ~Http!Decoded(m)
    <3>1. Http!Rpc(r) = Http!Refusal(m)
      BY <1>7, <2>2 DEF Http!Rpc
    <3>2. CASE m.text = "json"
      <4>1. Http!Refusal(m) = Http!Settled(400, Http!Reply(m.id, Http!InvalidRequest))
        BY <3>2 DEF Http!Refusal
      <4>2. Http!OverStdio(m) = {Http!Reply(m.id, Http!InvalidRequest)}
        BY <2>2, <3>2 DEF Http!OverStdio, Http!Decoded, Http!Answer
      <4> QED BY <1>3, <2>1, <3>1, <4>1, <4>2 DEF Http!Settled
    <3>3. CASE m.text # "json"
      <4>1. \/ Http!Refusal(m) = Http!Settled(400, Http!Reply(0, Http!ParseError))
            \/ Http!Refusal(m) = Http!Settled(400, Http!Reply(m.id, Http!ParseError))
        BY <1>2, <3>3 DEF Http!Refusal
      <4>2. Http!OverStdio(m) = {Http!Reply(0, Http!ParseError), Http!Reply(m.id, Http!ParseError)}
        BY <3>3 DEF Http!OverStdio
      <4> QED BY <1>3, <2>1, <3>1, <4>1, <4>2 DEF Http!Settled
    <3> QED BY <3>2, <3>3
  <2>3. CASE Http!Decoded(m)
    <3>1. m.text = "json" /\ Http!ValidVersion(m) /\ ~Http!CallsTool(m)
      BY <1>7, <2>3 DEF Http!Decoded, Http!Runs
    <3>2. Http!OverStdio(m) = {Http!Answer(m)}
      BY <3>1 DEF Http!OverStdio
    <3>3. Http!Rpc(r) = IF Http!Answer(m) # None THEN Http!Settled(200, Http!Answer(m))
                        ELSE IF m.id = 0 THEN Http!Settled(202, None)
                        ELSE Http!Settled(200, Http!Reply(m.id, Http!NotFound))
      BY <1>7, <2>3 DEF Http!Rpc
    <3> QED BY <1>3, <1>4, <1>5, <1>6, <2>1, <3>1, <3>2, <3>3 DEF Http!Settled
  <2> QED BY <2>2, <2>3
<1>8. CASE ~(r.path = "rpc" /\ r.verb = "POST" /\ Http!AllowedOrigin(r))
  <2>1. r.path = "rpc" => Http!Rpc(r) \in {Http!Settled(403, Http!Reply(0, Http!InvalidRequest)),
                                         Http!Settled(204, None), Http!Settled(405, Http!Reply(0, Http!InvalidRequest))}
    BY <1>2, <1>8 DEF Http!Rpc
  <2>2. Http!Health(r) \in {Http!Settled(403, Http!Reply(0, Http!InvalidRequest)), Http!Settled(204, None),
                           Http!Settled(200, None), Http!Settled(405, Http!Reply(0, Http!InvalidRequest))}
    BY DEF Http!Health
  <2>3. Http!Settle(r) \in {Http!Settled(403, Http!Reply(0, Http!InvalidRequest)), Http!Settled(204, None),
                           Http!Settled(200, None), Http!Settled(405, Http!Reply(0, Http!InvalidRequest)),
                           Http!Settled(404, None)}
    BY <1>2, <2>1, <2>2 DEF Http!Settle
  <2> QED BY <1>3, <1>4, <1>8, <2>3 DEF Http!Settled
<1> QED BY <1>7, <1>8

\* A step of one connection that ends up well keeps what is known of all.
LEMMA ConnectionKeeps ==
  ASSUME HttpInv, NEW c \in Clients, NEW k \in Connections,
         s3' = [s3 EXCEPT ![c] = k], UNCHANGED <<s1, s2>>,
         ConnectionOK(k), Agrees(k), k.state # "lost"
  PROVE HttpInv'
<1>1. s3' \in [Clients -> Connections] /\ s3'[c] = k /\ \A d \in Clients : d # c => s3'[d] = s3[d]
  BY DEF HttpInv
<1>2. ASSUME NEW d \in Clients PROVE ConnectionOK(s3'[d]) /\ Agrees(s3'[d]) /\ (s3'[d].state = "lost" => s2)
  <2>1. CASE d = c
    BY <1>1, <2>1
  <2>2. CASE d # c
    BY <1>1, <2>2 DEF HttpInv
  <2> QED BY <2>1, <2>2
<1>3. \A x : ConnectionOK(x)' = ConnectionOK(x) /\ Agrees(x)' = Agrees(x)
  BY DEF ConnectionOK, Agrees, Http!AllowedOrigin, Http!OverStdio, Http!Runs, Http!Reply
<1> QED BY <1>1, <1>2, <1>3 DEF HttpInv

\* An answer that is right ends a request.
LEMMA FinishKeeps ==
  ASSUME HttpInv, NEW c \in Clients, UNCHANGED <<s1, s2>>,
         s3[c].request \in Posts, NEW status \in Nat \ {0}, NEW reply \in Answers,
         Http!Finish(c, Http!Settled(status, reply)),
         LET r == s3[c].request IN
         r.path = "rpc" /\ r.verb = "POST" /\ Http!AllowedOrigin(r) =>
           \/ reply \in Http!OverStdio(r.message)
           \/ r.message.method = "notifications/initialized" /\ reply = Http!Reply(r.message.id, Http!NotFound)
  PROVE HttpInv'
<1> DEFINE k == [s3[c] EXCEPT !.state = "answered", !.status = status, !.reply = reply]
<1>1. s3[c] \in Connections /\ s3 \in [Clients -> Connections]
  BY DEF HttpInv
<1>2. s3' = [s3 EXCEPT ![c] = k]
  BY <1>1 DEF Http!Finish, Http!Settled
<1>3. /\ k \in Connections /\ k.state = "answered" /\ k.status = status /\ k.reply = reply
      /\ k.request = s3[c].request
  BY <1>1 DEF Connections, Http!States
<1> HIDE DEF k
<1>4. ConnectionOK(k) /\ Agrees(k)
  BY <1>3 DEF Agrees, ConnectionOK
<1> QED BY <1>2, <1>3, <1>4, ConnectionKeeps

LEMMA AskKeeps ==
  ASSUME HttpInv, NEW c \in Clients, NEW r \in Posts, Http!Ask(c, r)
  PROVE HttpInv'
<1> DEFINE k == [Http!Idle EXCEPT !.state = "sent", !.request = r]
<1>1. Http!Idle \in Connections
  BY DEF Http!Idle, Connections, Http!States, Answers
<1>2. k \in Connections /\ k.state = "sent" /\ k.request = r /\ k.status = Http!Idle.status
  BY <1>1 DEF Connections, Http!States
<1>3. s3' = [s3 EXCEPT ![c] = k] /\ UNCHANGED <<s1, s2>>
  BY DEF Http!Ask
<1> HIDE DEF k
<1>4. Http!Idle.status = 0
  BY DEF Http!Idle
<1>5. ConnectionOK(k) /\ Agrees(k)
  BY <1>2, <1>4 DEF ConnectionOK, Agrees
<1> QED BY <1>2, <1>3, <1>5, ConnectionKeeps

LEMMA HandleRequestKeeps ==
  ASSUME HttpInv, NEW c \in Clients, Http!Handle(c)
  PROVE HttpInv'
<1> DEFINE r == s3[c].request
<1>1. s3[c].state = "sent" /\ s3[c] \in Connections /\ r \in Posts /\ UNCHANGED <<s1, s2>>
  BY DEF Http!Handle, HttpInv, ConnectionOK
<1>2. CASE Http!Runs(r)
  <2> DEFINE k == [s3[c] EXCEPT !.state = "running"]
  <2>1. s3' = [s3 EXCEPT ![c] = k]
    BY <1>2 DEF Http!Handle
  <2>2. k \in Connections /\ k.state = "running" /\ k.request = r /\ k.status = s3[c].status
    BY <1>1 DEF Connections, Http!States
  <2>3. ConnectionOK(s3[c])
    BY DEF HttpInv
  <2> HIDE DEF k
  <2>4. ConnectionOK(k) /\ Agrees(k)
    BY <1>1, <1>2, <2>2, <2>3 DEF ConnectionOK, Agrees
  <2> QED BY <1>1, <2>1, <2>2, <2>4, ConnectionKeeps
<1>3. CASE ~Http!Runs(r)
  <2> DEFINE answer == Http!Settle(r)
  <2>1. Http!Finish(c, answer)
    BY <1>3 DEF Http!Handle
  <2>2. Http!Finish(c, Http!Settled(answer.status, answer.reply))
    BY <2>1 DEF Http!Finish, Http!Settled
  <2> QED BY <1>1, <1>3, <2>2, SettledIsRight, FinishKeeps
<1> QED BY <1>2, <1>3

LEMMA ToolEndsKeepsHttp ==
  ASSUME HttpInv, NEW c \in Clients, Http!ToolEnds(c)
  PROVE HttpInv'
<1> DEFINE r == s3[c].request
<1>1. s3[c].state = "running" /\ r \in Posts /\ Http!Runs(r) /\ UNCHANGED <<s1, s2>>
  BY DEF Http!ToolEnds, HttpInv, ConnectionOK
<1>2. PICK code \in Http!ToolCodes(r.message, FALSE) :
        Http!Finish(c, Http!Settled(200, Http!Reply(r.message.id, code)))
  BY DEF Http!ToolEnds
<1>3. Http!Reply(r.message.id, code) \in Answers
  BY <1>1, CodesAreAnswers DEF Http!ToolCodes, Http!Codes
<1>4. Http!Reply(r.message.id, code) \in Http!OverStdio(r.message)
  BY <1>1 DEF Http!Runs, Http!Decoded, Http!OverStdio
<1> QED BY <1>1, <1>2, <1>3, <1>4, FinishKeeps

\* The connection ends without an answer.
LEMMA GoneKeeps ==
  ASSUME HttpInv, NEW c \in Clients, Http!Leave(c) \/ Http!TimeOut(c)
  PROVE HttpInv'
<1> DEFINE k == [s3[c] EXCEPT !.state = "gone"]
<1>1. s3[c].state \in {"sent", "running"} /\ s3' = [s3 EXCEPT ![c] = k] /\ UNCHANGED <<s1, s2>>
  BY DEF Http!Leave, Http!TimeOut
<1>2. s3[c] \in Connections /\ ConnectionOK(s3[c])
  BY DEF HttpInv
<1>3. k \in Connections /\ k.state = "gone" /\ k.request = s3[c].request
  BY <1>2 DEF Connections, Http!States
<1> HIDE DEF k
<1>4. ConnectionOK(k) /\ Agrees(k)
  BY <1>1, <1>2, <1>3 DEF ConnectionOK, Agrees
<1> QED BY <1>1, <1>3, <1>4, ConnectionKeeps

\* The process ends with the requests that run; it was told to.
LEMMA ReturnKeeps == ASSUME HttpInv, Http!Return PROVE HttpInv'
<1>1. s1 = "closing" /\ s1' = "exited" /\ s2' = s2 /\ s2 /\ s3' = Http!Cut
  BY DEF Http!Return, HttpInv
<1>2. ASSUME NEW c \in Clients
      PROVE s3'[c] \in Connections /\ ConnectionOK(s3'[c]) /\ Agrees(s3'[c])
  <2> DEFINE k == [s3[c] EXCEPT !.state = "lost"]
  <2>1. s3[c] \in Connections /\ ConnectionOK(s3[c]) /\ Agrees(s3[c])
    BY DEF HttpInv
  <2>2. CASE s3[c].state \in {"sent", "running"}
    <3>1. s3'[c] = k
      BY <1>1, <2>2 DEF Http!Cut
    <3>2. k \in Connections /\ k.state = "lost" /\ k.request = s3[c].request
      BY <2>1 DEF Connections, Http!States
    <3> HIDE DEF k
    <3> QED BY <2>1, <2>2, <3>1, <3>2 DEF ConnectionOK, Agrees
  <2>3. CASE s3[c].state \notin {"sent", "running"}
    BY <1>1, <2>1, <2>3 DEF Http!Cut
  <2> QED BY <2>2, <2>3
<1>3. s3' \in [Clients -> Connections]
  BY <1>1, <1>2 DEF Http!Cut
<1>4. \A x : ConnectionOK(x)' = ConnectionOK(x) /\ Agrees(x)' = Agrees(x)
  BY DEF ConnectionOK, Agrees, Http!AllowedOrigin, Http!OverStdio, Http!Runs, Http!Reply
<1> QED BY <1>1, <1>2, <1>3, <1>4 DEF HttpInv

LEMMA HttpKeeps == HttpInv /\ [Http!Next]_(Http!vars) => HttpInv'
<1> SUFFICES ASSUME HttpInv, [Http!Next]_(Http!vars) PROVE HttpInv'
  OBVIOUS
<1>1. CASE Http!Listen \/ Http!Shutdown \/ Http!Signal \/ UNCHANGED Http!vars
  <2>1. /\ s3' = s3 /\ s1' \in {"starting", "listening", "closing", "exited"} /\ s2' \in BOOLEAN
        /\ (s2 => s2') /\ (s1' = "closing" => s2')
    BY <1>1 DEF Http!Listen, Http!Shutdown, Http!Signal, Http!vars, HttpInv
  <2>2. \A x : ConnectionOK(x)' = ConnectionOK(x) /\ Agrees(x)' = Agrees(x)
    BY DEF ConnectionOK, Agrees, Http!AllowedOrigin, Http!OverStdio, Http!Runs, Http!Reply
  <2> QED BY <2>1, <2>2 DEF HttpInv
<1> QED
  BY <1>1, AskKeeps, HandleRequestKeeps, ToolEndsKeepsHttp, GoneKeeps, ReturnKeeps
  DEF Http!Next, Http!ServerSteps

LEMMA HttpIsRight == HttpInv => Http!TypeOK /\ Http!TransportsAgree /\ Http!LostOnlyBySignal
<1>1. HttpInv => Http!TypeOK
  BY DEF HttpInv, ConnectionOK, Connections, Http!TypeOK
<1>2. HttpInv => Http!TransportsAgree
  BY DEF HttpInv, Agrees, Http!TransportsAgree
<1>3. HttpInv => Http!LostOnlyBySignal
  BY DEF HttpInv, Http!LostOnlyBySignal
<1> QED BY <1>1, <1>2, <1>3

-----------------------------------------------------------------------------
(* The server as a whole.                                                  *)

ServerInv == TInv /\ (part = "stdio" => SessionInv) /\ (part = "http" => HttpInv)

LEMMA ServerInvHolds == ServerSpec => []ServerInv
<1>1. ServerInit => ServerInv
  BY InitIsTimed, SessionInitially, HttpInitially DEF ServerInit, ServerInv
<1>2. ServerInv /\ [ServerNext]_serverVars => ServerInv'
  <2> SUFFICES ASSUME ServerInv, [ServerNext]_serverVars PROVE ServerInv'
    OBVIOUS
  <2>1. part' = part
    BY DEF ServerNext, StdioStep, HttpStep, serverVars
  <2>2. TInv'
    <3>1. [Next]_vars
      BY DEF ServerNext, StdioStep, HttpStep, serverVars
    <3> QED BY <3>1, NextIsTimed DEF ServerInv
  <2>3. ASSUME part = "stdio" PROVE SessionInv'
    <3>1. [Stdio!Next]_(Stdio!vars)
      BY <2>3 DEF ServerNext, StdioStep, HttpStep, serverVars, Registers, Rest4, Stdio!vars
    <3> QED BY <2>3, <3>1, SessionKeeps DEF ServerInv
  <2>4. ASSUME part = "http" PROVE HttpInv'
    <3>1. [Http!Next]_(Http!vars)
      BY <2>4 DEF ServerNext, StdioStep, HttpStep, serverVars, Registers, Http!vars
    <3> QED BY <2>4, <3>1, HttpKeeps DEF ServerInv
  <2> QED BY <2>1, <2>2, <2>3, <2>4 DEF ServerInv
<1> QED BY <1>1, <1>2, PTL DEF ServerSpec

\* Of the lines the server is done with, each that wants an answer has exactly one, in the
\* order of the lines and with their ids; no call reaches the graph with another limit than
\* the one asked for or the default; and a session ends for a reason, whatever the lines
\* hold, the tools answer and the client does (Serve and handleRequestContext).
THEOREM SessionHolds == ServerSpec => []SessionIsOrderly
<1>1. ServerInv => SessionIsOrderly
  BY SessionIsRight DEF ServerInv, TInv, SessionIsOrderly
<1> QED BY <1>1, ServerInvHolds, PTL

\* For any clients and requests: what HTTP answers to a message is what standard input
\* answers, and no request is lost before a signal (handleHTTPRPC and StartHTTP).
THEOREM SameOverHttpHolds == ServerSpec => []SameOverHttp
<1>1. ServerInv => SameOverHttp
  BY HttpIsRight DEF ServerInv, SameOverHttp
<1> QED BY <1>1, ServerInvHolds, PTL

=============================================================================
