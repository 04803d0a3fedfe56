---------------------------- MODULE ReplayProofs ----------------------------
(***************************************************************************)
(* Replay is idempotent, and a failed write costs no more than itself: for *)
(* every log, every number of nodes and every order of restarts, snapshots *)
(* and restores.                                                           *)
(*                                                                         *)
(* A store that is ahead of the replay holds a mixture that is the state   *)
(* of no prefix of the log.  What is inductive is weaker than any state:   *)
(* no entry between the one that wrote a key and the last one handed over, *)
(* but for the failed ones, writes that key.  It makes the mixture vanish  *)
(* once nothing is ahead.                                                  *)
(***************************************************************************)
EXTENDS Replay, TLAPS

\* Every value was written to its key by an entry that some node applied.
Written(c) == \A k \in Keys : c[k] > 0 => c[k] <= acked /\ log[c[k]] = k

\* c lacks none of the writes of the entries 1 .. i but failed ones.
Covers(c, i) ==
    \A k \in Keys, j \in (1 .. MaxIndex) \ failed : j <= i /\ c[k] < j => log[j] # k

Contained ==
    \A n \in Nodes : Written(db[n]) /\ Written(taken[n].content) /\ Written(latest[n].content)

Bounded ==
    /\ \A n \in up : applied[n] <= acked
    /\ \A n \in Nodes : taken[n].index <= acked /\ latest[n].index <= acked

Covered ==
    /\ \A n \in up : Covers(db[n], applied[n])
    /\ \A n \in Nodes : Covers(taken[n].content, taken[n].index)
                        /\ Covers(latest[n].content, latest[n].index)

IInv == TypeOK /\ Contained /\ Bounded /\ Covered

-----------------------------------------------------------------------------

LEMMA NoSnapshotType == NoSnapshot \in Snapshots /\ NoSnapshot.index = 0
                        /\ \A k \in Keys : NoSnapshot.content[k] = 0
  BY ReplayAssumption DEF NoSnapshot, Snapshots, Contents, Indexes

LEMMA TypeInductive == TypeOK /\ [Next]_vars => TypeOK'
  <1> SUFFICES ASSUME TypeOK, [Next]_vars
               PROVE  TypeOK'
    OBVIOUS
  <1> USE ReplayAssumption
  <1>1. CASE UNCHANGED vars
    BY <1>1 DEF TypeOK, vars
  <1>2. ASSUME NEW n \in Nodes, Apply(n)
        PROVE  TypeOK'
    BY <1>2 DEF TypeOK, Apply, Contents, Indexes
  <1>3. ASSUME NEW n \in Nodes, ApplyFailed(n)
        PROVE  TypeOK'
    <2>1. applied[n] + 1 \in 1 .. MaxIndex
      BY <1>3 DEF TypeOK, ApplyFailed, Indexes
    <2>2. failed' \in SUBSET (1 .. MaxIndex)
      BY <1>3, <2>1 DEF TypeOK, ApplyFailed
    <2>3. acked' \in Indexes
      BY <1>3, <2>1 DEF TypeOK, ApplyFailed, Indexes
    <2>4. applied' \in [Nodes -> Indexes]
      BY <1>3, <2>1 DEF TypeOK, ApplyFailed, Indexes
    <2> QED BY <1>3, <2>2, <2>3, <2>4 DEF TypeOK, ApplyFailed
  <1>4. ASSUME NEW n \in Nodes, Snapshot(n)
        PROVE  TypeOK'
    BY <1>4 DEF TypeOK, Snapshot, Snapshots
  <1>5. ASSUME NEW n \in Nodes, Persist(n) \/ PersistFailed(n)
        PROVE  TypeOK'
    BY <1>5, NoSnapshotType DEF TypeOK, Persist, PersistFailed, Newest
  <1>6. ASSUME NEW n \in Nodes, NEW m \in Nodes, Restore(n, m) \/ RestoreFailed(n, m)
        PROVE  TypeOK'
    BY <1>6 DEF TypeOK, Restore, RestoreFailed, Newest, Snapshots
  <1>7. ASSUME NEW n \in Nodes, Start(n)
        PROVE  TypeOK'
    BY <1>7 DEF TypeOK, Start, Snapshots
  <1>8. ASSUME NEW n \in Nodes, Stop(n)
        PROVE  TypeOK'
    BY <1>8, NoSnapshotType DEF TypeOK, Stop
  <1> QED BY <1>1, <1>2, <1>3, <1>4, <1>5, <1>6, <1>7, <1>8 DEF Next

\* No step lowers acked or changes the log.
LEMMA AckedGrows ==
    TypeOK /\ [Next]_vars => acked <= acked' /\ log' = log
  <1> SUFFICES ASSUME TypeOK, [Next]_vars
               PROVE  acked <= acked' /\ log' = log
    OBVIOUS
  <1>1. acked \in Nat /\ \A n \in Nodes : applied[n] \in Nat
    BY ReplayAssumption DEF TypeOK, Indexes
  <1> QED BY <1>1 DEF Next, vars, Apply, ApplyFailed, Snapshot, Persist, PersistFailed,
               Restore, RestoreFailed, Start, Stop

LEMMA WrittenStays ==
    ASSUME TypeOK, [Next]_vars, NEW c \in Contents, Written(c)
    PROVE  Written(c)'
  <1>1. acked \in Nat /\ acked' \in Nat /\ \A k \in Keys : c[k] \in Nat
    BY TypeInductive, ReplayAssumption DEF TypeOK, Indexes, Contents
  <1> QED BY <1>1, AckedGrows DEF Written

LEMMA ContentTypes ==
    ASSUME TypeOK, NEW n \in Nodes
    PROVE  /\ db[n] \in Contents /\ taken[n].content \in Contents /\ latest[n].content \in Contents
           /\ applied[n] \in Nat /\ taken[n].index \in Nat /\ latest[n].index \in Nat
           /\ applied[n] <= MaxIndex /\ latest[n].index <= MaxIndex
  BY ReplayAssumption DEF TypeOK, Snapshots, Indexes

\* What a node holds after a step is what some node held before it, except
\* for the key that Apply writes.
LEMMA ContentsMove ==
    ASSUME TypeOK, [Next]_vars, NEW n \in Nodes
    PROVE  /\ \/ db'[n] \in {db[n]} \cup {latest[m].content : m \in Nodes}
              \/ Apply(n)
           /\ taken'[n].content \in {taken[n].content, NoSnapshot.content, db[n]}
           /\ latest'[n].content \in {taken[n].content} \cup {latest[m].content : m \in Nodes}
  <1>1. CASE UNCHANGED vars
    BY <1>1 DEF vars
  <1>2. ASSUME NEW m \in Nodes, Apply(m) \/ ApplyFailed(m)
        PROVE  /\ db'[n] = db[n] \/ Apply(n)
               /\ taken' = taken /\ latest' = latest
    BY <1>2 DEF Apply, ApplyFailed, TypeOK
  <1>3. ASSUME NEW m \in Nodes, Snapshot(m)
        PROVE  /\ db' = db /\ latest' = latest
               /\ taken'[n].content \in {taken[n].content, db[n]}
    BY <1>3 DEF Snapshot, TypeOK
  <1>4. ASSUME NEW m \in Nodes, Persist(m) \/ PersistFailed(m)
        PROVE  /\ db' = db
               /\ taken'[n] \in {taken[n], NoSnapshot}
               /\ latest'[n] \in {latest[n], taken[n]}
    BY <1>4 DEF Persist, PersistFailed, Newest, TypeOK
  <1>5. ASSUME NEW m \in Nodes, NEW p \in Nodes, Restore(m, p) \/ RestoreFailed(m, p)
        PROVE  /\ db'[n] \in {db[n], latest[p].content}
               /\ taken' = taken
               /\ latest'[n] \in {latest[n], latest[p]}
    BY <1>5 DEF Restore, RestoreFailed, Newest, TypeOK
  <1>6. ASSUME NEW m \in Nodes, Start(m) \/ Stop(m)
        PROVE  /\ db'[n] \in {db[n], latest[n].content}
               /\ taken'[n] \in {taken[n], NoSnapshot}
               /\ latest' = latest
    BY <1>6 DEF Start, Stop, TypeOK
  <1> QED BY <1>1, <1>2, <1>3, <1>4, <1>5, <1>6 DEF Next

LEMMA ContainedInductive == IInv /\ [Next]_vars => Contained'
  <1> SUFFICES ASSUME IInv, [Next]_vars, NEW n \in Nodes
               PROVE  Written(db[n])' /\ Written(taken[n].content)' /\ Written(latest[n].content)'
    BY DEF Contained
  <1> USE DEF IInv
  <1>2. ASSUME NEW m \in Nodes
        PROVE  \A c \in {db[m], taken[m].content, latest[m].content, NoSnapshot.content} :
                   c \in Contents /\ Written(c)
    BY ContentTypes, NoSnapshotType DEF Contained, Written, Snapshots
  <1>3. ASSUME NEW c \in {db[n], taken[n].content, NoSnapshot.content}
                         \cup {latest[m].content : m \in Nodes}
        PROVE  \A k \in Keys : c[k] > 0 => c[k] <= acked' /\ log'[c[k]] = k
    <2>1. c \in Contents /\ Written(c)
      BY <1>2, <1>3
    <2> QED BY <2>1, WrittenStays DEF Written
  <1>4. CASE Apply(n)
    <2>1. db'[n] = [db[n] EXCEPT ![log[applied[n] + 1]] = applied[n] + 1]
          /\ taken' = taken /\ latest' = latest /\ log' = log
      BY <1>4 DEF Apply, TypeOK
    <2>2. applied[n] + 1 <= acked'
      BY <1>4, ReplayAssumption DEF Apply, TypeOK, Indexes
    <2>3. Written(db[n])'
      BY <2>1, <2>2, <1>3, ContentTypes DEF Written, Contents
    <2> QED BY <2>1, <2>3, <1>3 DEF Written
  <1>5. CASE ~Apply(n)
    BY <1>5, <1>3, ContentsMove DEF Written
  <1> QED BY <1>4, <1>5

LEMMA BoundedInductive == IInv /\ [Next]_vars => Bounded'
  <1> SUFFICES ASSUME IInv, [Next]_vars, NEW p \in Nodes
               PROVE  /\ p \in up' => applied'[p] <= acked'
                      /\ taken'[p].index <= acked' /\ latest'[p].index <= acked'
    BY TypeInductive DEF Bounded, IInv, TypeOK
  <1> USE ReplayAssumption DEF IInv
  <1>1. acked \in Nat /\ acked' \in Nat /\ acked <= acked'
    BY TypeInductive, AckedGrows DEF TypeOK, Indexes
  <1>2. \A n \in Nodes : /\ applied[n] \in Nat /\ (n \in up => applied[n] <= acked')
                         /\ taken[n].index \in Nat /\ taken[n].index <= acked'
                         /\ latest[n].index \in Nat /\ latest[n].index <= acked'
    BY <1>1, ContentTypes DEF Bounded
  <1>3. CASE UNCHANGED vars
    BY <1>2, <1>3 DEF vars
  <1>4. ASSUME NEW n \in Nodes, Apply(n) \/ ApplyFailed(n)
        PROVE  /\ p \in up' => applied'[p] <= acked'
               /\ taken' = taken /\ latest' = latest
    <2>1. applied' = [applied EXCEPT ![n] = @ + 1] /\ up' = up /\ applied[n] + 1 <= acked'
          /\ taken' = taken /\ latest' = latest
      BY <1>1, <1>2, <1>4 DEF Apply, ApplyFailed
    <2> QED BY <2>1, <1>2 DEF TypeOK
  <1>5. ASSUME NEW n \in Nodes, Snapshot(n)
        PROVE  /\ applied' = applied /\ up' = up /\ latest' = latest
               /\ taken'[p].index <= acked'
    BY <1>2, <1>5 DEF Snapshot, TypeOK
  <1>6. ASSUME NEW n \in Nodes, Persist(n) \/ PersistFailed(n)
        PROVE  /\ applied' = applied /\ up' = up
               /\ taken'[p].index <= acked' /\ latest'[p].index <= acked'
    <2>1. taken'[p] \in {taken[p], NoSnapshot} /\ latest'[p] \in {latest[p], taken[p]}
      BY <1>6 DEF Persist, PersistFailed, Newest, TypeOK
    <2>2. applied' = applied /\ up' = up
      BY <1>6 DEF Persist, PersistFailed
    <2> QED BY <2>1, <2>2, <1>1, <1>2, NoSnapshotType
  <1>7. ASSUME NEW n \in Nodes, NEW m \in Nodes, Restore(n, m) \/ RestoreFailed(n, m)
        PROVE  /\ p \in up' => applied'[p] <= acked'
               /\ taken' = taken /\ latest'[p].index <= acked'
    <2>1. applied'[p] \in {applied[p], latest[m].index} /\ latest'[p] \in {latest[p], latest[m]}
          /\ taken' = taken /\ up' = up
      BY <1>7 DEF Restore, RestoreFailed, Newest, TypeOK
    <2> QED BY <2>1, <1>2
  <1>8. ASSUME NEW n \in Nodes, Start(n) \/ Stop(n)
        PROVE  /\ p \in up' => applied'[p] <= acked'
               /\ taken'[p].index <= acked' /\ latest' = latest
    <2>1. taken'[p] \in {taken[p], NoSnapshot} /\ latest' = latest
      BY <1>8 DEF Start, Stop, TypeOK
    <2>2. p \in up' => (p \in up /\ applied'[p] = applied[p]) \/ applied'[p] = latest[p].index
      BY <1>8 DEF Start, Stop, TypeOK
    <2> QED BY <2>1, <2>2, <1>1, <1>2, NoSnapshotType
  <1> QED BY <1>2, <1>3, <1>4, <1>5, <1>6, <1>7, <1>8 DEF Next

\* No write is unmade to have failed.
LEMMA FailedGrows == [Next]_vars => failed \subseteq failed'
  BY DEF Next, vars, Apply, ApplyFailed, Snapshot, Persist, PersistFailed, Restore, RestoreFailed,
         Start, Stop

\* What is persisted, restored or replayed covers what it says it covers.
LEMMA CoveredInductive == IInv /\ [Next]_vars => Covered'
  <1> SUFFICES ASSUME IInv, [Next]_vars, NEW p \in Nodes
               PROVE  /\ p \in up' => Covers(db[p], applied[p])'
                      /\ Covers(taken[p].content, taken[p].index)'
                      /\ Covers(latest[p].content, latest[p].index)'
    BY TypeInductive DEF Covered, IInv, TypeOK
  <1> USE DEF IInv
  <1>1. log' = log /\ failed \subseteq failed'
    BY AckedGrows, FailedGrows
  <1>2. \A n \in Nodes : /\ n \in up => Covers(db[n], applied[n])
                         /\ Covers(taken[n].content, taken[n].index)
                         /\ Covers(latest[n].content, latest[n].index)
    BY DEF Covered
  <1>3. Covers(NoSnapshot.content, NoSnapshot.index)
    BY NoSnapshotType, ReplayAssumption DEF Covers
  <1>4. CASE UNCHANGED vars
    BY <1>2, <1>4 DEF vars, Covers
  <1>5. ASSUME NEW n \in Nodes, Apply(n) \/ ApplyFailed(n)
        PROVE  /\ p \in up' => Covers(db[p], applied[p])'
               /\ taken' = taken /\ latest' = latest
    <2>1. taken' = taken /\ latest' = latest /\ up' = up
      BY <1>5 DEF Apply, ApplyFailed
    <2>2. CASE p # n
      <3>1. db'[p] = db[p] /\ applied'[p] = applied[p]
        BY <1>5, <2>2 DEF Apply, ApplyFailed, TypeOK
      <3> QED BY <3>1, <2>1, <1>1, <1>2 DEF Covers
    <2>3. CASE p = n
      <3>1. /\ applied'[p] = applied[p] + 1 /\ applied[p] < MaxIndex
            /\ \/ db'[p] = [db[p] EXCEPT ![log[applied[p] + 1]] = applied[p] + 1]
               \/ db'[p] = db[p] /\ applied[p] + 1 \in failed'
        BY <1>5, <2>3 DEF Apply, ApplyFailed, TypeOK
      <3>2. applied[p] \in Nat /\ db[p] \in [Keys -> Nat] /\ Covers(db[p], applied[p])
        BY <1>2, <1>5, <2>3, ContentTypes, ReplayAssumption DEF Apply, ApplyFailed, Contents, Indexes
      <3> QED BY <3>1, <3>2, <2>1, <1>1, ReplayAssumption DEF Covers
    <2> QED BY <2>1, <2>2, <2>3
  <1>6. ASSUME NEW n \in Nodes, Snapshot(n)
        PROVE  /\ applied' = applied /\ up' = up /\ latest' = latest /\ db' = db
               /\ Covers(taken[p].content, taken[p].index)'
    <2>1. \/ taken'[p] = taken[p]
          \/ p \in up /\ taken'[p] = [index |-> applied[p], content |-> db[p]]
      BY <1>6 DEF Snapshot, TypeOK
    <2>2. applied' = applied /\ up' = up /\ latest' = latest /\ db' = db
      BY <1>6 DEF Snapshot
    <2> QED BY <2>1, <2>2, <1>1, <1>2 DEF Covers
  <1>7. ASSUME NEW n \in Nodes, Persist(n) \/ PersistFailed(n)
        PROVE  /\ applied' = applied /\ up' = up /\ db' = db
               /\ Covers(taken[p].content, taken[p].index)'
               /\ Covers(latest[p].content, latest[p].index)'
    <2>1. taken'[p] \in {taken[p], NoSnapshot} /\ latest'[p] \in {latest[p], taken[p]}
      BY <1>7 DEF Persist, PersistFailed, Newest, TypeOK
    <2>2. applied' = applied /\ up' = up /\ db' = db
      BY <1>7 DEF Persist, PersistFailed
    <2> QED BY <2>1, <2>2, <1>1, <1>2, <1>3 DEF Covers
  <1>8. ASSUME NEW n \in Nodes, NEW m \in Nodes, Restore(n, m) \/ RestoreFailed(n, m)
        PROVE  /\ p \in up' => Covers(db[p], applied[p])'
               /\ taken' = taken
               /\ Covers(latest[p].content, latest[p].index)'
    <2>1. /\ \/ applied'[p] = applied[p] /\ db'[p] = db[p]
             \/ applied'[p] <= latest[m].index /\ db'[p] = latest[m].content
          /\ latest'[p] \in {latest[p], latest[m]}
          /\ taken' = taken /\ up' = up
      BY <1>8, ContentTypes DEF Restore, RestoreFailed, Newest, TypeOK
    <2>2. applied'[p] \in Nat /\ latest[m].index \in Nat /\ Covers(latest[m].content, latest[m].index)
      BY <1>2, TypeInductive, ContentTypes, ReplayAssumption DEF TypeOK, Indexes
    <2>3. p \in up' => Covers(db[p], applied[p])'
      BY <2>1, <2>2, <1>1, <1>2 DEF Covers
    <2> QED BY <2>1, <2>3, <1>1, <1>2 DEF Covers
  <1>9. ASSUME NEW n \in Nodes, Start(n) \/ Stop(n)
        PROVE  /\ p \in up' => Covers(db[p], applied[p])'
               /\ Covers(taken[p].content, taken[p].index)'
               /\ latest' = latest
    <2>1. taken'[p] \in {taken[p], NoSnapshot} /\ latest' = latest
      BY <1>9 DEF Start, Stop, TypeOK
    <2>2. p \in up' => \/ p \in up /\ applied'[p] = applied[p] /\ db'[p] = db[p]
                       \/ applied'[p] = latest[p].index /\ db'[p] = latest[p].content
                       \/ applied'[p] = 0
      BY <1>9 DEF Start, Stop, TypeOK
    <2>3. p \in up' => Covers(db[p], applied[p])'
      BY <2>2, <1>1, <1>2, ReplayAssumption DEF Covers
    <2> QED BY <2>1, <2>3, <1>1, <1>2, <1>3 DEF Covers
  <1> QED BY <1>1, <1>2, <1>4, <1>5, <1>6, <1>7, <1>8, <1>9 DEF Next, Covers

LEMMA IInvInductive == IInv /\ [Next]_vars => IInv'
  BY TypeInductive, ContainedInductive, BoundedInductive, CoveredInductive DEF IInv

LEMMA InitInv == Init => IInv
  <1> SUFFICES ASSUME Init PROVE IInv
    OBVIOUS
  <1>1. NoSnapshot \in Snapshots /\ NoSnapshot.content \in Contents /\ 0 \in Indexes
    BY ReplayAssumption DEF NoSnapshot, Snapshots, Contents, Indexes
  <1>2. TypeOK
    BY <1>1 DEF Init, TypeOK
  <1>3. /\ up = {} /\ acked = 0
        /\ \A n \in Nodes : db[n] = NoSnapshot.content /\ taken[n] = NoSnapshot /\ latest[n] = NoSnapshot
    BY DEF Init
  <1>4. Contained /\ Bounded
    BY <1>3, NoSnapshotType DEF Contained, Bounded, Written
  <1>5. Covered
    BY <1>3, NoSnapshotType, ReplayAssumption DEF Covered, Covers
  <1> QED BY <1>2, <1>4, <1>5 DEF IInv

-----------------------------------------------------------------------------

\* The type invariant holds whatever writes fail.
THEOREM ReplayTypes == Spec => []TypeOK
  <1>1. IInv => TypeOK
    BY DEF IInv
  <1> QED BY <1>1, InitInv, IInvInductive, PTL DEF Spec

\* Whatever writes fail, a node that has caught up holds the state of the
\* log but for the failed ones, after any restarts, replays, snapshots and
\* restores (StateMachine.Apply, Snapshot and Restore; newRaft).
THEOREM ReplayIsIdempotent == Spec => []CaughtUpIsState
  <1>1. IInv => CaughtUpIsState
    <2> SUFFICES ASSUME IInv, NEW n \in up, applied[n] = acked, NEW k \in Keys
                 PROVE  IsStateBut(failed, k, acked, db[n][k])
      BY DEF CaughtUpIsState, CaughtUp
    <2>1. n \in Nodes /\ acked \in Nat /\ acked <= MaxIndex /\ db[n][k] \in Nat
      BY ReplayAssumption DEF IInv, TypeOK, Contents, Indexes
    <2>2. (db[n][k] > 0 => db[n][k] <= acked /\ log[db[n][k]] = k)
          /\ \A j \in (1 .. MaxIndex) \ failed : j <= acked /\ db[n][k] < j => log[j] # k
      BY <2>1 DEF IInv, Contained, Written, Covered, Covers
    <2> QED BY <2>1, <2>2, ReplayAssumption DEF IsStateBut
  <1> QED BY <1>1, InitInv, IInvInductive, PTL DEF Spec

\* A running node never lacks a write that did not fail among the entries it
\* was handed, in the middle of a replay and after a failed restore included
\* (StateMachine.Apply and Restore).
THEOREM NothingLost == Spec => []NeverBehind
  <1>1. IInv => NeverBehind
    <2> SUFFICES ASSUME IInv, NEW n \in up, NEW i \in (1 .. MaxIndex) \ failed, i <= applied[n]
                 PROVE  db[n][log[i]] >= i
      BY DEF NeverBehind
    <2>1. n \in Nodes /\ log[i] \in Keys /\ db[n][log[i]] \in Nat
      BY ReplayAssumption DEF IInv, TypeOK, Contents, Indexes
    <2> QED BY <2>1, ReplayAssumption DEF IInv, Covered, Covers
  <1> QED BY <1>1, InitInv, IInvInductive, PTL DEF Spec
=============================================================================
