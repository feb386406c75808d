------------------------ MODULE ShardRetentionProofs ------------------------
(***************************************************************************)
(* What retention keeps when no process is deployed beside another one,    *)
(* for every number of generations, runs, days and deployments.            *)
(***************************************************************************)
EXTENDS ShardRetention, TLAPS

(* The process that runs is of the newest generation, and nothing is of a  *)
(* newer one.  A cutoff belongs to the day it was taken on.                *)
OneGeneration ==
    /\ \A p, q \in Processes : up[p] /\ up[q] => p = q
    /\ \A p \in Processes : up[p] => gen[p] = latest
    /\ \A s \in Names : shards[s] # None => s.gen <= latest
    /\ file # None => file.gen <= latest
    /\ \A p \in Processes : cleanup[p] # None => cleanup[p].cutoff <= now

(* The document of a run is in a shard, or the shard may be gone.          *)
Gone(s) == Expired(s.day) \/ s \in byHand
Found(s, r) == (shards[s] # None /\ r \in shards[s].docs) \/ Gone(s)

(* The shard a document is added to has been created, and the document     *)
(* that is about to be recorded has been added.                            *)
WritesAreFound ==
    \A p \in Processes :
        /\ AtStep(p, "add") => shards[Target(p)] # None \/ Gone(Target(p))
        /\ AtStep(p, "settle") => Found(Target(p), writing[p].run)

(* What is recorded, in memory or in the file of the newest generation,    *)
(* can be found.                                                           *)
RecordedIsFound ==
    /\ \A p \in Processes : up[p] => \A r \in completed[p] : Found(ShardOf(p, r), r)
    /\ file # None /\ file.gen = latest =>
          \A r \in file.completed : Found([gen |-> latest, day |-> StartDay[r]], r)

(* A step of the one process leaves the shard as it is, adds to it, or it   *)
(* may be gone.                                                            *)
Kept(s) ==
    shards[s] # None =>
        \/ shards'[s] # None /\ shards[s].docs \subseteq shards'[s].docs
        \/ Gone(s)'

Carries ==
    /\ UNCHANGED processVars /\ now <= now' /\ byHand \subseteq byHand'
    /\ \A s \in Names : s.gen = latest => Kept(s)

IInv ==
    TypeOK /\ OneGeneration /\ WritesAreFound /\ RecordedIsFound /\ UnmappedIsDoomed

-----------------------------------------------------------------------------
LEMMA Bounds ==
    /\ Days \subseteq Nat /\ Generations \subseteq Nat /\ Retention \in Nat
    /\ MaxDay \in Nat /\ MaxDeploys \in Nat
    /\ \A r \in Runs : StartDay[r] \in Days
BY RetentionAssumption DEF Days

LEMMA NamesType ==
    /\ \A s \in Names : s.gen \in Nat /\ s.day \in Nat
    /\ \A g \in Generations, r \in Runs : [gen |-> g, day |-> StartDay[r]] \in Names
BY Bounds DEF Names

LEMMA InitType == Init => TypeOK
<1> SUFFICES ASSUME Init
             PROVE  TypeOK
  OBVIOUS
<1>1. gen \in [Processes -> Generations]
  BY RetentionAssumption DEF Init
<1>2. up \in [Processes -> BOOLEAN] /\ tracked \in [Processes -> BOOLEAN]
      /\ dirty \in [Processes -> BOOLEAN]
  BY Zenon DEF Init
<1> QED
  BY <1>1, <1>2, Bounds DEF Init, TypeOK, Days

LEMMA NextType == TypeOK /\ [Next]_vars => TypeOK'
<1> SUFFICES ASSUME TypeOK, [Next]_vars
             PROVE  TypeOK'
  OBVIOUS
<1> USE DEF processVars, trackerVars
<1>1. CASE NextDay
  BY <1>1, Bounds DEF NextDay, TypeOK, Days
<1>2. ASSUME NEW p \in Processes, NEW g \in Generations, NEW track \in BOOLEAN,
             Deploy(p, g, track)
      PROVE  TypeOK'
  BY <1>2, Bounds DEF Deploy, TypeOK
<1>3. ASSUME NEW p \in Processes, Exit(p)
      PROVE  TypeOK'
  BY <1>3 DEF Exit, TypeOK
<1>4. ASSUME NEW p \in Processes, NEW r \in Runs, BeginWrite(p, r)
      PROVE  TypeOK'
  BY <1>4 DEF BeginWrite, TypeOK, Write
<1>5. ASSUME NEW p \in Processes, EnsureIndex(p) \/ AddSucceeds(p) \/ AddFails(p) \/ Settle(p)
      PROVE  TypeOK'
  <2>1. writing[p] \in Write /\ writing[p].run \in Runs /\ Target(p) \in Names
    BY <1>5, NamesType
       DEF TypeOK, EnsureIndex, AddSucceeds, AddFails, Settle, AtStep, Write, Target, ShardOf
  <2>2. \A shard \in Shard \cup {None} : WithDocument(shard, writing[p].run) \in Shard
    BY <2>1 DEF WithDocument, Shard
  <2>3. shards' \in [Names -> Shard \cup {None}]
    <3>1. [mapped |-> TRUE, docs |-> {}] \in Shard
      BY DEF Shard
    <3>2. CASE EnsureIndex(p)
      BY <3>1, <3>2, <2>1 DEF TypeOK, EnsureIndex
    <3>3. CASE AddSucceeds(p) \/ AddFails(p)
      <4>1. WithDocument(shards[Target(p)], writing[p].run) \in Shard \cup {None}
        BY <2>1, <2>2 DEF TypeOK
      <4> QED
        BY <3>3, <2>1, <4>1 DEF TypeOK, AddSucceeds, AddFails
    <3>4. CASE Settle(p)
      BY <3>4 DEF TypeOK, Settle
    <3> QED
      BY <1>5, <3>2, <3>3, <3>4
  <2>4. writing' \in [Processes -> Write \cup {None}]
    BY <1>5, <2>1 DEF TypeOK, EnsureIndex, AddSucceeds, AddFails, Settle, Write
  <2>5. completed' \in [Processes -> SUBSET Runs] /\ dirty' \in [Processes -> BOOLEAN]
    <3>1. CASE Settle(p) /\ tracked[p]
      <4>1. dirty' \in [Processes -> BOOLEAN]
        BY <3>1, Zenon DEF TypeOK, Settle
      <4>2. completed' \in [Processes -> SUBSET Runs]
        BY <3>1, <2>1 DEF TypeOK, Settle
      <4> QED
        BY <4>1, <4>2
    <3>2. CASE UNCHANGED <<completed, dirty>>
      BY <3>2 DEF TypeOK
    <3> QED
      BY <1>5, <3>1, <3>2 DEF EnsureIndex, AddSucceeds, AddFails, Settle
  <2>6. \A q \in Processes : ~up[q] => writing'[q] = None
    BY <1>5, <2>1 DEF TypeOK, EnsureIndex, AddSucceeds, AddFails, Settle, AtStep
  <2> QED
    BY <1>5, <2>3, <2>4, <2>5, <2>6 DEF TypeOK, EnsureIndex, AddSucceeds, AddFails, Settle
<1>6. ASSUME NEW p \in Processes, SaveProgress(p)
      PROVE  TypeOK'
  BY <1>6 DEF SaveProgress, TypeOK
<1>7. ASSUME NEW p \in Processes, ListShards(p) \/ EndCleanup(p)
      PROVE  TypeOK'
  BY <1>7 DEF ListShards, EndCleanup, TypeOK, Cleanup
<1>8. ASSUME NEW p \in Processes, NEW s \in Names, VisitShard(p, s) \/ DeleteIndex(p, s)
      PROVE  TypeOK'
  BY <1>8 DEF VisitShard, DeleteIndex, TypeOK, Cleanup
<1>9. CASE UNCHANGED vars
  BY <1>9 DEF vars, TypeOK
<1> QED
  BY <1>1, <1>2, <1>3, <1>4, <1>5, <1>6, <1>7, <1>8, <1>9 DEF Next

(* What is gone or found stays so, as days and requests only add up.       *)
LEMMA GoneStays ==
    ASSUME TypeOK, TypeOK', now <= now', byHand \subseteq byHand', NEW s \in Names, Gone(s)
    PROVE  Gone(s)'
BY NamesType, Bounds DEF Gone, Expired, ExpiredOn, TypeOK

(* The shards that matter to the process are those of its own generation.  *)
LEMMA OwnShard ==
    ASSUME TypeOK, OneGeneration, NEW p \in Processes, up[p], NEW r \in Runs
    PROVE  ShardOf(p, r) \in Names /\ ShardOf(p, r).gen = latest
BY NamesType DEF TypeOK, OneGeneration, ShardOf

LEMMA OwnTarget ==
    ASSUME TypeOK, OneGeneration, NEW p \in Processes, NEW step, AtStep(p, step)
    PROVE  /\ up[p] /\ writing[p] \in Write /\ writing[p].run \in Runs
           /\ Target(p) \in Names /\ Target(p).gen = latest
<1>1. up[p] /\ writing[p] \in Write /\ writing[p].run \in Runs
  BY DEF TypeOK, AtStep, Write
<1> QED
  BY <1>1, OwnShard DEF Target

LEMMA CarriesFound ==
    ASSUME TypeOK, TypeOK', Carries, NEW s \in Names, s.gen = latest
    PROVE  /\ shards[s] # None \/ Gone(s) => (shards[s] # None \/ Gone(s))'
           /\ \A r \in Runs : Found(s, r) => Found(s, r)'
<1>1. Gone(s) => Gone(s)'
  BY GoneStays DEF Carries
<1>2. Kept(s)
  BY DEF Carries
<1> QED
  BY <1>1, <1>2 DEF Kept, Found

LEMMA CarriesRecorded ==
    ASSUME IInv, TypeOK', Carries, UNCHANGED trackerVars
    PROVE  RecordedIsFound'
<1> USE DEF IInv, processVars, trackerVars
<1>1. ASSUME NEW p \in Processes, up'[p], NEW r \in completed'[p]
      PROVE  Found(ShardOf(p, r), r)'
  <2>1. up[p] /\ r \in completed[p] /\ r \in Runs /\ ShardOf(p, r)' = ShardOf(p, r)
    BY <1>1 DEF Carries, TypeOK, ShardOf
  <2>2. Found(ShardOf(p, r), r)
    BY <2>1 DEF RecordedIsFound
  <2> DEFINE s == [gen |-> gen[p], day |-> StartDay[r]]
  <2>4. s \in Names /\ s.gen = latest /\ Found(s, r)
    BY <2>1, <2>2, OwnShard DEF ShardOf
  <2> QED
    BY <2>1, <2>4, CarriesFound DEF Found, ShardOf, Carries, Gone
<1>2. ASSUME file' # None /\ file'.gen = latest', NEW r \in file'.completed
      PROVE  Found([gen |-> latest, day |-> StartDay[r]], r)'
  <2> DEFINE s == [gen |-> latest, day |-> StartDay[r]]
  <2>1. file # None /\ file.gen = latest /\ r \in file.completed /\ latest' = latest
    BY <1>2 DEF Carries
  <2>2. r \in Runs /\ latest \in Generations
    BY <2>1 DEF TypeOK
  <2>3. s \in Names /\ s.gen = latest /\ Found(s, r)
    BY <2>1, <2>2, NamesType DEF RecordedIsFound
  <2> QED
    BY <2>1, <2>2, <2>3, CarriesFound DEF Found, Gone
<1> QED
  BY <1>1, <1>2 DEF RecordedIsFound

LEMMA CarriesWrites ==
    ASSUME IInv, TypeOK', Carries, UNCHANGED writing
    PROVE  WritesAreFound'
<1> SUFFICES ASSUME NEW p \in Processes, writing'[p] # None
             PROVE  /\ AtStep(p, "add")' => (shards[Target(p)] # None \/ Gone(Target(p)))'
                    /\ AtStep(p, "settle")' => Found(Target(p), writing[p].run)'
  BY DEF WritesAreFound, AtStep
<1>1. AtStep(p, writing[p].step)
  BY DEF AtStep
<1>2. /\ writing[p].run \in Runs
      /\ Target(p) \in Names /\ Target(p).gen = latest
  BY <1>1, OwnTarget DEF IInv
<1>3. PICK s \in Names : s = Target(p)
  BY <1>2
<1>4. PICK r \in Runs : r = writing[p].run
  BY <1>2
<1>5. /\ AtStep(p, "add") => shards[s] # None \/ Gone(s)
      /\ AtStep(p, "settle") => Found(s, r)
  BY <1>3, <1>4 DEF IInv, WritesAreFound
<1>6. /\ shards[s] # None \/ Gone(s) => (shards[s] # None \/ Gone(s))'
      /\ Found(s, r) => Found(s, r)'
  BY <1>2, <1>3, CarriesFound DEF IInv
<1>7. Target(p)' = s /\ writing'[p].run = r
  BY <1>3, <1>4 DEF Target, ShardOf, Carries, processVars
<1> QED
  BY <1>5, <1>6, <1>7 DEF AtStep, Found, Gone

(* A step that writes no document and completes none.                      *)
LEMMA QuietIInv ==
    ASSUME IInv, TypeOK', OneGeneration', Carries, UNCHANGED <<writing, trackerVars>>,
           \A s \in Names : shards'[s] # None => shards'[s] = shards[s]
    PROVE  IInv'
<1>1. UnmappedIsDoomed'
  BY GoneStays DEF IInv, UnmappedIsDoomed, Gone, Carries
<1> QED
  BY <1>1, CarriesWrites, CarriesRecorded DEF IInv

-----------------------------------------------------------------------------
LEMMA InitIInv == Init => IInv
BY InitType
   DEF Init, IInv, OneGeneration, WritesAreFound, AtStep, RecordedIsFound, UnmappedIsDoomed

LEMMA NextDayIInv ==
    ASSUME IInv, TypeOK', NextDay
    PROVE  IInv'
<1> USE DEF NextDay, processVars, trackerVars
<1>1. now < now' /\ now \in Nat /\ now' \in Nat
  BY Bounds DEF IInv, TypeOK, Days
<1>2. OneGeneration'
  BY <1>1 DEF IInv, OneGeneration, TypeOK, Cleanup, Days
<1>3. Carries
  BY <1>1 DEF Carries, Kept
<1> QED
  BY <1>2, <1>3, QuietIInv

(* The retention job goes through a listing.  What it deletes is of        *)
(* another generation, or was past its time at the cutoff already.         *)
CleanupStep(p) ==
    ListShards(p) \/ EndCleanup(p) \/ \E s \in Names : VisitShard(p, s)

LEMMA CleanupDeletes ==
    ASSUME IInv, NEW p \in Processes, CleanupStep(p),
           NEW s \in Names, shards'[s] # shards[s]
    PROVE  shards'[s] = None /\ (s.gen # latest \/ Expired(s.day))
<1>1. VisitShard(p, s) /\ Deletes(p, s) /\ shards'[s] = None
  BY DEF CleanupStep, ListShards, EndCleanup, VisitShard, IInv, TypeOK
<1>2. gen[p] = latest /\ cleanup[p] \in Cleanup /\ cleanup[p].cutoff <= now
  BY <1>1 DEF VisitShard, IInv, TypeOK, OneGeneration
<1>3. s.day \in Nat /\ cleanup[p].cutoff \in Nat /\ now \in Nat
  BY <1>2, NamesType, Bounds DEF Cleanup, Days, IInv, TypeOK
<1> QED
  BY <1>1, <1>2, <1>3, Bounds DEF Deletes, Expired, ExpiredOn

LEMMA CleanupIInv ==
    ASSUME IInv, TypeOK', NEW p \in Processes, CleanupStep(p)
    PROVE  IInv'
<1> USE DEF processVars, trackerVars
<1>1. UNCHANGED <<now, processVars, writing, trackerVars, byHand>> /\ now \in Nat
  BY Bounds DEF CleanupStep, ListShards, EndCleanup, VisitShard, IInv, TypeOK, Days
<1>2. \A q \in Processes : cleanup'[q] # None => cleanup'[q].cutoff <= now
  <2>1. CASE ListShards(p) \/ EndCleanup(p)
    BY <1>1, <2>1 DEF ListShards, EndCleanup, IInv, TypeOK, OneGeneration
  <2>2. ASSUME NEW s \in Names, VisitShard(p, s)
        PROVE  \A q \in Processes : cleanup'[q] # None => cleanup'[q].cutoff <= now
    BY <2>2 DEF VisitShard, IInv, TypeOK, OneGeneration, Cleanup
  <2> QED
    BY <2>1, <2>2 DEF CleanupStep
<1>3. \A s \in Names : shards'[s] # shards[s] =>
          shards'[s] = None /\ (s.gen # latest \/ Gone(s))
  BY CleanupDeletes DEF Gone
<1>4. Carries
  <2>1. \A s \in Names : Gone(s) => Gone(s)'
    BY <1>1, GoneStays DEF IInv
  <2> QED
    BY <1>1, <1>3, <2>1 DEF Carries, Kept
<1>5. OneGeneration'
  BY <1>1, <1>2, <1>3 DEF IInv, OneGeneration
<1> QED
  BY <1>1, <1>3, <1>4, <1>5, QuietIInv

LEMMA DeleteIndexIInv ==
    ASSUME IInv, TypeOK', NEW p \in Processes, NEW s \in Names, DeleteIndex(p, s)
    PROVE  IInv'
<1> USE DEF DeleteIndex, processVars, trackerVars
<1>1. OneGeneration'
  BY DEF IInv, OneGeneration, TypeOK
<1>2. Carries
  BY Bounds DEF Carries, Kept, Gone, IInv, TypeOK, Days
<1> QED
  BY <1>1, <1>2, QuietIInv DEF IInv, TypeOK

LEMMA SaveProgressIInv ==
    ASSUME IInv, TypeOK', NEW p \in Processes, SaveProgress(p)
    PROVE  IInv'
<1> USE DEF SaveProgress, processVars
<1>1. gen[p] = latest
  BY DEF IInv, OneGeneration
<1>2. OneGeneration'
  BY <1>1, Bounds DEF IInv, OneGeneration, TypeOK
<1>3. Carries
  BY Bounds DEF Carries, Kept, IInv, TypeOK, Days
<1>4. RecordedIsFound'
  BY <1>1 DEF IInv, RecordedIsFound, Found, Gone, Expired, ShardOf
<1>5. UnmappedIsDoomed'
  BY DEF IInv, UnmappedIsDoomed, Expired
<1> QED
  BY <1>2, <1>3, <1>4, <1>5, CarriesWrites DEF IInv

(* Without overlap no process runs when one is deployed.                   *)
LEMMA DeployIInv ==
    ASSUME ~Overlap, IInv, TypeOK', NEW p \in Processes, NEW g \in Generations,
           NEW track \in BOOLEAN, Deploy(p, g, track)
    PROVE  IInv'
<1> USE DEF Deploy, IInv
<1>1. \A q \in Processes : ~up[q] /\ writing[q] = None /\ cleanup[q] = None
  BY DEF TypeOK
<1>2. latest \in Nat /\ g \in Nat /\ latest <= g
  BY Bounds DEF TypeOK
<1>3. OneGeneration'
  <2>1. \A q \in Processes : up'[q] => q = p
    BY <1>1 DEF TypeOK
  <2>2. gen'[p] = g /\ latest' = g
    BY DEF TypeOK
  <2>3. \A s \in Names : shards'[s] # None => s.gen <= g
    <3> SUFFICES ASSUME NEW s \in Names, shards[s] # None
                 PROVE  s.gen <= g
      OBVIOUS
    <3> QED
      BY <1>2, NamesType DEF OneGeneration
  <2>4. file' # None => file'.gen <= g
    <3>1. file # None => file.gen \in Generations
      BY DEF TypeOK
    <3>2. file # None => file.gen <= latest
      BY DEF OneGeneration
    <3>3. \A h \in Generations : h <= latest => h <= g
      BY <1>2, Bounds
    <3> QED
      BY <3>1, <3>2, <3>3
  <2> QED
    BY <1>1, <2>1, <2>2, <2>3, <2>4 DEF OneGeneration
<1>4. WritesAreFound'
  BY <1>1 DEF WritesAreFound, AtStep
<1>5. file # None /\ file.gen = g =>
          \A r \in file.completed : Found([gen |-> g, day |-> StartDay[r]], r)
  <2>1. file # None /\ file.gen = g => latest = g
    BY <1>2 DEF OneGeneration
  <2> QED
    BY <2>1 DEF RecordedIsFound
<1>6. RecordedIsFound'
  <2>1. ASSUME NEW q \in Processes, up'[q], NEW r \in completed'[q]
        PROVE  Found(ShardOf(q, r), r)'
    <3>1. q = p /\ gen'[q] = g
      BY <1>1, <2>1 DEF TypeOK
    <3>2. file # None /\ file.gen = g /\ r \in file.completed
      BY <2>1, <3>1 DEF TypeOK
    <3> QED
      BY <1>5, <3>1, <3>2 DEF Found, Gone, Expired, ShardOf
  <2>2. (file # None /\ file.gen = latest =>
            \A r \in file.completed : Found([gen |-> latest, day |-> StartDay[r]], r))'
    BY <1>5 DEF Found, Gone, Expired
  <2> QED
    BY <2>1, <2>2 DEF RecordedIsFound
<1> QED
  BY <1>3, <1>4, <1>6 DEF UnmappedIsDoomed, Expired

LEMMA ExitIInv ==
    ASSUME IInv, TypeOK', NEW p \in Processes, Exit(p)
    PROVE  IInv'
<1> USE DEF Exit, IInv
<1>1. \A q \in Processes :
          /\ up'[q] => up[q] /\ q # p
          /\ q # p => writing'[q] = writing[q] /\ completed'[q] = completed[q]
                      /\ cleanup'[q] = cleanup[q]
          /\ q = p => writing'[q] = None /\ cleanup'[q] = None
  BY DEF TypeOK
<1>2. OneGeneration'
  BY <1>1 DEF OneGeneration
<1>3. ASSUME NEW q \in Processes, writing'[q] # None
      PROVE  writing[q] # None /\ writing'[q] = writing[q]
  BY <1>1, <1>3
<1>4. WritesAreFound'
  BY <1>3 DEF WritesAreFound, AtStep, Target, ShardOf, Found, Gone, Expired
<1>5. RecordedIsFound'
  BY <1>1 DEF RecordedIsFound, ShardOf, Found, Gone, Expired
<1> QED
  BY <1>2, <1>4, <1>5 DEF UnmappedIsDoomed, Expired

LEMMA BeginWriteIInv ==
    ASSUME IInv, TypeOK', NEW p \in Processes, NEW r \in Runs, BeginWrite(p, r)
    PROVE  IInv'
<1> USE DEF BeginWrite, IInv, processVars, trackerVars
<1>1. \A q \in Processes :
          /\ q # p => writing'[q] = writing[q]
          /\ q = p => writing'[q] = [run |-> r, step |-> "ensure"]
  BY DEF TypeOK
<1>2. WritesAreFound'
  BY <1>1 DEF WritesAreFound, AtStep, Target, ShardOf, Found, Gone, Expired
<1>3. Carries
  BY Bounds DEF Carries, Kept, TypeOK, Days
<1>4. OneGeneration'
  BY DEF OneGeneration
<1> QED
  BY <1>2, <1>3, <1>4, CarriesRecorded DEF UnmappedIsDoomed, Expired

(* A document is written: the shard is ensured, the document added to it,  *)
(* and then the run is completed.                                          *)
LEMMA WriteIInv ==
    ASSUME IInv, TypeOK', NEW p \in Processes,
           EnsureIndex(p) \/ AddSucceeds(p) \/ AddFails(p) \/ Settle(p)
    PROVE  IInv'
<1> USE DEF IInv, processVars, trackerVars
<1>1. PICK step \in {"ensure", "add", "settle"} : AtStep(p, step)
  BY DEF EnsureIndex, AddSucceeds, AddFails, Settle
<1>2. /\ up[p] /\ writing[p] \in Write /\ writing[p].run \in Runs
      /\ Target(p) \in Names /\ Target(p).gen = latest
  BY <1>1, OwnTarget
<1>3. PICK r \in Runs, s \in Names : r = writing[p].run /\ s = Target(p)
  BY <1>2
<1>4. /\ UNCHANGED <<now, processVars, cleanup, file, byHand>>
      /\ \A t \in Names : t # s => shards'[t] = shards[t]
      /\ \A q \in Processes : q # p => writing'[q] = writing[q]
      /\ Target(p) = s
  BY <1>3 DEF EnsureIndex, AddSucceeds, AddFails, Settle, TypeOK
<1>5. /\ now \in Nat /\ None \notin Shard
      /\ shards[s] \in Shard \cup {None} /\ shards'[s] \in Shard \cup {None}
  BY Bounds, NoneAssumption DEF TypeOK, Days
<1>6. shards[s] # None =>
          /\ shards'[s] # None /\ shards[s].docs \subseteq shards'[s].docs
          /\ shards'[s].mapped = shards[s].mapped
  <2>1. CASE UNCHANGED shards
    BY <2>1
  <2>2. CASE EnsureIndex(p)
    BY <1>3, <2>2 DEF EnsureIndex, TypeOK
  <2>3. CASE shards' = [shards EXCEPT ![Target(p)] = WithDocument(@, writing[p].run)]
    BY <1>3, <1>5, <2>3 DEF TypeOK, WithDocument, Shard
  <2> QED
    BY <2>1, <2>2, <2>3 DEF AddSucceeds, AddFails, Settle
<1>7. shards[s] = None /\ shards'[s] # None /\ ~shards'[s].mapped => Gone(s)
  <2>1. CASE EnsureIndex(p)
    BY <1>3, <2>1 DEF EnsureIndex, TypeOK
  <2>2. CASE AddSucceeds(p) \/ AddFails(p)
    BY <1>3, <2>2 DEF AddSucceeds, AddFails, WritesAreFound
  <2>3. CASE Settle(p)
    BY <2>3 DEF Settle
  <2> QED
    BY <2>1, <2>2, <2>3
<1>8. Carries
  BY <1>4, <1>5, <1>6 DEF Carries, Kept
<1>9. OneGeneration'
  <2>1. latest \in Nat
    BY Bounds DEF TypeOK
  <2>2. \A t \in Names : shards'[t] # None => t.gen <= latest
    BY <1>2, <1>3, <1>4, <2>1 DEF OneGeneration
  <2> QED
    BY <1>4, <2>2 DEF OneGeneration
<1>10. UnmappedIsDoomed'
  <2>1. \A t \in Names : shards'[t] # None /\ ~shards'[t].mapped => Gone(t)
    BY <1>4, <1>6, <1>7 DEF UnmappedIsDoomed, Gone
  <2> QED
    BY <1>4, <2>1 DEF UnmappedIsDoomed, Gone, Expired
<1>11. writing'[p] # None =>
          /\ writing'[p].run = r
          /\ writing'[p].step \in {"add", "settle"}
          /\ shards'[s] # None
          /\ writing'[p].step = "settle" => r \in shards'[s].docs
  <2>1. CASE EnsureIndex(p)
    <3>1. writing' = [writing EXCEPT ![p] = None] => writing'[p] = None
      BY DEF TypeOK
    <3>2. shards' = [shards EXCEPT ![Target(p)] =
                 IF @ = None THEN [mapped |-> TRUE, docs |-> {}] ELSE @] => shards'[s] # None
      <4>1. [mapped |-> TRUE, docs |-> {}] \in Shard
        BY DEF Shard
      <4> QED
        BY <1>3, <1>5, <4>1 DEF TypeOK
    <3>3. writing'[p] # None => writing'[p].run = r /\ writing'[p].step = "add"
      BY <1>2, <1>3, <2>1 DEF EnsureIndex, TypeOK, Write
    <3> QED
      BY <2>1, <3>1, <3>2, <3>3 DEF EnsureIndex
  <2>2. CASE AddSucceeds(p)
    <3>1. shards'[s] = WithDocument(shards[s], r)
      BY <1>3, <2>2 DEF AddSucceeds, TypeOK
    <3>2. WithDocument(shards[s], r) \in Shard /\ r \in WithDocument(shards[s], r).docs
      BY <1>5 DEF WithDocument, Shard
    <3> QED
      BY <1>2, <1>3, <1>5, <2>2, <3>1, <3>2 DEF AddSucceeds, TypeOK, Write
  <2>3. CASE AddFails(p) \/ Settle(p)
    BY <2>3 DEF AddFails, Settle, TypeOK
  <2> QED
    BY <2>1, <2>2, <2>3
<1>12. WritesAreFound'
  <2>1. \A q \in Processes : q # p => writing'[q] = None
    BY <1>2, <1>4 DEF OneGeneration, TypeOK
  <2>2. writing'[p] # None => Target(p)' = s
    BY <1>3, <1>4, <1>11 DEF Target, ShardOf
  <2> QED
    BY <1>11, <2>1, <2>2 DEF WritesAreFound, AtStep, Found
<1>13. CASE UNCHANGED trackerVars
  BY <1>8, <1>9, <1>10, <1>12, <1>13, CarriesRecorded
<1>14. CASE Settle(p)
  <2>1. Found(s, r) /\ UNCHANGED <<shards, now, byHand, up, gen, latest, file>>
    BY <1>3, <1>4, <1>14 DEF Settle, WritesAreFound
  <2>2. \A q \in Processes : \A x \in completed'[q] :
            x \in completed[q] \/ (q = p /\ x = r)
    BY <1>3, <1>14 DEF Settle, TypeOK
  <2>3. ShardOf(p, r) = s
    BY <1>3 DEF Target
  <2>4. \A q \in Processes : up[q] => \A x \in completed'[q] : Found(ShardOf(q, x), x)
    BY <2>1, <2>2, <2>3 DEF RecordedIsFound
  <2>5. RecordedIsFound'
    BY <2>1, <2>4 DEF RecordedIsFound, Found, Gone, Expired, ShardOf
  <2> QED
    BY <1>9, <1>10, <1>12, <2>5
<1> QED
  BY <1>13, <1>14 DEF EnsureIndex, AddSucceeds, AddFails

LEMMA NextIInv ==
    ASSUME ~Overlap
    PROVE  IInv /\ [Next]_vars => IInv'
<1> SUFFICES ASSUME IInv, [Next]_vars
             PROVE  IInv'
  OBVIOUS
<1>1. TypeOK'
  BY NextType DEF IInv
<1>2. CASE UNCHANGED vars
  <2>1. Carries
    BY <1>2, Bounds DEF Carries, Kept, vars, processVars, IInv, TypeOK, Days
  <2>2. OneGeneration'
    BY <1>2 DEF vars, processVars, trackerVars, IInv, OneGeneration
  <2> QED
    BY <1>1, <1>2, <2>1, <2>2, QuietIInv DEF vars
<1> QED
  BY <1>1, <1>2, NextDayIInv, DeployIInv, ExitIInv, BeginWriteIInv, WriteIInv,
     SaveProgressIInv, CleanupIInv, DeleteIndexIInv DEF Next, CleanupStep

-----------------------------------------------------------------------------
(* The variables have their types, deployed beside another or not.         *)
THEOREM RetentionTypes == Spec => []TypeOK
BY InitType, NextType, PTL DEF Spec

(* The inductive invariant of deployments one after another.               *)
THEOREM RetentionInvariant ==
    ASSUME ~Overlap
    PROVE  Spec => []IInv
BY InitIInv, NextIInv, PTL DEF Spec

(* What the tracker skips is in the shard searches read, unless retention  *)
(* or a request took the shard.                                            *)
THEOREM RetentionSafety ==
    ASSUME ~Overlap
    PROVE  Spec => []CompletedIsSearchable
<1>1. IInv => CompletedIsSearchable
  BY DEF IInv, RecordedIsFound, Found, Gone, CompletedIsSearchable
<1> QED
  BY <1>1, RetentionInvariant, PTL

(* An index that OpenSearch created without the mapping, for a write that  *)
(* came after its shard was deleted, is one that goes the same way again.  *)
THEOREM RetentionOfUnmapped ==
    ASSUME ~Overlap
    PROVE  Spec => []UnmappedIsDoomed
<1>1. IInv => UnmappedIsDoomed
  BY DEF IInv
<1> QED
  BY <1>1, RetentionInvariant, PTL

(* Only superseded generations and days past the retention period are      *)
(* deleted, unless DeleteIndex is asked to, however old the listing is     *)
(* that the retention job goes through.                                    *)
THEOREM RetentionKeepsCurrent ==
    ASSUME ~Overlap
    PROVE  Spec => CurrentIsKept
<1> DEFINE Keeps == \A s \in Names : shards[s] # None /\ shards'[s] = None =>
                       s.gen < latest \/ Expired(s.day) \/ s \in byHand'
<1>1. IInv /\ [Next]_vars => [Keeps]_vars
  <2> SUFFICES ASSUME IInv, Next, NEW s \in Names, shards[s] # None, shards'[s] = None
               PROVE  s.gen < latest \/ Expired(s.day) \/ s \in byHand'
    OBVIOUS
  <2>1. s.gen <= latest /\ s.gen \in Nat /\ latest \in Nat
    <3>1. s.gen <= latest
      BY DEF IInv, OneGeneration
    <3>2. latest \in Nat
      BY Bounds DEF IInv, TypeOK
    <3> QED
      BY <3>1, <3>2, NamesType
  <2>2. ASSUME NEW p \in Processes, CleanupStep(p)
        PROVE  s.gen < latest \/ Expired(s.day)
    BY <2>1, <2>2, CleanupDeletes
  <2>3. ASSUME NEW p \in Processes, NEW t \in Names, DeleteIndex(p, t)
        PROVE  s \in byHand'
    BY <2>3 DEF DeleteIndex, IInv, TypeOK
  <2>4. ASSUME NEW p \in Processes,
               EnsureIndex(p) \/ AddSucceeds(p) \/ AddFails(p)
        PROVE  FALSE
    <3>1. None \notin Shard /\ shards[s] \in Shard
      BY NoneAssumption DEF IInv, TypeOK
    <3>2. \A shard \in Shard : \A r \in Runs : WithDocument(shard, r) # None
      BY <3>1 DEF WithDocument, Shard
    <3>3. writing[p] \in Write /\ writing[p].run \in Runs
      BY <2>4 DEF EnsureIndex, AddSucceeds, AddFails, AtStep, IInv, TypeOK, Write
    <3> QED
      BY <2>4, <3>1, <3>2, <3>3 DEF EnsureIndex, AddSucceeds, AddFails, IInv, TypeOK
  <2>5. ASSUME UNCHANGED shards
        PROVE  FALSE
    BY <2>5
  <2> QED
    BY <2>2, <2>3, <2>4, <2>5
       DEF Next, CleanupStep, NextDay, Deploy, Exit, BeginWrite, Settle, SaveProgress
<1> QED
  BY <1>1, RetentionInvariant, PTL DEF Spec, CurrentIsKept
=============================================================================
