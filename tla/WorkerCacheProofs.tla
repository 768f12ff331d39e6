-------------------------- MODULE WorkerCacheProofs --------------------------
(***************************************************************************)
(* Theorems of WorkerCache, for every number of workers, of requests and   *)
(* of refreshes, every TTL and every bound on a load.                      *)
(***************************************************************************)
EXTENDS WorkerCache, TLAPS

USE DEF database, caches, requests

\* The steps of a request.
LEMMA StepsOfRequests ==
    /\ Idle \in RequestSteps
    /\ Answering \in RequestSteps
    /\ \A s \in Sources : Then(s) \in RequestSteps
    /\ \A s \in Sources, where \in {"get", "query", "store"} : Getting(s, where) \in RequestSteps
    /\ ReadOrder[1] = "products" /\ ReadOrder[2] = "banks"
BY DEF RequestSteps, Idle, Answering, Then, Getting, ReadOrder, Sources

TypeInv == TypeOK /\ BanksFirstSaved

\* The first state is well typed.
LEMMA InitTypeInv == Init => TypeInv
<1> SUFFICES ASSUME Init PROVE TypeInv
  OBVIOUS
<1>1. 0 \in Versions
  BY CacheAssumption DEF Versions
<1>2. TypeOK
  BY <1>1, CacheAssumption, StepsOfRequests DEF Init, TypeOK, NoRows
<1>3. BanksFirstSaved
  BY DEF Init, BanksFirstSaved, Sources
<1> QED
  BY <1>2, <1>3 DEF TypeInv

\* The steps of a request keep the types.
LEMMA RequestTypeInv ==
    ASSUME TypeInv, NEW r \in Requests, Request(r)
    PROVE  TypeInv'
<1> USE DEF TypeInv, TypeOK
<1>1. BanksFirstSaved'
  BY DEF Request, Begin, Answer, Hit, Miss, Read, Store, BanksFirstSaved
<1>2. 0 \in Versions /\ "products" \in Sources
  BY CacheAssumption DEF Versions, Sources
<1>3. CASE Begin(r)
  BY <1>1, <1>2, <1>3, StepsOfRequests DEF Begin
<1>4. CASE Answer(r)
  BY <1>1, <1>2, <1>4, StepsOfRequests DEF Answer
<1>5. ASSUME NEW s \in Sources, Hit(r, s) PROVE TypeOK'
  <2>1. Home[r] \in Workers
    BY CacheAssumption
  <2>2. cached[Home[r]][s] \in Versions
    BY <1>5, <2>1 DEF Hit, Fresh
  <2> QED
    BY <1>5, <2>2, StepsOfRequests DEF Hit
<1>6. ASSUME NEW s \in Sources, Miss(r, s) PROVE TypeOK'
  BY <1>6, StepsOfRequests DEF Miss
<1>7. ASSUME NEW s \in Sources, Read(r, s) PROVE TypeOK'
  BY <1>7, StepsOfRequests DEF Read
<1>8. ASSUME NEW s \in Sources, Store(r, s) PROVE TypeOK'
  <2>1. /\ Home[r] \in Workers
        /\ rows[r].version \in Versions
        /\ NoRows \in [version : Versions, at : Nat]
    BY <1>2, CacheAssumption DEF NoRows
  <2>2. /\ cached' \in [Workers -> [Sources -> Versions \cup {Empty}]]
        /\ cachedAt' \in [Workers -> [Sources -> Nat]]
    <3>1. CASE cacheEnabled
      <4>1. /\ cached' = [cached EXCEPT ![Home[r]][s] = rows[r].version]
            /\ cachedAt' = [cachedAt EXCEPT ![Home[r]][s] = now]
        BY <1>8, <3>1 DEF Store
      <4> QED
        BY <2>1, <4>1
    <3>2. CASE ~cacheEnabled
      BY <1>8, <3>2 DEF Store
    <3> QED
      BY <3>1, <3>2
  <2> QED
    BY <1>8, <2>1, <2>2, StepsOfRequests DEF Store
<1> QED
  BY <1>1, <1>3, <1>4, <1>5, <1>6, <1>7, <1>8 DEF Request

\* A commit keeps the types of the database.
LEMMA CommitType ==
    ASSUME TypeInv, NEW s \in Sources, NEW version \in Versions, Commit(s, version)
    PROVE  /\ saved' \in [Sources -> Versions]
           /\ supersededAt' \in [Sources -> [Versions -> Nat]]
BY DEF TypeInv, TypeOK, Commit

\* The steps of a refresh keep the types.
LEMMA RefreshTypeInv ==
    ASSUME TypeInv, Refresh
    PROVE  TypeInv'
<1> USE DEF TypeInv, TypeOK
<1>0. /\ "banks" \in Sources /\ "products" \in Sources
      /\ saved["banks"] \in Nat /\ saved["products"] \in Nat
      /\ saved["banks"] <= MaxRefreshes
  BY CacheAssumption DEF Sources, Versions
<1>1. ASSUME NEW site \in Workers \cup {Script}, StartRefresh(site) PROVE TypeInv'
  BY <1>1 DEF StartRefresh, BanksFirstSaved
<1>2. CASE SaveBanks
  <2>1. saved["banks"] + 1 \in Versions
    BY <1>0, <1>2, CacheAssumption DEF SaveBanks, BanksFirstSaved, Versions
  <2>2. TypeOK'
    BY <1>0, <1>2, <2>1, CommitType DEF SaveBanks, Commit
  <2>3. BanksFirstSaved'
    BY <1>0, <1>2 DEF SaveBanks, Commit, BanksFirstSaved, Sources
  <2> QED
    BY <2>2, <2>3
<1>3. CASE SaveProducts
  <2>1. TypeOK'
    BY <1>0, <1>3, CommitType DEF SaveProducts, Commit
  <2>2. BanksFirstSaved'
    BY <1>0, <1>3 DEF SaveProducts, Commit, BanksFirstSaved, Sources
  <2> QED
    BY <2>1, <2>2
<1>4. CASE Clear
  <2>1. CASE refresh.site = Script
    BY <1>4, <2>1 DEF Clear, BanksFirstSaved
  <2>2. CASE refresh.site # Script
    <3>1. /\ cached' = [cached EXCEPT ![refresh.site] = [s \in Sources |-> Empty]]
          /\ cachedAt' = [cachedAt EXCEPT ![refresh.site] = [s \in Sources |-> 0]]
          /\ refresh' = [refresh EXCEPT !.step = "idle"]
          /\ UNCHANGED <<cacheEnabled, now, database, requests>>
      BY <1>4, <2>2 DEF Clear
    <3>2. /\ cached' \in [Workers -> [Sources -> Versions \cup {Empty}]]
          /\ cachedAt' \in [Workers -> [Sources -> Nat]]
      BY <3>1
    <3>3. refresh' \in [step : {"idle", "save_banks", "save_products", "clear"},
                        site : Workers \cup {Script}]
      BY <3>1
    <3> QED
      BY <3>1, <3>2, <3>3 DEF BanksFirstSaved
  <2> QED
    BY <2>1, <2>2
<1> QED
  BY <1>1, <1>2, <1>3, <1>4 DEF Refresh

\* So does every step.
LEMMA StepTypeInv == TypeInv /\ [Next]_vars => TypeInv'
<1> SUFFICES ASSUME TypeInv, [Next]_vars PROVE TypeInv'
  OBVIOUS
<1>1. ASSUME NEW w \in Workers, Restart(w) PROVE TypeInv'
  <2>1. 0 \in Versions
    BY CacheAssumption DEF Versions
  <2>2. TypeOK'
    BY <1>1, <2>1, StepsOfRequests DEF Restart, TypeInv, TypeOK, NoRows
  <2>3. BanksFirstSaved'
    BY <1>1 DEF Restart, TypeInv, TypeOK, BanksFirstSaved
  <2> QED
    BY <2>2, <2>3 DEF TypeInv
<1>2. CASE Tick
  BY <1>2 DEF Tick, TypeInv, TypeOK, BanksFirstSaved
<1>3. CASE UNCHANGED vars
  BY <1>3 DEF vars, TypeInv, TypeOK, BanksFirstSaved
<1> QED
  BY <1>1, <1>2, <1>3, RequestTypeInv, RefreshTypeInv DEF Next

\* The variables keep their types, and no product is committed before its bank.
THEOREM CacheTypeCorrect == Spec => [](TypeOK /\ BanksFirstSaved)
<1>1. TypeInv /\ [Next]_vars => TypeInv'
  BY StepTypeInv
<1> QED
  BY InitTypeInv, <1>1, PTL DEF Spec, TypeInv

-----------------------------------------------------------------------------
(* Staleness *)

\* Versions and times are numbers.
LEMMA Numbers ==
    ASSUME TypeInv
    PROVE  /\ now \in Nat
           /\ \A s \in Sources : saved[s] \in Nat
           /\ \A s \in Sources, v \in Versions : supersededAt[s][v] \in Nat
           /\ \A w \in Workers, s \in Sources :
                 /\ cachedAt[w][s] \in Nat
                 /\ cached[w][s] # Empty => cached[w][s] \in Versions
           /\ \A r \in Requests : rows[r].version \in Versions /\ rows[r].at \in Nat
           /\ Versions \subseteq Nat
           /\ TTL \in Nat /\ MaxLoad \in Nat
BY CacheAssumption DEF TypeInv, TypeOK, Versions

\* What a commit does to the age of a version.
LEMMA CommitAges ==
    ASSUME TypeInv, NEW s \in Sources, NEW version \in Versions, saved[s] <= version,
           Commit(s, version)
    PROVE  /\ \A t \in Sources \ {s} :
                 saved'[t] = saved[t] /\ supersededAt'[t] = supersededAt[t]
           /\ saved'[s] = version
           /\ \A v \in Versions : v < saved[s] => supersededAt'[s][v] = supersededAt[s][v]
           /\ \A v \in Versions : saved[s] <= v /\ v < version => supersededAt'[s][v] = now
<1>1. /\ saved' = [saved EXCEPT ![s] = version]
      /\ supersededAt' = [supersededAt EXCEPT ![s] =
            [v \in Versions |-> IF v \in saved[s]..(version - 1) THEN now ELSE @[v]]]
  BY DEF Commit
<1>2. supersededAt'[s] =
         [v \in Versions |-> IF v \in saved[s]..(version - 1) THEN now ELSE supersededAt[s][v]]
  BY <1>1 DEF TypeInv, TypeOK
<1>3. /\ version \in Nat
      /\ saved[s] \in Nat
      /\ \A v \in Versions : v \in Nat
  BY Numbers
<1>4. \A v \in Versions : v \in saved[s]..(version - 1) <=> saved[s] <= v /\ v < version
  BY <1>3
<1>5. \A v \in Versions : v < saved[s] => ~(saved[s] <= v)
  BY <1>3
<1> QED
  BY <1>1, <1>2, <1>4, <1>5 DEF TypeInv, TypeOK

\* An entry read before a commit is as recent after it.
LEMMA CommitKeepsRecent ==
    ASSUME TypeInv, NEW s \in Sources, NEW version \in Versions, saved[s] <= version,
           Commit(s, version), NEW t \in Sources, NEW v \in Versions, NEW at \in Nat,
           v <= saved[t], at <= now, v < saved[t] => at <= supersededAt[t][v] + MaxLoad
    PROVE  /\ v <= saved'[t]
           /\ v < saved'[t] => at <= supersededAt'[t][v] + MaxLoad
<1>1. /\ now \in Nat /\ saved[t] \in Nat /\ v \in Nat /\ MaxLoad \in Nat /\ version \in Nat
      /\ supersededAt[t][v] \in Nat
  BY Numbers
<1>2. CASE t # s
  BY <1>2, CommitAges
<1>3. CASE t = s
  <2>1. saved'[t] = version
    BY <1>3, CommitAges
  <2>2. CASE v < saved[s]
    <3>1. supersededAt'[t][v] = supersededAt[t][v]
      BY <1>3, <2>2, CommitAges
    <3> QED
      BY <1>1, <1>3, <2>1, <2>2, <3>1
  <2>3. CASE v = saved[s]
    <3>1. v < version => supersededAt'[t][v] = now
      BY <1>1, <1>3, <2>3, CommitAges
    <3> QED
      BY <1>1, <1>3, <2>1, <2>3, <3>1
  <2> QED
    BY <1>1, <1>3, <2>2, <2>3
<1> QED
  BY <1>2, <1>3

\* A load read before a commit was the committed version when it was read.
LEMMA CommitKeepsLoads ==
    ASSUME TypeInv, NEW s \in Sources, NEW version \in Versions, saved[s] <= version,
           Commit(s, version), NEW t \in Sources, NEW v \in Versions, NEW at \in Nat,
           v <= saved[t], at <= now, v < saved[t] => at <= supersededAt[t][v]
    PROVE  /\ v <= saved'[t]
           /\ v < saved'[t] => at <= supersededAt'[t][v]
<1>1. /\ now \in Nat /\ saved[t] \in Nat /\ v \in Nat /\ version \in Nat
      /\ supersededAt[t][v] \in Nat
  BY Numbers
<1>2. CASE t # s
  BY <1>2, CommitAges
<1>3. CASE t = s
  <2>1. saved'[t] = version
    BY <1>3, CommitAges
  <2>2. CASE v < saved[s]
    <3>1. supersededAt'[t][v] = supersededAt[t][v]
      BY <1>3, <2>2, CommitAges
    <3> QED
      BY <1>1, <1>3, <2>1, <2>2, <3>1
  <2>3. CASE v = saved[s]
    <3>1. v < version => supersededAt'[t][v] = now
      BY <1>1, <1>3, <2>3, CommitAges
    <3> QED
      BY <1>1, <1>3, <2>1, <2>3, <3>1
  <2> QED
    BY <1>1, <1>3, <2>2, <2>3
<1> QED
  BY <1>2, <1>3

RecentInv == EntriesRecent /\ LoadsRecent

\* A commit keeps what is cached or in flight recent.
LEMMA CommitRecent ==
    ASSUME TypeInv, RecentInv, NEW s \in Sources, NEW version \in Versions,
           saved[s] <= version, Commit(s, version)
    PROVE  RecentInv'
<1>1. UNCHANGED <<now, caches, requests>>
  BY DEF Commit
<1>2. EntriesRecent'
  <2> SUFFICES ASSUME NEW w \in Workers, NEW t \in Sources, cached[w][t] # Empty
               PROVE  /\ cached[w][t] <= saved'[t]
                      /\ cachedAt[w][t] <= now
                      /\ cached[w][t] < saved'[t] =>
                             cachedAt[w][t] <= supersededAt'[t][cached[w][t]] + MaxLoad
    BY <1>1 DEF EntriesRecent
  <2>1. /\ cached[w][t] \in Versions /\ cachedAt[w][t] \in Nat
        /\ cached[w][t] <= saved[t] /\ cachedAt[w][t] <= now
        /\ cached[w][t] < saved[t] =>
               cachedAt[w][t] <= supersededAt[t][cached[w][t]] + MaxLoad
    BY Numbers DEF RecentInv, EntriesRecent
  <2> QED
    BY <2>1, CommitKeepsRecent
<1>3. LoadsRecent'
  <2> SUFFICES ASSUME NEW r \in Requests, NEW t \in Sources, step[r] = Getting(t, "store")
               PROVE  /\ rows[r].version <= saved'[t]
                      /\ rows[r].at <= now
                      /\ now <= rows[r].at + MaxLoad
                      /\ rows[r].version < saved'[t] =>
                             rows[r].at <= supersededAt'[t][rows[r].version]
    BY <1>1 DEF LoadsRecent
  <2>1. /\ rows[r].version \in Versions /\ rows[r].at \in Nat
        /\ rows[r].version <= saved[t] /\ rows[r].at <= now
        /\ now <= rows[r].at + MaxLoad
        /\ rows[r].version < saved[t] => rows[r].at <= supersededAt[t][rows[r].version]
    BY Numbers DEF RecentInv, LoadsRecent
  <2> QED
    BY <2>1, CommitKeepsLoads
<1> QED
  BY <1>2, <1>3 DEF RecentInv

\* Empty caches are recent.
LEMMA InitRecent == Init => RecentInv
<1> SUFFICES ASSUME Init PROVE RecentInv
  OBVIOUS
<1>1. EntriesRecent
  BY DEF Init, EntriesRecent, Sources
<1>2. LoadsRecent
  BY DEF Init, LoadsRecent, Idle, Getting, Sources
<1> QED
  BY <1>1, <1>2 DEF RecentInv

\* A step that starts no load leaves those of the other requests as they are.
LEMMA OtherLoads ==
    ASSUME TypeInv, RecentInv, NEW r \in Requests, UNCHANGED <<now, database>>,
           \A s \in Sources : step'[r] # Getting(s, "store"),
           \A q \in Requests \ {r} : step'[q] = step[q] /\ rows'[q] = rows[q]
    PROVE  LoadsRecent'
BY DEF RecentInv, LoadsRecent

\* No step but Read ends at a store.
LEMMA NotStoring ==
    /\ \A s, t \in Sources : Then(s) # Getting(t, "store")
    /\ \A s, t \in Sources : Getting(s, "get") # Getting(t, "store")
    /\ \A s, t \in Sources : Getting(s, "query") # Getting(t, "store")
    /\ \A t \in Sources : Idle # Getting(t, "store")
BY DEF Then, Getting, Idle, Answering, ReadOrder

\* The steps of a request keep what is cached recent.
LEMMA RequestRecent ==
    ASSUME TypeInv, RecentInv, NEW r \in Requests, Request(r)
    PROVE  RecentInv'
<1>0. step \in [Requests -> RequestSteps] /\ rows \in [Requests -> [version : Versions, at : Nat]]
  BY DEF TypeInv, TypeOK
<1>1. ASSUME UNCHANGED <<now, database, caches>> PROVE EntriesRecent'
  BY <1>1 DEF RecentInv, EntriesRecent
<1>2. CASE Begin(r)
  <2>1. /\ \A s \in Sources : step'[r] # Getting(s, "store")
        /\ \A q \in Requests \ {r} : step'[q] = step[q] /\ rows'[q] = rows[q]
        /\ UNCHANGED <<now, database, caches>>
    BY <1>0, <1>2, NotStoring, StepsOfRequests DEF Begin, Sources
  <2> QED
    BY <1>1, <2>1, OtherLoads DEF RecentInv
<1>3. CASE Answer(r)
  <2>1. /\ \A s \in Sources : step'[r] # Getting(s, "store")
        /\ \A q \in Requests \ {r} : step'[q] = step[q] /\ rows'[q] = rows[q]
        /\ UNCHANGED <<now, database, caches>>
    BY <1>0, <1>3, NotStoring DEF Answer
  <2> QED
    BY <1>1, <2>1, OtherLoads DEF RecentInv
<1>4. ASSUME NEW s \in Sources, Hit(r, s) \/ Miss(r, s) PROVE RecentInv'
  <2>1. /\ \A t \in Sources : step'[r] # Getting(t, "store")
        /\ \A q \in Requests \ {r} : step'[q] = step[q] /\ rows'[q] = rows[q]
        /\ UNCHANGED <<now, database, caches>>
    BY <1>0, <1>4, NotStoring DEF Hit, Miss
  <2> QED
    BY <1>1, <2>1, OtherLoads DEF RecentInv
<1>5. ASSUME NEW s \in Sources, Read(r, s) PROVE RecentInv'
  <2>1. /\ step'[r] = Getting(s, "store")
        /\ rows'[r] = [version |-> saved[s], at |-> now]
        /\ \A q \in Requests \ {r} : step'[q] = step[q] /\ rows'[q] = rows[q]
        /\ UNCHANGED <<now, database, caches>>
    BY <1>0, <1>5 DEF Read
  <2>2. \A t \in Sources : step'[r] = Getting(t, "store") => t = s
    BY <2>1 DEF Getting
  <2>3. /\ now \in Nat /\ MaxLoad \in Nat /\ saved[s] \in Nat
    BY Numbers
  <2>4. /\ rows'[r].version = saved[s] /\ rows'[r].at = now
        /\ saved[s] <= saved[s] /\ now <= now + MaxLoad /\ ~(saved[s] < saved[s])
    BY <2>1, <2>3
  <2>5. LoadsRecent'
    <3> SUFFICES ASSUME NEW q \in Requests, NEW t \in Sources, step'[q] = Getting(t, "store")
                 PROVE  /\ rows'[q].version <= saved[t]
                        /\ rows'[q].at <= now
                        /\ now <= rows'[q].at + MaxLoad
                        /\ rows'[q].version < saved[t] =>
                               rows'[q].at <= supersededAt[t][rows'[q].version]
      BY <2>1 DEF LoadsRecent
    <3>1. CASE q = r
      BY <2>2, <2>3, <2>4, <3>1
    <3>2. CASE q # r
      BY <2>1, <3>2 DEF RecentInv, LoadsRecent
    <3> QED
      BY <3>1, <3>2
  <2> QED
    BY <1>1, <2>1, <2>5 DEF RecentInv
<1>6. ASSUME NEW s \in Sources, Store(r, s) PROVE RecentInv'
  <2>1. /\ \A t \in Sources : step'[r] # Getting(t, "store")
        /\ \A q \in Requests \ {r} : step'[q] = step[q] /\ rows'[q] = rows[q]
        /\ UNCHANGED <<now, database>>
    BY <1>0, <1>6, NotStoring DEF Store
  <2>2. LoadsRecent'
    BY <2>1, OtherLoads
  <2>3. CASE ~cacheEnabled
    BY <1>1, <1>6, <2>1, <2>2, <2>3 DEF Store, RecentInv
  <2>4. CASE cacheEnabled
    <3>1. /\ cached' = [cached EXCEPT ![Home[r]][s] = rows[r].version]
          /\ cachedAt' = [cachedAt EXCEPT ![Home[r]][s] = now]
          /\ step[r] = Getting(s, "store")
          /\ Home[r] \in Workers
      BY <1>6, <2>4, CacheAssumption DEF Store
    <3>2. /\ cached \in [Workers -> [Sources -> Versions \cup {Empty}]]
          /\ cachedAt \in [Workers -> [Sources -> Nat]]
      BY DEF TypeInv, TypeOK
    <3>3. /\ cached'[Home[r]][s] = rows[r].version
          /\ cachedAt'[Home[r]][s] = now
          /\ \A w \in Workers, t \in Sources : w # Home[r] \/ t # s =>
                cached'[w][t] = cached[w][t] /\ cachedAt'[w][t] = cachedAt[w][t]
      BY <3>1, <3>2
    <3>4. /\ rows[r].version \in Versions /\ rows[r].at \in Nat /\ now \in Nat /\ MaxLoad \in Nat
          /\ supersededAt[s][rows[r].version] \in Nat
      BY Numbers
    <3>5. /\ rows[r].version <= saved[s]
          /\ rows[r].at <= now
          /\ now <= rows[r].at + MaxLoad
          /\ rows[r].version < saved[s] => rows[r].at <= supersededAt[s][rows[r].version]
      BY <3>1 DEF RecentInv, LoadsRecent
    <3>6. /\ now <= now
          /\ rows[r].version < saved[s] =>
                now <= supersededAt[s][rows[r].version] + MaxLoad
      BY <3>4, <3>5
    <3>7. EntriesRecent'
      <4> SUFFICES ASSUME NEW w \in Workers, NEW t \in Sources, cached'[w][t] # Empty
                   PROVE  /\ cached'[w][t] <= saved[t]
                          /\ cachedAt'[w][t] <= now
                          /\ cached'[w][t] < saved[t] =>
                                 cachedAt'[w][t] <= supersededAt[t][cached'[w][t]] + MaxLoad
        BY <2>1 DEF EntriesRecent
      <4>1. CASE w = Home[r] /\ t = s
        BY <3>3, <3>5, <3>6, <4>1
      <4>2. CASE w # Home[r] \/ t # s
        BY <3>3, <4>2 DEF RecentInv, EntriesRecent
      <4> QED
        BY <4>1, <4>2
    <3> QED
      BY <2>2, <3>7 DEF RecentInv
  <2> QED
    BY <2>3, <2>4
<1> QED
  BY <1>2, <1>3, <1>4, <1>5, <1>6 DEF Request

\* So do the steps of a refresh.
LEMMA RefreshRecent ==
    ASSUME TypeInv, RecentInv, Refresh
    PROVE  RecentInv'
<1>0. /\ "banks" \in Sources /\ "products" \in Sources
      /\ saved["banks"] \in Versions /\ saved["products"] \in Versions
      /\ saved["banks"] \in Nat /\ saved["products"] \in Nat
  BY Numbers DEF Sources, TypeInv, TypeOK
<1>1. ASSUME NEW site \in Workers \cup {Script}, StartRefresh(site) PROVE RecentInv'
  BY <1>1 DEF StartRefresh, RecentInv, EntriesRecent, LoadsRecent
<1>2. CASE SaveBanks
  <2>1. saved["banks"] + 1 \in Versions /\ saved["banks"] <= saved["banks"] + 1
    BY <1>0, <1>2, CacheAssumption DEF SaveBanks, TypeInv, BanksFirstSaved, Versions
  <2> QED
    BY <1>0, <1>2, <2>1, CommitRecent DEF SaveBanks
<1>3. CASE SaveProducts
  BY <1>0, <1>3, CommitRecent DEF SaveProducts, TypeInv, BanksFirstSaved
<1>4. CASE Clear
  <2>1. LoadsRecent'
    BY <1>4 DEF Clear, RecentInv, LoadsRecent
  <2>2. CASE refresh.site = Script
    BY <1>4, <2>1, <2>2 DEF Clear, RecentInv, EntriesRecent
  <2>3. CASE refresh.site # Script
    <3>1. /\ cached' = [cached EXCEPT ![refresh.site] = [s \in Sources |-> Empty]]
          /\ cachedAt' = [cachedAt EXCEPT ![refresh.site] = [s \in Sources |-> 0]]
          /\ UNCHANGED <<now, database>>
      BY <1>4, <2>3 DEF Clear
    <3>2. /\ cached \in [Workers -> [Sources -> Versions \cup {Empty}]]
          /\ cachedAt \in [Workers -> [Sources -> Nat]]
      BY DEF TypeInv, TypeOK
    <3>3. \A w \in Workers, s \in Sources : cached'[w][s] # Empty =>
             cached'[w][s] = cached[w][s] /\ cachedAt'[w][s] = cachedAt[w][s]
      BY <3>1, <3>2
    <3>4. EntriesRecent'
      <4> SUFFICES ASSUME NEW w \in Workers, NEW t \in Sources, cached'[w][t] # Empty
                   PROVE  /\ cached'[w][t] <= saved[t]
                          /\ cachedAt'[w][t] <= now
                          /\ cached'[w][t] < saved[t] =>
                                 cachedAt'[w][t] <= supersededAt[t][cached'[w][t]] + MaxLoad
        BY <3>1 DEF EntriesRecent
      <4> QED
        BY <3>3 DEF RecentInv, EntriesRecent
    <3> QED
      BY <2>1, <3>4 DEF RecentInv
  <2> QED
    BY <2>2, <2>3
<1> QED
  BY <1>1, <1>2, <1>3, <1>4 DEF Refresh

\* So does the end of a worker.
LEMMA RestartRecent ==
    ASSUME TypeInv, RecentInv, NEW w \in Workers, Restart(w)
    PROVE  RecentInv'
<1>1. /\ cached' = [cached EXCEPT ![w] = [s \in Sources |-> Empty]]
      /\ UNCHANGED <<now, database, cachedAt>>
  BY DEF Restart
<1>2. \A v \in Workers, s \in Sources : cached'[v][s] # Empty => cached'[v][s] = cached[v][s]
  BY <1>1 DEF TypeInv, TypeOK
<1>3. EntriesRecent'
  BY <1>1, <1>2 DEF RecentInv, EntriesRecent
<1>4. \A r \in Requests, s \in Sources : step'[r] = Getting(s, "store") =>
         step[r] = Getting(s, "store") /\ rows'[r] = rows[r]
  BY NotStoring DEF Restart
<1>5. LoadsRecent'
  BY <1>1, <1>4 DEF RecentInv, LoadsRecent
<1> QED
  BY <1>3, <1>5 DEF RecentInv

\* Time passes only as far as a load may take.
LEMMA TickRecent ==
    ASSUME TypeInv, RecentInv, Tick
    PROVE  RecentInv'
<1>1. /\ now' = now + 1
      /\ UNCHANGED <<database, caches, requests>>
      /\ \A r \in Requests, s \in Sources :
            step[r] = Getting(s, "store") => now - rows[r].at < MaxLoad
  BY DEF Tick
<1>2. /\ now \in Nat /\ MaxLoad \in Nat
      /\ \A w \in Workers, s \in Sources : cachedAt[w][s] \in Nat
      /\ \A r \in Requests : rows[r].at \in Nat
  BY Numbers
<1>3. \A x \in Nat : x <= now => x <= now + 1
  BY <1>2
<1>4. \A x \in Nat : now - x < MaxLoad => now + 1 <= x + MaxLoad
  BY <1>2
<1>5. EntriesRecent'
  BY <1>1, <1>2, <1>3 DEF RecentInv, EntriesRecent
<1>6. LoadsRecent'
  BY <1>1, <1>2, <1>3, <1>4 DEF RecentInv, LoadsRecent
<1> QED
  BY <1>5, <1>6 DEF RecentInv

\* Every step keeps what is cached recent.
LEMMA StepRecent == TypeInv /\ RecentInv /\ [Next]_vars => RecentInv'
<1> SUFFICES ASSUME TypeInv, RecentInv, [Next]_vars PROVE RecentInv'
  OBVIOUS
<1>1. CASE UNCHANGED vars
  BY <1>1 DEF vars, RecentInv, EntriesRecent, LoadsRecent
<1> QED
  BY <1>1, RequestRecent, RefreshRecent, RestartRecent, TickRecent DEF Next

\* Less than TTL old since it was stored, at most MaxLoad older when it was read.
LEMMA RecentIsFresh == TypeInv /\ RecentInv => StaleAtMost
<1> SUFFICES ASSUME TypeInv, RecentInv, NEW w \in Workers, NEW s \in Sources,
                    Fresh(w, s), cached[w][s] < saved[s]
             PROVE  now - supersededAt[s][cached[w][s]] < TTL + MaxLoad
  BY DEF StaleAtMost
<1>1. cached[w][s] # Empty /\ now - cachedAt[w][s] < TTL
  BY DEF Fresh
<1>2. cachedAt[w][s] <= supersededAt[s][cached[w][s]] + MaxLoad
  BY <1>1 DEF RecentInv, EntriesRecent
<1>3. /\ now \in Nat /\ cachedAt[w][s] \in Nat /\ TTL \in Nat /\ MaxLoad \in Nat
      /\ supersededAt[s][cached[w][s]] \in Nat
  BY <1>1, Numbers
<1> QED
  BY <1>1, <1>2, <1>3

\* A worker never serves from its cache what was superseded TTL and one load ago
\* or earlier, whatever refreshes run in whatever process and workers restart.
THEOREM StalenessBounded == Spec => []StaleAtMost
<1>1. Init => TypeInv /\ RecentInv
  BY InitTypeInv, InitRecent
<1>2. TypeInv /\ RecentInv /\ [Next]_vars => (TypeInv /\ RecentInv)'
  BY StepTypeInv, StepRecent
<1> QED
  BY <1>1, <1>2, RecentIsFresh, PTL DEF Spec

-----------------------------------------------------------------------------
(* Without the caches *)

DirectInv == BanksKeepUp /\ BankFound

\* The banks a request has still to read are no older than its products.
LEMMA RequestDirect ==
    ASSUME TypeInv, DirectInv, ~cacheEnabled, NEW r \in Requests, Request(r)
    PROVE  DirectInv'
<1>0. /\ step \in [Requests -> RequestSteps]
      /\ rows \in [Requests -> [version : Versions, at : Nat]]
      /\ got \in [Requests -> [Sources -> Versions]]
      /\ "banks" \in Sources /\ "products" \in Sources
  BY DEF TypeInv, TypeOK, Sources
<1>1. ASSUME NEW q \in Requests
      PROVE  /\ step[q] = Getting("products", "store") => rows[q].version <= saved["banks"]
             /\ step[q].at = "banks" => got[q]["products"] <= saved["banks"]
             /\ step[q] = Getting("banks", "store") => got[q]["products"] <= rows[q].version
             /\ step[q] = Answering => got[q]["products"] <= got[q]["banks"]
  BY DEF DirectInv, BanksKeepUp, BankFound
<1>2. ASSUME UNCHANGED database,
             \A q \in Requests \ {r} :
                 step'[q] = step[q] /\ rows'[q] = rows[q] /\ got'[q] = got[q],
             /\ step'[r] = Getting("products", "store") => rows'[r].version <= saved["banks"]
             /\ step'[r].at = "banks" => got'[r]["products"] <= saved["banks"]
             /\ step'[r] = Getting("banks", "store") => got'[r]["products"] <= rows'[r].version
             /\ step'[r] = Answering => got'[r]["products"] <= got'[r]["banks"]
      PROVE  DirectInv'
  <2> SUFFICES ASSUME NEW q \in Requests
               PROVE
             /\ step'[q] = Getting("products", "store") => rows'[q].version <= saved["banks"]
             /\ step'[q].at = "banks" => got'[q]["products"] <= saved["banks"]
             /\ step'[q] = Getting("banks", "store") => got'[q]["products"] <= rows'[q].version
             /\ step'[q] = Answering => got'[q]["products"] <= got'[q]["banks"]
    BY <1>2 DEF DirectInv, BanksKeepUp, BankFound
  <2> QED
    BY <1>1, <1>2
<1>3. CASE Begin(r)
  <2>1. step'[r] = Getting("products", "get")
    BY <1>0, <1>3, StepsOfRequests DEF Begin
  <2>2. /\ step'[r] # Getting("products", "store") /\ step'[r].at # "banks"
        /\ step'[r] # Getting("banks", "store") /\ step'[r] # Answering
    BY <2>1 DEF Getting, Answering
  <2> QED
    BY <1>0, <1>2, <1>3, <2>2 DEF Begin
<1>4. CASE Answer(r)
  <2>1. /\ step'[r] # Getting("products", "store") /\ step'[r].at # "banks"
        /\ step'[r] # Getting("banks", "store") /\ step'[r] # Answering
    BY <1>0, <1>4 DEF Answer, Idle, Getting, Answering
  <2> QED
    BY <1>0, <1>2, <1>4, <2>1 DEF Answer
<1>5. ASSUME NEW s \in Sources, Hit(r, s) PROVE DirectInv'
  BY <1>5 DEF Hit, Fresh
<1>6. ASSUME NEW s \in Sources, Miss(r, s) PROVE DirectInv'
  <2>1. step'[r] = Getting(s, "query") /\ step[r] = Getting(s, "get") /\ got' = got
    BY <1>0, <1>6 DEF Miss
  <2>2. /\ step'[r] # Getting("products", "store") /\ step'[r].at = step[r].at
        /\ step'[r] # Getting("banks", "store") /\ step'[r] # Answering
    BY <2>1 DEF Getting, Answering
  <2>3. step'[r].at = "banks" => got'[r]["products"] <= saved["banks"]
    BY <1>1, <2>1, <2>2
  <2> QED
    BY <1>0, <1>2, <1>6, <2>2, <2>3 DEF Miss
<1>7. ASSUME NEW s \in Sources, Read(r, s) PROVE DirectInv'
  <2>1. /\ step'[r] = Getting(s, "store") /\ step[r] = Getting(s, "query") /\ got' = got
        /\ rows'[r].version = saved[s]
    BY <1>0, <1>7 DEF Read
  <2>2. /\ step'[r].at = step[r].at /\ step'[r] # Answering
        /\ step'[r] = Getting("products", "store") => s = "products"
        /\ step'[r] = Getting("banks", "store") => s = "banks" /\ step[r].at = "banks"
    BY <2>1 DEF Getting, Answering
  <2>3. saved["products"] <= saved["banks"]
    BY DEF TypeInv, BanksFirstSaved
  <2>4. step'[r].at = "banks" => got'[r]["products"] <= saved["banks"]
    BY <1>1, <2>1, <2>2
  <2>5. step'[r] = Getting("banks", "store") => got'[r]["products"] <= rows'[r].version
    BY <1>1, <2>1, <2>2
  <2>6. step'[r] = Getting("products", "store") => rows'[r].version <= saved["banks"]
    BY <2>1, <2>2, <2>3
  <2> QED
    BY <1>0, <1>2, <1>7, <2>2, <2>4, <2>5, <2>6 DEF Read
<1>8. ASSUME NEW s \in Sources, Store(r, s) PROVE DirectInv'
  <2>1. /\ step'[r] = Then(s) /\ step[r] = Getting(s, "store")
        /\ got'[r] = [got[r] EXCEPT ![s] = rows[r].version]
        /\ got[r] \in [Sources -> Versions]
    BY <1>0, <1>8 DEF Store
  <2>2. CASE s = "products"
    <3>1. step'[r] = Getting("banks", "get")
      BY <2>1, <2>2, StepsOfRequests DEF Then
    <3>2. /\ step'[r] # Getting("products", "store")
          /\ step'[r] # Getting("banks", "store") /\ step'[r] # Answering
      BY <3>1 DEF Getting, Answering
    <3>3. got'[r]["products"] <= saved["banks"]
      BY <1>0, <1>1, <2>1, <2>2
    <3> QED
      BY <1>0, <1>2, <1>8, <3>2, <3>3 DEF Store
  <2>3. CASE s = "banks"
    <3>1. step'[r] = Answering
      BY <2>1, <2>3, StepsOfRequests DEF Then
    <3>2. /\ step'[r] # Getting("products", "store") /\ step'[r].at # "banks"
          /\ step'[r] # Getting("banks", "store")
      BY <3>1 DEF Getting, Answering
    <3>3. got'[r]["products"] = got[r]["products"] /\ got'[r]["banks"] = rows[r].version
      BY <1>0, <2>1, <2>3
    <3>4. got[r]["products"] <= rows[r].version
      BY <1>1, <2>1, <2>3
    <3> QED
      BY <1>0, <1>2, <1>8, <3>2, <3>3, <3>4 DEF Store
  <2> QED
    BY <2>2, <2>3 DEF Sources
<1> QED
  BY <1>3, <1>4, <1>5, <1>6, <1>7, <1>8 DEF Request

\* With the caches off, every step of a request finds banks as new as its products.
LEMMA StepDirect == TypeInv /\ DirectInv /\ ~cacheEnabled /\ [Next]_vars => DirectInv'
<1> SUFFICES ASSUME TypeInv, DirectInv, ~cacheEnabled, [Next]_vars PROVE DirectInv'
  OBVIOUS
<1>0. /\ saved \in [Sources -> Versions]
      /\ saved["banks"] \in Nat
      /\ \A r \in Requests : rows[r].version \in Nat /\ got[r]["products"] \in Nat
      /\ "banks" \in Sources /\ "products" \in Sources
  BY Numbers DEF TypeInv, TypeOK, Sources
<1>1. ASSUME UNCHANGED requests, saved'["banks"] \in Nat, saved["banks"] <= saved'["banks"]
      PROVE  DirectInv'
  <2>1. \A x \in Nat : x <= saved["banks"] => x <= saved'["banks"]
    BY <1>0, <1>1
  <2> QED
    BY <1>0, <1>1, <2>1 DEF DirectInv, BanksKeepUp, BankFound
<1>2. CASE Refresh
  <2>1. ASSUME NEW site \in Workers \cup {Script}, StartRefresh(site) PROVE DirectInv'
    BY <1>0, <1>1, <2>1 DEF StartRefresh
  <2>2. CASE SaveBanks
    <3>1. saved'["banks"] = saved["banks"] + 1 /\ UNCHANGED requests
      BY <1>0, <2>2 DEF SaveBanks, Commit
    <3> QED
      BY <1>0, <1>1, <3>1
  <2>3. CASE SaveProducts
    <3>1. saved'["banks"] = saved["banks"] /\ UNCHANGED requests
      BY <1>0, <2>3 DEF SaveProducts, Commit
    <3> QED
      BY <1>0, <1>1, <3>1
  <2>4. CASE Clear
    BY <1>0, <1>1, <2>4 DEF Clear
  <2> QED
    BY <1>2, <2>1, <2>2, <2>3, <2>4 DEF Refresh
<1>3. ASSUME NEW w \in Workers, Restart(w) PROVE DirectInv'
  <2>1. saved' = saved
    BY <1>3 DEF Restart
  <2>2. \A r \in Requests :
           \/ step'[r] = Idle
           \/ step'[r] = step[r] /\ rows'[r] = rows[r] /\ got'[r] = got[r]
    BY <1>3 DEF Restart
  <2>3. /\ Idle # Getting("products", "store") /\ Idle.at # "banks"
        /\ Idle # Getting("banks", "store") /\ Idle # Answering
    BY DEF Idle, Getting, Answering
  <2> QED
    BY <2>1, <2>2, <2>3 DEF DirectInv, BanksKeepUp, BankFound
<1>4. CASE Tick
  BY <1>0, <1>1, <1>4 DEF Tick
<1>5. CASE UNCHANGED vars
  BY <1>0, <1>1, <1>5 DEF vars
<1> QED
  BY <1>2, <1>3, <1>4, <1>5, RequestDirect DEF Next

\* CACHE_ENABLED does not change.
LEMMA SettingFixed == [Next]_vars => cacheEnabled' = cacheEnabled
BY DEF Next, vars, Request, Begin, Answer, Hit, Miss, Read, Store, Refresh, StartRefresh,
       SaveBanks, SaveProducts, Commit, Clear, Restart, Tick

UncachedInv == ~cacheEnabled => DirectInv

\* Where every get() reads the database, the banks it finds include the bank of
\* every product, because a refresh commits them first and a request reads them
\* last: the order of both is all it takes.
THEOREM BankFoundDirect == Spec => []BankFoundUncached
<1>1. Init => TypeInv /\ UncachedInv
  <2>1. Init => DirectInv
    BY DEF Init, DirectInv, BanksKeepUp, BankFound, Idle, Getting, Answering
  <2> QED
    BY <2>1, InitTypeInv DEF UncachedInv
<1>2. TypeInv /\ UncachedInv /\ [Next]_vars => (TypeInv /\ UncachedInv)'
  BY StepTypeInv, StepDirect, SettingFixed DEF UncachedInv
<1>3. UncachedInv => BankFoundUncached
  BY DEF UncachedInv, DirectInv, BankFoundUncached
<1> QED
  BY <1>1, <1>2, <1>3, PTL DEF Spec
=============================================================================
