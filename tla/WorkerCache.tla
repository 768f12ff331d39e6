----------------------------- MODULE WorkerCache -----------------------------
(***************************************************************************)
(* The TTL caches of the web workers.  Each worker process keeps its own   *)
(* TimedCache of the products and of the banks; get() reads the database   *)
(* when the entry is not fresh and stores what it read, with an await      *)
(* between the two.  A refresh commits banks, then products, and clears    *)
(* the caches of the worker it runs in; run as a script it has none.       *)
(*                                                                         *)
(* A table is represented by its version: the k-th refresh commits banks k *)
(* and then products k, and products k name a bank that only banks k and   *)
(* the later ones list.  Questions are cached the same way as banks.       *)
(***************************************************************************)
EXTENDS Integers

CONSTANTS
    Workers,       \* web worker processes
    Script,        \* the process of a refresh run as a script
    Requests,      \* requests in flight at once
    Home,          \* [Requests -> Workers]: the worker that serves a request
    Settings,      \* values CACHE_ENABLED may have
    TTL,           \* _TTL_SECONDS
    MaxLoad,       \* bound assumed: seconds from the database's answer to store()
    MaxRefreshes,  \* bound: refreshes
    MaxTime,       \* bound: seconds
    Empty          \* _cached is None

ASSUME CacheAssumption ==
    /\ TTL \in Nat \ {0}
    /\ MaxLoad \in Nat
    /\ MaxRefreshes \in Nat
    /\ Settings \subseteq BOOLEAN
    /\ Script \notin Workers
    /\ Home \in [Requests -> Workers]
    /\ Empty \notin Int

VARIABLES
    cacheEnabled,  \* CACHE_ENABLED: where FALSE every get() reads the database
    now,           \* time.monotonic()
    saved,         \* the committed version of each table
    supersededAt,  \* when a version stopped being the committed one
    cached,        \* _cached of each worker's caches
    cachedAt,      \* _cached_at
    refresh,       \* the step of the refresh that runs, and its process
    step,          \* what a request is doing
    rows,          \* the version a request's load read, and when
    got            \* the versions a request works with

database == <<saved, supersededAt>>
caches == <<cacheEnabled, cached, cachedAt>>
requests == <<step, rows, got>>
vars == <<now, database, caches, refresh, requests>>

Sources == {"products", "banks"}

Versions == 0..MaxRefreshes

\* A request is idle, in a get() of a source (about to look at the cache, to
\* query, or to store what it read) or about to answer.
RequestSteps == [at : {"idle", "answer"}, in : {"-"}]
                \cup [at : Sources, in : {"get", "query", "store"}]

Getting(s, where) == [at |-> s, in |-> where]
Idle == [at |-> "idle", in |-> "-"]
Answering == [at |-> "answer", in |-> "-"]

TypeOK ==
    /\ cacheEnabled \in BOOLEAN
    /\ now \in Nat
    /\ saved \in [Sources -> Versions]
    /\ supersededAt \in [Sources -> [Versions -> Nat]]
    /\ cached \in [Workers -> [Sources -> Versions \cup {Empty}]]
    /\ cachedAt \in [Workers -> [Sources -> Nat]]
    /\ refresh \in [step : {"idle", "save_banks", "save_products", "clear"},
                    site : Workers \cup {Script}]
    /\ step \in [Requests -> RequestSteps]
    /\ rows \in [Requests -> [version : Versions, at : Nat]]
    /\ got \in [Requests -> [Sources -> Versions]]

NoRows == [version |-> 0, at |-> 0]

\* Every worker has gone through its lifespan hook, which fills the caches.
Init ==
    /\ cacheEnabled \in Settings
    /\ now = 0
    /\ saved = [s \in Sources |-> 0]
    /\ supersededAt = [s \in Sources |-> [v \in Versions |-> 0]]
    /\ cached = [w \in Workers |-> [s \in Sources |-> 0]]
    /\ cachedAt = [w \in Workers |-> [s \in Sources |-> 0]]
    /\ refresh \in [step : {"idle"}, site : Workers \cup {Script}]
    /\ step = [r \in Requests |-> Idle]
    /\ rows = [r \in Requests |-> NoRows]
    /\ got = [r \in Requests |-> [s \in Sources |-> 0]]

-----------------------------------------------------------------------------
(* TimedCache *)

\* A mutant of Fresh: > for >=.
FreshOneLonger(w, s) == cacheEnabled /\ cached[w][s] # Empty /\ now - cachedAt[w][s] <= TTL

Fresh(w, s) == cacheEnabled /\ cached[w][s] # Empty /\ now - cachedAt[w][s] < TTL

-----------------------------------------------------------------------------
(* A request: SavingCatalogService.catalog reads the products, then the banks *)

\* A mutant of ReadOrder.
BanksFirst == <<"banks", "products">>

ReadOrder == <<"products", "banks">>

Then(s) == IF s = ReadOrder[1] THEN Getting(ReadOrder[2], "get") ELSE Answering

Begin(r) ==
    /\ step[r] = Idle
    /\ step' = [step EXCEPT ![r] = Getting(ReadOrder[1], "get")]
    /\ UNCHANGED <<now, database, caches, refresh, rows, got>>

Hit(r, s) ==
    /\ step[r] = Getting(s, "get")
    /\ Fresh(Home[r], s)
    /\ got' = [got EXCEPT ![r][s] = cached[Home[r]][s]]
    /\ step' = [step EXCEPT ![r] = Then(s)]
    /\ UNCHANGED <<now, database, caches, refresh, rows>>

Miss(r, s) ==
    /\ step[r] = Getting(s, "get")
    /\ ~Fresh(Home[r], s)
    /\ step' = [step EXCEPT ![r] = Getting(s, "query")]
    /\ UNCHANGED <<now, database, caches, refresh, rows, got>>

Read(r, s) ==
    /\ step[r] = Getting(s, "query")
    /\ rows' = [rows EXCEPT ![r] = [version |-> saved[s], at |-> now]]
    /\ step' = [step EXCEPT ![r] = Getting(s, "store")]
    /\ UNCHANGED <<now, database, caches, refresh, got>>

Store(r, s) ==
    /\ step[r] = Getting(s, "store")
    /\ IF cacheEnabled
         THEN /\ cached' = [cached EXCEPT ![Home[r]][s] = rows[r].version]
              /\ cachedAt' = [cachedAt EXCEPT ![Home[r]][s] = now]
         ELSE UNCHANGED <<cached, cachedAt>>
    /\ got' = [got EXCEPT ![r][s] = rows[r].version]
    /\ rows' = [rows EXCEPT ![r] = NoRows]
    /\ step' = [step EXCEPT ![r] = Then(s)]
    /\ UNCHANGED <<now, database, cacheEnabled, refresh>>

\* The response, or the ValueError of BanksVO.of.
Answer(r) ==
    /\ step[r] = Answering
    /\ step' = [step EXCEPT ![r] = Idle]
    /\ got' = [got EXCEPT ![r] = [s \in Sources |-> 0]]
    /\ UNCHANGED <<now, database, caches, refresh, rows>>

-----------------------------------------------------------------------------
(* SavingRefreshService.refresh, as far as the caches can tell *)

StartRefresh(site) ==
    /\ refresh.step = "idle"
    /\ saved["banks"] < MaxRefreshes
    /\ refresh' = [step |-> "save_banks", site |-> site]
    /\ UNCHANGED <<now, database, caches, requests>>

Commit(s, version) ==
    /\ saved' = [saved EXCEPT ![s] = version]
    /\ supersededAt' = [supersededAt EXCEPT ![s] =
                          [v \in Versions |-> IF v \in saved[s]..(version - 1) THEN now ELSE @[v]]]
    /\ UNCHANGED <<now, caches, requests>>

SaveBanks ==
    /\ refresh.step = "save_banks"
    /\ refresh' = [refresh EXCEPT !.step = "save_products"]
    /\ Commit("banks", saved["banks"] + 1)

\* A mutant of SaveProducts: the products are those of one refresh later.
SaveProductsAhead ==
    /\ refresh.step = "save_products"
    /\ refresh' = [refresh EXCEPT !.step = "clear"]
    /\ Commit("products", saved["banks"] + 1)

SaveProducts ==
    /\ refresh.step = "save_products"
    /\ refresh' = [refresh EXCEPT !.step = "clear"]
    /\ Commit("products", saved["banks"])

\* The three clear() calls have no await between them.
Clear ==
    /\ refresh.step = "clear"
    /\ refresh' = [refresh EXCEPT !.step = "idle"]
    /\ IF refresh.site = Script
         THEN UNCHANGED caches
         ELSE /\ cached' = [cached EXCEPT ![refresh.site] = [s \in Sources |-> Empty]]
              /\ cachedAt' = [cachedAt EXCEPT ![refresh.site] = [s \in Sources |-> 0]]
    /\ UNCHANGED <<cacheEnabled, now, database, requests>>

\* A worker that starts again has empty caches and none of its requests, and
\* its refresh, if it ran one, is over.
Restart(w) ==
    /\ cached' = [cached EXCEPT ![w] = [s \in Sources |-> Empty]]
    /\ step' = [r \in Requests |-> IF Home[r] = w THEN Idle ELSE step[r]]
    /\ rows' = [r \in Requests |-> IF Home[r] = w THEN NoRows ELSE rows[r]]
    /\ got' = [r \in Requests |-> IF Home[r] = w THEN [s \in Sources |-> 0] ELSE got[r]]
    /\ refresh' = IF refresh.site = w THEN [refresh EXCEPT !.step = "idle"] ELSE refresh
    /\ UNCHANGED <<cacheEnabled, now, database, cachedAt>>

\* A load takes MaxLoad seconds at most from its read to its store.
Tick ==
    /\ now < MaxTime
    /\ \A r \in Requests, s \in Sources :
          step[r] = Getting(s, "store") => now - rows[r].at < MaxLoad
    /\ now' = now + 1
    /\ UNCHANGED <<database, caches, refresh, requests>>

Request(r) ==
    \/ Begin(r) \/ Answer(r)
    \/ \E s \in Sources : Hit(r, s) \/ Miss(r, s) \/ Read(r, s) \/ Store(r, s)

Refresh ==
    \/ \E site \in Workers \cup {Script} : StartRefresh(site)
    \/ SaveBanks \/ SaveProducts \/ Clear

Next ==
    \/ \E r \in Requests : Request(r)
    \/ Refresh
    \/ \E w \in Workers : Restart(w)
    \/ Tick

Spec == Init /\ [][Next]_vars

-----------------------------------------------------------------------------
(* Properties *)

\* What a worker serves from its cache was the committed version less than TTL
\* plus one load ago: the load counts because store() takes the time of the
\* store and not of the read.
StaleAtMost ==
    \A w \in Workers, s \in Sources :
        Fresh(w, s) /\ cached[w][s] < saved[s] =>
            now - supersededAt[s][cached[w][s]] < TTL + MaxLoad

\* BanksVO.of finds the bank of every product of a response.
BankFound ==
    \A r \in Requests : step[r] = Answering => got[r]["products"] <= got[r]["banks"]

\* It does where CACHE_ENABLED is off: that a refresh saves the banks first and
\* a request reads them last is enough.
BankFoundUncached == ~cacheEnabled => BankFound

-----------------------------------------------------------------------------
(* What the steps keep true, and the proofs need *)

\* The banks are committed before the products that name them.
BanksFirstSaved ==
    /\ saved["products"] <= saved["banks"]
    /\ refresh.step = "save_banks" => saved["banks"] < MaxRefreshes

\* A cache entry was read while it was the committed version, at most MaxLoad
\* before its _cached_at.
EntriesRecent ==
    \A w \in Workers, s \in Sources : cached[w][s] # Empty =>
        /\ cached[w][s] <= saved[s]
        /\ cachedAt[w][s] <= now
        /\ cached[w][s] < saved[s] =>
               cachedAt[w][s] <= supersededAt[s][cached[w][s]] + MaxLoad

LoadsRecent ==
    \A r \in Requests, s \in Sources : step[r] = Getting(s, "store") =>
        /\ rows[r].version <= saved[s]
        /\ rows[r].at <= now
        /\ now <= rows[r].at + MaxLoad
        /\ rows[r].version < saved[s] => rows[r].at <= supersededAt[s][rows[r].version]

\* Without caches a request finds its banks at least as new as its products.
BanksKeepUp ==
    \A r \in Requests :
        /\ step[r] = Getting("products", "store") => rows[r].version <= saved["banks"]
        /\ step[r].at = "banks" => got[r]["products"] <= saved["banks"]
        /\ step[r] = Getting("banks", "store") => got[r]["products"] <= rows[r].version
=============================================================================
