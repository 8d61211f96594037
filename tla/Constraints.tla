---------------------------- MODULE Constraints ----------------------------
(***************************************************************************)
(* The constraint side of the governance layer (src/governance/constraints *)
(* and src/governance/hypothesis): two registries filled from directories  *)
(* of YAML files, the resolver that merges the active constraints of a     *)
(* symbol, and the Redis cache in front of it.                             *)
(*                                                                         *)
(* A directory is the sequence of its parsed files, Broken (one file does  *)
(* not parse or validate) or Missing.  A rule (Constraint) carries partial *)
(* functions for its actions and guardrails: a field left None in the code *)
(* is outside the domain.  Rule ids are numbers, ordered as their texts.   *)
(***************************************************************************)
EXTENDS Arrangements, Naturals, Sequences, FiniteSets, SequencesExt, FiniteSetsExt

CONSTANTS
  Symbols,          \* symbols asked about
  RuleDirs,         \* contents config/constraints may have
  HypDirs,          \* contents config/hypotheses may have
  NewRules,         \* rules that register() may be given
  Readers,          \* concurrent resolve_async calls
  TTL,              \* lifetime of a cached value, in ticks (DEFAULT_TTL)
  MaxEdits,         \* bound on changes to the directories and registries
  MaxInvalidations, \* bound on cache invalidations
  Anomalies,        \* which of the four anomalies below may happen
  Broken, Missing, None

\* "overlap": the cache is invalidated while a resolved value awaits cache.set;
\* "torn": reload() is called on a loaded registry when the files do not load;
\* "claim": register() is called on a registry whose load failed;
\* "leftover": after a load that failed half way, the files are replaced by others that
\* have none of the ids it had entered, so that the next load adds to what was left.

ASSUME TTLAssumption == TTL \in Nat \ {0}
ASSUME AnomaliesAssumption == Anomalies \subseteq {"overlap", "torn", "claim", "leftover"}
ASSUME DirsAssumption ==
  /\ None # <<>> /\ None \notin RuleDirs
  /\ \A d \in RuleDirs \ {Broken, Missing} : d \in Seq(Range(d))
ASSUME BoundsAssumption == MaxEdits \in Nat /\ MaxInvalidations \in Nat

VARIABLES
  ruleDir,   \* config/constraints as it is on disk
  hypDir,    \* config/hypotheses as it is on disk
  reg,       \* ConstraintRegistry: created, _loaded, _constraints; and, for
             \* the properties, the directory last loaded whole and whether
             \* register or unregister changed it since
  hreg,      \* HypothesisRegistry: created, _hypotheses
  cache,     \* [Symbols -> None or an entry]
  epoch,     \* [Symbols -> number of invalidations so far]
  reader,    \* [Readers -> state of a resolve_async call]
  edits      \* changes made so far

cvars == <<ruleDir, hypDir, reg, hreg, cache, epoch, reader, edits>>
-----------------------------------------------------------------------------
(* Loading *)

Ids(rs) == {r.id : r \in rs}

\* The loop "if id in self._constraints: raise; self._constraints[id] = c"
\* over the files, starting from what the dict holds.
Insert(files, have) ==
  LET dup == {i \in DOMAIN files : \/ files[i].id \in Ids(have)
                                   \/ \E j \in 1 .. i - 1 : files[j].id = files[i].id}
      n == IF dup = {} THEN Len(files) ELSE Min(dup) - 1
  IN [raised |-> dup # {}, items |-> have \union {files[i] : i \in 1 .. n}]

\* One load of a directory into the items a registry holds: the files are all
\* read before the first one is entered.
Load(dir, have) ==
  IF dir \in {Broken, Missing} THEN [raised |-> TRUE, items |-> have]
                               ELSE Insert(dir, have)

\* reload(): clear, load, mark as loaded.
ReloadRules ==
  LET l == Load(ruleDir, {})
  IN [reg EXCEPT !.created = TRUE, !.rules = l.items,
                 !.loaded = @ \/ ~l.raised,
                 !.whole = IF l.raised THEN None ELSE ruleDir,
                 !.byHand = FALSE]

\* Faulty: any failure of the first load is taken for a missing directory.
GetRulesSwallows ==
  IF reg.created THEN reg ELSE [ReloadRules EXCEPT !.loaded = TRUE,
                                !.whole = IF ruleDir = Missing THEN <<>> ELSE @]

\* get_constraint_registry(): created and reloaded on first use; a missing
\* directory counts as loaded, any other failure reaches the caller.
GetRules ==
  IF reg.created THEN reg
  ELSE IF ruleDir = Missing
       THEN [reg EXCEPT !.created = TRUE, !.loaded = TRUE, !.whole = <<>>]
       ELSE ReloadRules

\* get_hypothesis_registry(): the same, but with no lazy load afterwards, so
\* what a failed reload left is what later calls see.
GetHypotheses ==
  IF hreg.created THEN hreg
  ELSE [created |-> TRUE, hyps |-> Load(hypDir, {}).items]

\* _ensure_loaded() on a registry g.
EnsureLoaded(g) ==
  IF g.loaded THEN g
  ELSE LET l == Load(ruleDir, g.rules)
       IN [g EXCEPT !.rules = l.items, !.loaded = ~l.raised,
                    !.whole = IF l.raised THEN @ ELSE ruleDir]

\* What a call that resolves constraints leaves of the two registries, and
\* whether it got as far as resolving: the rules are created first, then the
\* hypotheses, then the rules are loaded if they are not.
Opened ==
  LET first == GetRules
      failedFirst == ~reg.created /\ ~first.loaded
      failedHyps == ~hreg.created /\ hypDir # Missing /\ Load(hypDir, {}).raised
      second == EnsureLoaded(first)
  IN CASE failedFirst -> [ok |-> FALSE, rules |-> first, hyps |-> hreg]
       [] ~failedFirst /\ failedHyps ->
            [ok |-> FALSE, rules |-> first, hyps |-> GetHypotheses]
       [] OTHER -> [ok |-> second.loaded, rules |-> second, hyps |-> GetHypotheses]
-----------------------------------------------------------------------------
(* Resolving *)

ActionKinds == <<"enable_strategy", "pool_bias_multiplier", "veto_downgrade",
                 "risk_budget_multiplier", "holding_extension_days",
                 "add_position_cap_multiplier", "stop_mode">>

Restrictiveness == [baseline |-> 0, wide |-> 1, fundamental_guarded |-> 2]

\* The models the files are validated against (constraints/models.py,
\* hypothesis/models.py) give each field its type.
FileContents(dirs) == UNION {Range(d) : d \in dirs \ {Broken, Missing}}

ASSUME RulesAssumption ==
  \A r \in FileContents(RuleDirs) \union NewRules :
    /\ r.id \in Int /\ r.prio \in Int
    /\ DOMAIN r.acts \subseteq Range(ActionKinds)
    /\ "stop_mode" \in DOMAIN r.acts => r.acts.stop_mode \in DOMAIN Restrictiveness
    /\ "veto_downgrade" \in DOMAIN r.acts => r.acts.veto_downgrade \in BOOLEAN
    /\ \A k \in DOMAIN r.rails : r.rails[k] \in Int
ASSUME HypothesesAssumption ==
  /\ \A d \in HypDirs \ {Broken, Missing} : d \in Seq(Range(d))
  /\ \A h \in FileContents(HypDirs) : h.id # None

\* A rule acts when every hypothesis it requires exists and is ACTIVE.
IsConstraintActive(r, hs) ==
  \A h \in r.needs : \E y \in hs : y.id = h /\ y.status = "ACTIVE"

FilterBySymbol(rs, s) == {r \in rs : r.on = {} \/ s \in r.on}

\* The active rules of a symbol, sorted by (priority, id).
ActiveInOrder(rs, hs, s) ==
  LET active == {r \in FilterBySymbol(rs, s) : IsConstraintActive(r, hs)}
  IN InOrder(active, {p \in active \X active :
                        \/ p[1].prio < p[2].prio
                        \/ p[1].prio = p[2].prio /\ p[1].id <= p[2].id})

\* _extract_actions: one entry for each action field that is set.
ExtractActions(r) ==
  LET set == Kept(ActionKinds, {i \in DOMAIN ActionKinds : ActionKinds[i] \in DOMAIN r.acts})
  IN [i \in DOMAIN set |-> [rule |-> r.id, kind |-> set[i], value |-> r.acts[set[i]]]]

\* The values one action field has, in the order of the rules.
ValuesOf(rules, k) ==
  LET set == Kept(rules, {i \in DOMAIN rules : k \in DOMAIN rules[i].acts})
  IN [i \in DOMAIN set |-> set[i].acts[k]]

Product(vals) == FoldLeft(LAMBDA acc, v : acc * v, 1, vals)

\* Faulty: the last rule decides the stop mode.
LastMode(modes) == IF modes = <<>> THEN "baseline" ELSE Last(modes)

MostRestrictive(modes) ==
  IF modes = <<>> THEN "baseline"
  ELSE FoldLeft(LAMBDA best, m :
                  IF Restrictiveness[m] > Restrictiveness[best] THEN m ELSE best,
                Head(modes), Tail(modes))

MergeGuardrails(rules) ==
  LET all == {rules[i].rails : i \in DOMAIN rules}
      limits == UNION {DOMAIN g : g \in all}
  IN [k \in limits |-> Min({g[k] : g \in {x \in all : k \in DOMAIN x}})]

\* ResolvedConstraints: the version hash is a function of the rule ids alone.
Resolve(rs, hs, s) ==
  LET active == ActiveInOrder(rs, hs, s)
  IN [actions |-> FlattenSeq([i \in DOMAIN active |-> ExtractActions(active[i])]),
      version |-> {active[i].id : i \in DOMAIN active},
      budget |-> Product(ValuesOf(active, "risk_budget_multiplier")),
      bias |-> Product(ValuesOf(active, "pool_bias_multiplier")),
      stop |-> MostRestrictive(ValuesOf(active, "stop_mode")),
      veto |-> TRUE \in Range(ValuesOf(active, "veto_downgrade")),
      rails |-> MergeGuardrails(active)]

\* What resolve() answers with the registries as they are in memory.
Current(s) == Resolve(reg.rules, hreg.hyps, s)
-----------------------------------------------------------------------------
Idle == [at |-> "idle"]

CInit ==
  /\ ruleDir \in RuleDirs
  /\ hypDir \in HypDirs
  /\ reg = [created |-> FALSE, loaded |-> FALSE, rules |-> {},
            whole |-> None, byHand |-> FALSE]
  /\ hreg = [created |-> FALSE, hyps |-> {}]
  /\ cache = [s \in Symbols |-> None]
  /\ epoch = [s \in Symbols |-> 0]
  /\ reader = [r \in Readers |-> Idle]
  /\ edits = 0

Edit == edits < MaxEdits /\ edits' = edits + 1

\* What a lazy load that failed has left may be added to by the next one.
Mixes(dir) == ~reg.loaded /\ reg.rules # {} /\ ~Load(dir, reg.rules).raised

\* Somebody edits the YAML files; no code watches them.
EditFiles ==
  /\ Edit
  /\ \/ /\ ruleDir' \in RuleDirs \ {ruleDir}
        /\ Mixes(ruleDir') => "leftover" \in Anomalies
        /\ UNCHANGED hypDir
     \/ /\ hypDir' \in HypDirs \ {hypDir}
        /\ UNCHANGED ruleDir
  /\ UNCHANGED <<reg, hreg, cache, epoch, reader>>

\* ConstraintRegistry.reload() and HypothesisRegistry.reload(), which clear the
\* dict before they load and leave what they had entered when they raise.
Reload ==
  /\ Edit
  /\ \/ /\ reg.created
        /\ reg.loaded /\ ReloadRules.whole = None => "torn" \in Anomalies
        /\ reg' = ReloadRules
        /\ UNCHANGED hreg
     \/ /\ hreg.created
        /\ hreg' = [hreg EXCEPT !.hyps = Load(hypDir, {}).items]
        /\ UNCHANGED reg
  /\ UNCHANGED <<ruleDir, hypDir, cache, epoch, reader>>

\* register() marks the registry as loaded before it looks for a duplicate.
Register ==
  /\ Edit
  /\ reg.created
  /\ reg.loaded \/ "claim" \in Anomalies
  /\ \E r \in NewRules :
       LET l == Insert(<<r>>, reg.rules)
       IN reg' = [reg EXCEPT !.loaded = TRUE, !.rules = l.items, !.byHand = TRUE]
  /\ UNCHANGED <<ruleDir, hypDir, hreg, cache, epoch, reader>>

\* unregister() loads the registry first; nothing happens when that raises.
Unregister ==
  /\ Edit
  /\ reg.created
  /\ LET g == EnsureLoaded(reg)
     IN IF ~g.loaded THEN reg' = g
        ELSE \E r \in g.rules :
               reg' = [g EXCEPT !.rules = @ \ {r}, !.byHand = TRUE]
  /\ UNCHANGED <<ruleDir, hypDir, hreg, cache, epoch, reader>>

\* Resolving a symbol without the cache (the REST route): only the registries
\* change, by being created and loaded.
ResolveNow ==
  /\ reg' = Opened.rules
  /\ hreg' = Opened.hyps
  /\ UNCHANGED <<ruleDir, hypDir, cache, epoch, reader, edits>>

\* Listing constraints or hypotheses creates and loads their registry.
Browse ==
  \/ /\ reg' = IF reg.created THEN EnsureLoaded(reg) ELSE GetRules
     /\ UNCHANGED <<ruleDir, hypDir, hreg, cache, epoch, reader, edits>>
  \/ /\ hreg' = GetHypotheses
     /\ UNCHANGED <<ruleDir, hypDir, reg, cache, epoch, reader, edits>>

\* resolve_async(): a call starts by awaiting cache.get.
StartResolve(r, s) ==
  /\ reader[r] = Idle
  /\ reader' = [reader EXCEPT ![r] = [at |-> "get", sym |-> s]]
  /\ UNCHANGED <<ruleDir, hypDir, reg, hreg, cache, epoch, edits>>

\* Faulty: reading a value renews its lifetime.
CacheHitRenews(r) ==
  /\ reader[r].at = "get"
  /\ cache[reader[r].sym] # None
  /\ reader' = [reader EXCEPT ![r] = Idle]
  /\ cache' = [cache EXCEPT ![reader[r].sym].left = TTL]
  /\ UNCHANGED <<ruleDir, hypDir, reg, hreg, epoch, edits>>

\* The cached value answers the call.
CacheHit(r) ==
  /\ reader[r].at = "get"
  /\ cache[reader[r].sym] # None
  /\ reader' = [reader EXCEPT ![r] = Idle]
  /\ UNCHANGED <<ruleDir, hypDir, reg, hreg, cache, epoch, edits>>

\* A miss: the symbol is resolved (no await inside) and cache.set is awaited;
\* when resolving raises, so does the call.
CacheMiss(r) ==
  /\ reader[r].at = "get"
  /\ cache[reader[r].sym] = None
  /\ LET o == Opened
         s == reader[r].sym
     IN /\ reg' = o.rules
        /\ hreg' = o.hyps
        /\ reader' = [reader EXCEPT ![r] =
             IF ~o.ok THEN Idle
             ELSE [at |-> "set", sym |-> s, epoch |-> epoch[s],
                   value |-> Resolve(o.rules.rules, o.hyps.hyps, s)]]
  /\ UNCHANGED <<ruleDir, hypDir, cache, epoch, edits>>

\* cache.set reaches Redis with ex=ttl.
CacheSet(r) ==
  /\ reader[r].at = "set"
  /\ cache' = [cache EXCEPT ![reader[r].sym] =
                 [value |-> reader[r].value, left |-> TTL, epoch |-> reader[r].epoch]]
  /\ reader' = [reader EXCEPT ![r] = Idle]
  /\ UNCHANGED <<ruleDir, hypDir, reg, hreg, epoch, edits>>

\* Redis is unreachable: cache.get or cache.set raises out of resolve_async.
RedisFails(r) ==
  /\ reader[r] # Idle
  /\ reader' = [reader EXCEPT ![r] = Idle]
  /\ UNCHANGED <<ruleDir, hypDir, reg, hreg, cache, epoch, edits>>

\* Faulty: the pattern of the scan does not match the keys that were set.
InvalidateMisses ==
  /\ \A s \in Symbols : epoch[s] < MaxInvalidations
  /\ "overlap" \in Anomalies \/ \A r \in Readers : reader[r].at # "set"
  /\ epoch' = [s \in Symbols |-> epoch[s] + 1]
  /\ UNCHANGED <<ruleDir, hypDir, reg, hreg, cache, reader, edits>>

\* invalidate_cache(symbol) and invalidate_all_cache().
Invalidate ==
  /\ \A s \in Symbols : epoch[s] < MaxInvalidations
  /\ "overlap" \in Anomalies \/ \A r \in Readers : reader[r].at # "set"
  /\ \E ss \in {{s} : s \in Symbols} \union {Symbols} :
       /\ cache' = [s \in Symbols |-> IF s \in ss THEN None ELSE cache[s]]
       /\ epoch' = [s \in Symbols |-> IF s \in ss THEN epoch[s] + 1 ELSE epoch[s]]
  /\ UNCHANGED <<ruleDir, hypDir, reg, hreg, reader, edits>>

\* Faulty: an entry outlives its time by a tick.
AgedLate(e) == IF e = None \/ e.left = 0 THEN None ELSE [e EXCEPT !.left = @ - 1]

\* A tick of Redis' clock: entries whose time has run out disappear.
Aged(e) == IF e = None \/ e.left = 1 THEN None ELSE [e EXCEPT !.left = @ - 1]

Tick ==
  /\ \E s \in Symbols : cache[s] # None
  /\ cache' = [s \in Symbols |-> Aged(cache[s])]
  /\ UNCHANGED <<ruleDir, hypDir, reg, hreg, epoch, reader, edits>>

ReaderStep(r) == CacheHit(r) \/ CacheMiss(r) \/ CacheSet(r)

CNext ==
  \/ EditFiles \/ Reload \/ Register \/ Unregister \/ ResolveNow \/ Browse
  \/ Invalidate \/ Tick
  \/ \E r \in Readers : \/ \E s \in Symbols : StartResolve(r, s)
                        \/ ReaderStep(r)
                        \/ RedisFails(r)
=============================================================================
