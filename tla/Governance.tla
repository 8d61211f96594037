----------------------------- MODULE Governance -----------------------------
(***************************************************************************)
(* The governance layer as the REST routes compose it                      *)
(* (src/api/routes/governance.py, src/governance/context.py): the          *)
(* constraint registries and resolver, the monitoring side, the pool       *)
(* builder (src/governance/pool) and the context assembled from them.      *)
(***************************************************************************)
EXTENDS Constraints, Monitoring

CONSTANTS
  Universes,    \* contents of config/universe/base_universe.yml
  FilterSets,   \* contents of config/filters/structural_filters.yml
  PoolRequests  \* bodies of POST /governance/pool

VARIABLES
  pool,     \* _current_pool, with the inputs it was built from
  context   \* the GovernanceContext answered last

gvars == <<pool, context>>
vars == <<cvars, mvars, gvars>>
-----------------------------------------------------------------------------
(* Structural filters *)

FilterOrder == <<"exclude_state_owned_ratio_gte", "exclude_dividend_yield_gte",
                 "min_avg_dollar_volume", "exclude_sectors", "min_market_cap",
                 "min_price", "max_price">>

\* What the models of the files and of the request allow (pool/models.py, the
\* route's request model): symbols can be sorted, a filter is one of the seven,
\* the hypotheses are listed.
ASSUME PoolAssumption ==
  /\ \A u \in Universes : u \in Seq(Range(u)) /\ \A sd \in Range(u) : sd.symbol \in Int
  /\ \A f \in FilterSets : DOMAIN f \subseteq Range(FilterOrder)
  /\ \A q \in PoolRequests : /\ q.deny \in Seq(Range(q.deny)) /\ q.allow \in Seq(Range(q.allow))
                            /\ q.bias \in Seq(Range(q.bias))

\* Whether filter k with limit x excludes the symbol.
Excludes(k, x, sd) ==
  CASE k = "exclude_state_owned_ratio_gte" -> sd.state_owned_ratio >= x
    [] k = "exclude_dividend_yield_gte" -> sd.dividend_yield >= x
    [] k = "min_avg_dollar_volume" -> sd.avg_dollar_volume < x
    [] k = "exclude_sectors" -> sd.sector \in x
    [] k = "min_market_cap" -> sd.market_cap < x
    [] k = "min_price" -> sd.price < x
    [] k = "max_price" -> sd.price > x

\* _check_filters: the filters that are set and exclude the symbol, in order;
\* the first one is the reason.
FailedFilters(sd, filters) ==
  Kept(FilterOrder, {i \in DOMAIN FilterOrder :
                       /\ FilterOrder[i] \in DOMAIN filters
                       /\ Excludes(FilterOrder[i], filters[FilterOrder[i]], sd)})
-----------------------------------------------------------------------------
(* PoolBuilder *)

\* Faulty: the status of a hypothesis is not looked at.
ListedAnyStatus(ids, hs) ==
  LET found == Kept(ids, {i \in DOMAIN ids : \E y \in hs : y.id = ids[i]})
  IN [i \in DOMAIN found |-> CHOOSE y \in hs : y.id = found[i]]

\* The listed hypotheses that exist and are ACTIVE, in the order listed.
Listed(ids, hs) ==
  LET found == Kept(ids, {i \in DOMAIN ids :
                            \E y \in hs : y.id = ids[i] /\ y.status = "ACTIVE"})
  IN [i \in DOMAIN found |-> CHOOSE y \in hs : y.id = found[i]]

\* The hypothesis a symbol or sector is filed under: of several, the last one.
FiledUnder(list, field, x) ==
  LET naming == {i \in DOMAIN list : x \in list[i][field]}
  IN IF naming = {} THEN None ELSE list[Max(naming)].id

\* An allowlist that names nothing does not restrict.
Restricts(allow) ==
  \E i \in DOMAIN allow : allow[i].symbols # {} \/ allow[i].sectors # {}

AllowedBy(allow, sd) ==
  \E i \in DOMAIN allow : sd.symbol \in allow[i].symbols \/ sd.sector \in allow[i].sectors

\* Faulty: the allowlist filter leaves no entry for what it bars.
TrailForgetsBarred(filtered, denied, barred, favoured, final) ==
  filtered \o denied \o favoured \o final

\* The audit trail: exclusions by filter, denylist and allowlist, then the
\* prioritized symbols, then the included ones.
Trail(filtered, denied, barred, favoured, final) ==
  filtered \o denied \o barred \o favoured \o final

Entry(sd, action, source) == [symbol |-> sd.symbol, action |-> action, source |-> source]

\* sorted() by symbol, which is stable.
BySymbol(list) ==
  AtIndices(list, InOrder(DOMAIN list,
    {p \in (DOMAIN list) \X (DOMAIN list) :
       \/ list[p[1]].symbol < list[p[2]].symbol
       \/ list[p[1]].symbol = list[p[2]].symbol /\ p[1] <= p[2]}))

\* build(): structural filters, denylist, allowlist, sort, bias, audit trail.
\* The version is a hash of the inputs, and of the hypotheses' ids only.
Build(universe, filters, req, hs) ==
  LET deny == Listed(req.deny, hs)
      allow == Listed(req.allow, hs)
      bias == Listed(req.bias, hs)
      pass == {i \in DOMAIN universe : FailedFilters(universe[i], filters) = <<>>}
      passed == Kept(universe, pass)
      filtered == Kept(universe, DOMAIN universe \ pass)
      deniable == {i \in DOMAIN passed : FiledUnder(deny, "symbols", passed[i].symbol) # None}
      undenied == Kept(passed, DOMAIN passed \ deniable)
      denied == Kept(passed, deniable)
      bar == {i \in DOMAIN undenied : Restricts(allow) /\ ~AllowedBy(allow, undenied[i])}
      final == BySymbol(Kept(undenied, DOMAIN undenied \ bar))
      barred == Kept(undenied, bar)
      favoured == Kept(final, {i \in DOMAIN final :
                    req.multiplier # 1 /\ FiledUnder(bias, "sectors", final[i].sector) # None})
      entries(list, action, Source(_)) ==
        [i \in DOMAIN list |-> Entry(list[i], action, Source(list[i]))]
  IN [symbols |-> [i \in DOMAIN final |-> final[i].symbol],
      weights |-> [s \in {favoured[i].symbol : i \in DOMAIN favoured} |-> req.multiplier],
      version |-> <<universe, filters, req>>,
      trail |-> Trail(
        entries(filtered, "excluded", LAMBDA sd : Head(FailedFilters(sd, filters))),
        entries(denied, "excluded", LAMBDA sd : FiledUnder(deny, "symbols", sd.symbol)),
        entries(barred, "excluded", LAMBDA sd : allow[1].id),
        entries(favoured, "prioritized", LAMBDA sd : FiledUnder(bias, "sectors", sd.sector)),
        entries(final, "included", LAMBDA sd : "pool_builder")),
      hyps |-> hs]
-----------------------------------------------------------------------------
GInit == pool = None /\ context = None

\* POST /governance/pool: the builder is created with the hypothesis registry
\* on first use, which may raise; an empty universe or pool is a 400 and
\* leaves the current pool.
RebuildPool ==
  /\ hreg' = GetHypotheses
  /\ LET raised == ~hreg.created /\ hypDir # Missing /\ Load(hypDir, {}).raised
     IN \E u \in Universes, f \in FilterSets, q \in PoolRequests :
          LET p == Build(u, f, q, hreg'.hyps)
          IN pool' = IF raised \/ p.symbols = <<>> THEN pool ELSE p
  /\ UNCHANGED <<ruleDir, hypDir, reg, cache, epoch, reader, edits, context, mvars>>

Defaults == [budget |-> 1, veto |-> FALSE, stop |-> "baseline"]

\* GET /governance/context/{symbol}: each part that raises is answered with
\* its default.
BuildContext(s) ==
  LET o == Opened
      r == Resolve(o.rules.rules, o.hyps.hyps, s)
  IN /\ reg' = o.rules
     /\ hreg' = o.hyps
     /\ regime' = Detected
     /\ context' = [symbol |-> s, regime |-> RegimeState,
                    limits |-> IF o.ok THEN [budget |-> r.budget, veto |-> r.veto,
                                             stop |-> r.stop]
                                       ELSE Defaults,
                    active |-> IF pool = None THEN <<>> ELSE pool.symbols]
     /\ UNCHANGED <<ruleDir, hypDir, cache, epoch, reader, edits, pool,
                    metric, store, alerts, runs, factor, condemned, checking>>
-----------------------------------------------------------------------------
GovInit == CInit /\ MInit /\ GInit

GovNext ==
  \/ CNext /\ UNCHANGED <<mvars, gvars>>
  \/ MNext /\ UNCHANGED <<cvars, gvars>>
  \/ RebuildPool
  \/ \E s \in Symbols : BuildContext(s)

\* Redis expires entries by itself.  Nothing else is sure to happen: a call may
\* wait for Redis for ever.
Fairness == WF_vars(Tick /\ UNCHANGED <<mvars, gvars>>)

Spec == GovInit /\ [][GovNext]_vars /\ Fairness
-----------------------------------------------------------------------------
(* Properties *)

TypeOK ==
  /\ reg.created \in BOOLEAN /\ reg.loaded \in BOOLEAN /\ reg.byHand \in BOOLEAN
  /\ reg.loaded => reg.created
  /\ \A s \in Symbols : cache[s] # None => cache[s].left \in 1 .. TTL
  /\ \A r \in Readers : reader[r].at \in {"idle", "get", "set"}
  /\ epoch \in [Symbols -> 0 .. MaxInvalidations]
  /\ \A f \in Factors : factor[f].status \in {"NONE", "enabled", "disabled", "review"}
  /\ condemned \subseteq Registered
  /\ regime.state \in {NoValue, "NORMAL", "TRANSITION", "STRESS"}

\* A constraint registry that answers was filled from a whole directory: a load
\* that raises half way leaves what it had entered (registry.py:118, :247), and
\* no call may be answered from that part.
WholeRegistry ==
  reg.loaded => /\ reg.whole # None
                /\ reg.byHand \/ reg.rules = Range(reg.whole)

\* What the cache answers was resolved after the last invalidation of its
\* symbol: once invalidate_cache or invalidate_all_cache has returned, nothing
\* resolved before it comes back.
InvalidationSticks ==
  \A s \in Symbols : cache[s] # None => cache[s].epoch = epoch[s]

\* Nobody invalidates the cache when files or registries change, so the TTL
\* has to: when the changes stop, every cached answer is in the end the one
\* resolving would give, however often it is read (cache.py:117, ex=ttl).
CacheCatchesUp ==
  <>[](\A s \in Symbols : cache[s] # None => cache[s].value = Current(s))

\* The merge the resolver computes in one pass over the sorted rules is the
\* one the rules call for: the strictest stop mode and guardrails of all active
\* rules, a veto if any asks for one, every action once and rules of higher
\* priority first (resolver.py:337).
MergeIsStrictest ==
  \A s \in Symbols :
    LET res == Current(s)
        act == {r \in reg.rules : /\ r.on = {} \/ s \in r.on
                                  /\ r.needs \subseteq {h.id : h \in {x \in hreg.hyps : x.status = "ACTIVE"}}}
        rule(a) == CHOOSE r \in act : r.id = a.rule
    IN /\ \A r \in act :
            /\ "stop_mode" \in DOMAIN r.acts =>
                 Restrictiveness[r.acts.stop_mode] <= Restrictiveness[res.stop]
            /\ \A k \in DOMAIN r.rails : res.rails[k] <= r.rails[k]
            /\ \A k \in DOMAIN r.acts :
                 \E a \in Range(res.actions) : a.rule = r.id /\ a.kind = k /\ a.value = r.acts[k]
       /\ res.stop # "baseline" => \E r \in act : "stop_mode" \in DOMAIN r.acts /\ r.acts.stop_mode = res.stop
       /\ \A k \in DOMAIN res.rails : \E r \in act : k \in DOMAIN r.rails /\ r.rails[k] = res.rails[k]
       /\ res.veto <=> \E r \in act : "veto_downgrade" \in DOMAIN r.acts /\ r.acts.veto_downgrade
       /\ \A a \in Range(res.actions) : \E r \in act : a.rule = r.id /\ a.kind \in DOMAIN r.acts
       /\ \A i, j \in DOMAIN res.actions :
            LET a == res.actions[i]
                b == res.actions[j]
            IN /\ <<a.rule, a.kind>> = <<b.rule, b.kind>> => i = j
               /\ i <= j => rule(a).prio <= rule(b).prio

\* The pool holds exactly the symbols of the universe that no filter excludes,
\* that no active denylist hypothesis names and that the active allowlist, if it
\* names anything, admits; a symbol both allowed and denied is out
\* (builder.py:78).
PoolAsRequested ==
  pool # None =>
    LET u == pool.version[1]
        f == pool.version[2]
        q == pool.version[3]
        live(ids) == {h \in pool.hyps : h.id \in Range(ids) /\ h.status = "ACTIVE"}
        restricted == \E h \in live(q.allow) : h.symbols # {} \/ h.sectors # {}
        in(sd) == /\ \A k \in DOMAIN f : ~Excludes(k, f[k], sd)
                  /\ \A h \in live(q.deny) : sd.symbol \notin h.symbols
                  /\ restricted => \E h \in live(q.allow) :
                                      sd.symbol \in h.symbols \/ sd.sector \in h.sectors
    IN /\ Range(pool.symbols) = {sd.symbol : sd \in {x \in Range(u) : in(x)}}
       /\ \A i \in 2 .. Len(pool.symbols) : pool.symbols[i - 1] <= pool.symbols[i]

\* The audit trail explains every symbol of the universe exactly as often as the
\* universe lists it: with one verdict, included or excluded; and only included
\* symbols are prioritized and weighted.
VerdictPerSymbol ==
  pool # None =>
    LET u == pool.version[1]
        verdicts(s) == {i \in DOMAIN pool.trail : /\ pool.trail[i].symbol = s
                                                 /\ pool.trail[i].action # "prioritized"}
        included == {pool.trail[i].symbol : i \in {j \in DOMAIN pool.trail : pool.trail[j].action = "included"}}
        prioritized == {pool.trail[i].symbol : i \in {j \in DOMAIN pool.trail : pool.trail[j].action = "prioritized"}}
    IN /\ \A sd \in Range(u) : Cardinality(verdicts(sd.symbol))
                               = Cardinality({i \in DOMAIN u : u[i].symbol = sd.symbol})
       /\ included = Range(pool.symbols)
       /\ prioritized = DOMAIN pool.weights
       /\ prioritized \subseteq included

\* Every falsifier a scheduled run found triggered has its alert, in the order
\* of the checks and with the severity of its trigger, whatever the handlers do;
\* a check made by request raises none (scheduler.py:71, alerts.py:60).
AlertsMatchAudit ==
  LET due == Kept(store, {i \in DOMAIN store :
                            store[i].event = "triggered" /\ store[i].by = "scheduler"})
  IN /\ Len(alerts) = Len(due)
     /\ \A i \in DOMAIN alerts :
          /\ <<alerts[i].hyp, alerts[i].index>> = <<due[i].hyp, due[i].index>>
          /\ (alerts[i].severity = "critical") <=> (due[i].action = "sunset")
          /\ alerts[i].delivered <=> alerts[i].taken # {}

\* A factor that a health check has condemned is not used again until somebody
\* enables it or registers it anew, whatever later checks and reviews do to its
\* status (registry.py:347).
FactorStaysOut == condemned \intersect GetEnabled = {}

\* Governance answers from whole registries, lets no invalidation be undone by a
\* reader that was under way, merges to the strictest, and keeps pool, alerts and
\* factors in step with the records behind them: each part is stated above.
GovernanceSound ==
  /\ TypeOK /\ WholeRegistry /\ InvalidationSticks /\ MergeIsStrictest
  /\ PoolAsRequested /\ VerdictPerSymbol
  /\ AlertsMatchAudit /\ FactorStaysOut
=============================================================================
