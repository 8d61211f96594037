------------------------------- MODULE Agents -------------------------------
(***************************************************************************)
(* The agents (src/agents): POST /api/agents/invoke hands a task to        *)
(* AgentDispatcher, which runs it in a process of its own (runner.py, which*)
(* runs a language model's command line) and saves what came of it; and    *)
(* the tools by which an agent leaves a risk bias, a sentiment or an event *)
(* in Redis, where the trading side reads them.                            *)
(*                                                                         *)
(* The invocation route calls the dispatcher without leaving the event     *)
(* loop, so one server handles one task at a time and does nothing else    *)
(* meanwhile; the processes it started go on by themselves.                *)
(***************************************************************************)
EXTENDS Integers, FiniteSets

CONSTANTS
  Tasks,      \* the tasks that are submitted
  Roles,      \* AgentRole
  Permitted,  \* the roles of the permission table the dispatcher checks
  Grants,     \* role -> permissions, what a BaseAgent's checker grants
  Keys,       \* the Redis keys agents write in this instance
  Biases,     \* values an agent tries to write, percent; some out of range
  VixLevels,  \* readings of the VIX
  Drawdowns,  \* drawdowns, percent
  None

ASSUME AgentsAssumption ==
  /\ Permitted \subseteq Roles
  /\ DOMAIN Grants = Roles
  /\ Keys \subseteq {"risk_bias", "sentiment", "events"} /\ "risk_bias" \in Keys
  /\ Biases \subseteq Nat /\ VixLevels \subseteq Nat /\ Drawdowns \subseteq Int

\* DEFAULT_PERMISSIONS lets the risk controller alone write the bias, and nobody every key.
ASSUME GrantsAssumption ==
  \A r \in Roles : /\ "redis:risk_bias" \in Grants[r] => r = "risk_controller"
                   /\ "redis:*" \notin Grants[r]

\* None is no entry and no regime.
ASSUME NoneAssumption ==
  /\ None \notin [value : Nat, ttl : BOOLEAN, by : Roles]
  /\ None \notin {"low", "normal", "elevated", "high", "extreme"}

VARIABLES
  closedPipe, \* communicate() raises on the standard input the dispatcher
              \* closed (CPython 3.11 to 3.13), or ignores it
  task,       \* task -> its place in dispatch and its AgentResult
  proc,       \* task -> the runner process and the model's process below it
  results,    \* the tasks whose record is in agent_results
  checker,    \* the permission checker the agents were built with
  toolbox,    \* role -> names of the tools registered
  store,      \* Redis key -> entry
  market,     \* what assess_risk is given
  assessed    \* the assessment last made

dvars == <<closedPipe, task, proc, results>>
tvars == <<checker, toolbox, store>>
rvars == <<market, assessed>>
vars == <<dvars, tvars, rvars>>

-----------------------------------------------------------------------------
(* Dispatch of a task.                                                     *)

NoProcess == [runner |-> "none", code |-> 0, out |-> "", model |-> "none"]
Incomplete == [success |-> FALSE, error |-> ""]
Answered == [success |-> TRUE, error |-> ""]
Failed(why) == [success |-> FALSE, error |-> why]

Idle == \A t \in Tasks : task[t].at \notin {"waiting", "saving"}

CanExecute(role) == role \in Permitted

Invoke(t, role) ==
  /\ task[t].at = "new" /\ Idle
  /\ \/ /\ ~CanExecute(role)
        /\ task' = [task EXCEPT ![t] = [at |-> "saving", role |-> role,
                                        record |-> Failed("denied")]]
        /\ UNCHANGED proc
     \/ /\ CanExecute(role)
        /\ task' = [task EXCEPT ![t] = [at |-> "waiting", role |-> role,
                                        record |-> Incomplete]]
        /\ proc' = [proc EXCEPT ![t].runner = "running", ![t].model = "running"]
     \/ /\ CanExecute(role)   \* the process cannot be started
        /\ task' = [task EXCEPT ![t] = [at |-> "saving", role |-> role,
                                        record |-> Failed("spawn")]]
        /\ UNCHANGED proc
  /\ UNCHANGED <<closedPipe, results, tvars, rvars>>

\* What comes of the model's command line: an object that says it succeeded or
\* failed, or leaves it open ("success" null or a text); no object; an exit code.
Replies == {"good", "bad", "open", "none", "failed"}

\* _parse_response: a missing "success" means TRUE, any other value is kept.
Parsed(reply) == IF reply \in {"none", "failed"} THEN "bad" ELSE reply

\* The model's process ends; a runner that still waits prints the parsed reply.
ModelEnds(t) ==
  /\ proc[t].model = "running"
  /\ \/ /\ proc[t].runner = "running"
        /\ \E reply \in Replies :
             proc' = [proc EXCEPT ![t] = [@ EXCEPT !.model = "ended", !.runner = "ended",
                                                  !.out = Parsed(reply)]]
     \/ /\ proc[t].runner # "running"
        /\ proc' = [proc EXCEPT ![t].model = "ended"]
  /\ UNCHANGED <<closedPipe, task, results, tvars, rvars>>

\* CLIExecutor.execute: wait_for gives up and kills the model's process.
ModelTimeout(t) ==
  /\ proc[t].runner = "running" /\ proc[t].model = "running"
  /\ proc' = [proc EXCEPT ![t].model = "killed", ![t].runner = "ended", ![t].out = "bad"]
  /\ UNCHANGED <<closedPipe, task, results, tvars, rvars>>

\* The runner dies before it prints: an import error, a signal.
RunnerDies(t) ==
  /\ proc[t].runner = "running"
  /\ proc' = [proc EXCEPT ![t].runner = "ended", ![t].code = 1]
  /\ UNCHANGED <<closedPipe, task, results, tvars, rvars>>

\* Faulty: the exit code is not looked at.
CompletedAnyExit(p) == IF p.out = "bad" THEN Failed("reported") ELSE Answered

\* An agent result from the output of a process that ended.
Completed(p) ==
  CASE p.code # 0 -> Failed("exit")
    [] p.code = 0 /\ p.out = "bad" -> Failed("reported")
    [] OTHER -> Answered

\* _wait_and_capture and the handlers of dispatch.
Capture(t) ==
  /\ task[t].at = "waiting"
  /\ \/ /\ closedPipe    \* ValueError: I/O operation on closed file
        /\ task' = [task EXCEPT ![t].at = "saving", ![t].record = Failed("closed")]
     \/ /\ ~closedPipe /\ proc[t].runner = "ended"
        /\ task' = [task EXCEPT ![t].at = "saving", ![t].record = Completed(proc[t])]
  /\ UNCHANGED <<closedPipe, proc, results, tvars, rvars>>

\* Faulty: the timeout is reported and the process left alone.
KilledNot(p) == p

Killed(p) == [p EXCEPT !.runner = "killed"]

\* Faulty: communicate() is called without a timeout.
TimeoutNever(t) == FALSE

\* TimeoutExpired: the runner is killed, the process below it is not.
Timeout(t) ==
  /\ task[t].at = "waiting" /\ ~closedPipe /\ proc[t].runner = "running"
  /\ proc' = [proc EXCEPT ![t] = Killed(@)]
  /\ task' = [task EXCEPT ![t].at = "saving", ![t].record = Failed("timeout")]
  /\ UNCHANGED <<closedPipe, results, tvars, rvars>>

\* _persist_result swallows what goes wrong; the caller is answered either way.
Persist(t) ==
  /\ task[t].at = "saving"
  /\ task' = [task EXCEPT ![t].at = "answered"]
  /\ \/ results' = results \cup {t}
     \/ UNCHANGED results
  /\ UNCHANGED <<closedPipe, proc, tvars, rvars>>

\* The server stops in the middle of a dispatch: no record, no answer.
ServerCrash ==
  /\ \E t \in Tasks :
       /\ task[t].at \in {"waiting", "saving"}
       /\ task' = [task EXCEPT ![t].at = "lost"]
  /\ UNCHANGED <<closedPipe, proc, results, tvars, rvars>>

-----------------------------------------------------------------------------
(* The tools.                                                              *)

Needs == [redis_write |-> "redis:*", risk_bias |-> "redis:risk_bias",
          sentiment |-> "redis:sentiment:*"]
ToolNames == DOMAIN Needs

\* ALLOWED_KEY_PREFIXES and DEFAULT_TTL: TRUE where an entry expires by default.
Expiring == [risk_bias |-> FALSE, sentiment |-> TRUE, events |-> TRUE]
Text == 1000   \* a JSON value that is no number

Register(r, tool) ==    \* a name registered twice raises ValueError
  /\ tool \notin toolbox[r]
  /\ toolbox' = [toolbox EXCEPT ![r] = @ \cup {tool}]
  /\ UNCHANGED <<checker, store, dvars, rvars>>

Unregister(r, tool) ==
  /\ tool \in toolbox[r]
  /\ toolbox' = [toolbox EXCEPT ![r] = @ \ {tool}]
  /\ UNCHANGED <<checker, store, dvars, rvars>>

\* Faulty: any granted permission will do.
MayCallAny(r, tool) == tool \in toolbox[r] /\ (checker = "none" \/ Grants[r] # {})

\* _check_permissions; PermissionChecker of permissions.py has no
\* has_permission, so with that one every check raises AttributeError.
MayCall(r, tool) ==
  /\ tool \in toolbox[r]
  /\ \/ checker = "none"
     \/ checker = "grants" /\ Needs[tool] \in Grants[r]

Entry(v, ttl, r) == [value |-> v, ttl |-> ttl, by |-> r]

\* write_redis: the caller's ttl, else the key's; 0 is no ttl.
WriteRedis(r, k, v) ==
  /\ MayCall(r, "redis_write")
  /\ \E ttl \in {Expiring[k], TRUE} : store' = [store EXCEPT ![k] = Entry(v, ttl, r)]
  /\ UNCHANGED <<checker, toolbox, dvars, rvars>>

\* Faulty: only the lower end is checked.
InRangeBelow(v) == v >= 0 /\ v # Text

InRange(v) == v \in 0..100

WriteRiskBias(r, v) ==
  /\ MayCall(r, "risk_bias") /\ InRange(v)
  /\ store' = [store EXCEPT !["risk_bias"] = Entry(v, FALSE, r)]
  /\ UNCHANGED <<checker, toolbox, dvars, rvars>>

WriteSentiment(r, v) ==
  /\ MayCall(r, "sentiment") /\ InRange(v)
  /\ store' = [store EXCEPT !["sentiment"] = Entry(v, Expiring["sentiment"], r)]
  /\ UNCHANGED <<checker, toolbox, dvars, rvars>>

\* Faulty: every key expires.
ExpiresAny(k) == store[k] # None

Expires(k) == store[k] # None /\ store[k].ttl

Expire(k) ==
  /\ Expires(k)
  /\ store' = [store EXCEPT ![k] = None]
  /\ UNCHANGED <<checker, toolbox, dvars, rvars>>

\* RiskManager.get_risk_bias: 100 % without an entry, and float() of a text raises.
RiskBias ==
  IF store["risk_bias"] = None THEN 100
  ELSE IF store["risk_bias"].value = Text THEN None ELSE store["risk_bias"].value

-----------------------------------------------------------------------------
(* assess_risk: how much of the risk budget the market leaves.             *)

Regime(vix) ==
  CASE vix = None -> None
    [] vix # None /\ vix < 15 -> "low"
    [] vix # None /\ vix \in 15..19 -> "normal"
    [] vix # None /\ vix \in 20..29 -> "elevated"
    [] vix # None /\ vix \in 30..39 -> "high"
    [] OTHER -> "extreme"

RegimeScaling ==
  [low |-> 100, normal |-> 80, elevated |-> 50, high |-> 25, extreme |-> 10]

VixScaling(vix) == IF Regime(vix) = None THEN 100 ELSE RegimeScaling[Regime(vix)]

DrawdownSteps == <<<<5, 90>>, <<10, 70>>, <<15, 50>>, <<20, 25>>>>

\* Faulty: the first step a drawdown passes decides.
DrawdownScalingFirst(dd) ==
  IF dd < 5 THEN 100 ELSE IF dd > 15 THEN 90 ELSE 70

DrawdownScaling(dd) ==
  LET passed == {i \in DOMAIN DrawdownSteps : dd >= DrawdownSteps[i][1]}
  IN IF dd <= 0 \/ passed = {} THEN 100 ELSE DrawdownSteps[Cardinality(passed)][2]

Combined(vix, dd) ==
  LET v == VixScaling(vix)
      d == DrawdownScaling(dd)
  IN IF v <= d THEN v ELSE d

RiskLevel(scaling) ==
  CASE scaling >= 80 -> "low"
    [] scaling \in 50..79 -> "medium"
    [] scaling \in 25..49 -> "high"
    [] OTHER -> "critical"

MarketMoves ==
  /\ \E v \in VixLevels \cup {None}, d \in Drawdowns : market' = [vix |-> v, drawdown |-> d]
  /\ UNCHANGED <<assessed, dvars, tvars>>

AssessRisk ==
  /\ assessed' = [of |-> market, scaling |-> Combined(market.vix, market.drawdown),
                  level |-> RiskLevel(Combined(market.vix, market.drawdown))]
  /\ UNCHANGED <<market, dvars, tvars>>

-----------------------------------------------------------------------------
DispatchInit ==
  /\ closedPipe \in BOOLEAN
  /\ task = [t \in Tasks |-> [at |-> "new", role |-> None, record |-> Incomplete]]
  /\ proc = [t \in Tasks |-> NoProcess]
  /\ results = {}

ToolsInit ==
  /\ checker \in {"none", "grants", "patterns"}
  /\ toolbox = [r \in Roles |-> {}]
  /\ store = [k \in Keys |-> None]

AssessInit ==
  /\ market = [vix |-> None, drawdown |-> 0]
  /\ assessed = [of |-> market, scaling |-> 100, level |-> "low"]

AInit == DispatchInit /\ ToolsInit /\ AssessInit

Server(t) == Capture(t) \/ Timeout(t) \/ Persist(t)

DispatchNext ==
  \/ \E t \in Tasks : \/ \E r \in Roles : Invoke(t, r)
                      \/ ModelEnds(t) \/ ModelTimeout(t) \/ RunnerDies(t) \/ Server(t)
  \/ ServerCrash

ToolsNext ==
  \/ \E r \in Roles, tool \in ToolNames : Register(r, tool) \/ Unregister(r, tool)
  \/ \E r \in Roles, v \in Biases \cup {Text} :
       (\E k \in Keys : WriteRedis(r, k, v)) \/ WriteRiskBias(r, v) \/ WriteSentiment(r, v)
  \/ \E k \in Keys : Expire(k)

AssessNext == MarketMoves \/ AssessRisk

ANext == DispatchNext \/ ToolsNext \/ AssessNext

\* The server's thread runs on and its timeout fires; nothing makes a process end.
AFairness == \A t \in Tasks : WF_vars(Server(t))

ASpec == AInit /\ [][ANext]_vars /\ AFairness

-----------------------------------------------------------------------------
(* Properties.                                                             *)

\* Every variable of the module has its type.
ATypeOK ==
  /\ closedPipe \in BOOLEAN
  /\ \A t \in Tasks :
       /\ task[t].at \in {"new", "waiting", "saving", "answered", "lost"}
       /\ task[t].role \in Roles \cup {None}
       /\ task[t].record.success \in BOOLEAN
       /\ proc[t].runner \in {"none", "running", "ended", "killed"}
       /\ proc[t].model \in {"none", "running", "ended", "killed"}
  /\ results \subseteq Tasks
  /\ \A r \in Roles : toolbox[r] \subseteq ToolNames
  /\ \A k \in Keys : store[k] = None \/ store[k].by \in Roles
  /\ assessed.level \in {"low", "medium", "high", "critical"}

\* A task whose record says success ran to the end: its process was started for
\* a permitted role, exited with 0, and did not report a failure (dispatch,
\* dispatcher.py:107-149, across the process, its exit code and its output).
SuccessMeansAnswered ==
  \A t \in Tasks :
    task[t].record.success =>
      /\ task[t].role \in Permitted
      /\ proc[t].runner = "ended" /\ proc[t].code = 0 /\ proc[t].out # "bad"

\* A caller is not answered while the runner of its task is still running, where
\* communicate() accepts the closed pipe (dispatcher.py:242-247).
NoRunnerLeft ==
  \A t \in Tasks :
    task[t].at = "answered" /\ ~closedPipe => proc[t].runner # "running"

\* A task the server took on is answered, or the server stopped: a process that
\* never ends cannot hold the caller for ever (dispatcher.py:243).
EveryTaskAnswered ==
  \A t \in Tasks : task[t].at = "waiting" ~> task[t].at \in {"answered", "lost"}

\* With a checker that grants what DEFAULT_PERMISSIONS says, the bias is always
\* the risk controller's and between 0 and 1 (redis_writer.py:36, 223), so that
\* RiskManager can read it.
BiasIsControllers ==
  checker = "grants" /\ store["risk_bias"] # None =>
    store["risk_bias"].by = "risk_controller" /\ RiskBias \in 0..100

\* A risk bias does not lapse: it goes only if it was written with a ttl of its
\* own through redis_write (redis_writer.py:50, "Persistent").
BiasPersists ==
  [][store["risk_bias"] # None /\ ~store["risk_bias"].ttl => store'["risk_bias"] # None]_vars

\* When neither the VIX nor the drawdown falls from one assessment to the next,
\* the share of the risk budget does not rise (volatility.py:133-154).
StressNeverRaisesRisk ==
  [][(assessed.of.vix # None /\ assessed'.of.vix # None) =>
       (assessed'.of.vix >= assessed.of.vix
        /\ assessed'.of.drawdown >= assessed.of.drawdown
          => assessed'.scaling <= assessed.scaling)]_vars

\* A task succeeds only by an answer and leaves no runner, and the risk bias that is
\* left in Redis is the controller's (dispatcher.py, redis_writer.py).
AgentsSound == ATypeOK /\ SuccessMeansAnswered /\ NoRunnerLeft /\ BiasIsControllers
=============================================================================
