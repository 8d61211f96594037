--------------------------- MODULE Reconciliation ---------------------------
(***************************************************************************)
(* ReconciliationService: reads the local portfolio and the broker's one   *)
(* after the other, compares them and publishes what differs; at startup,  *)
(* periodically, on demand, and a debounce delay after a fill.  All of it  *)
(* is asyncio tasks of one loop: every await is a step of its own.         *)
(*                                                                         *)
(* The books are sets of events: a trade changes a position and the cash,  *)
(* a fee the cash alone.  An event happens at the broker, then locally, or *)
(* never locally (a trade by hand).                                        *)
(***************************************************************************)
EXTENDS Integers, FiniteSets

CONSTANTS
  Fills,          \* trades the local side is told of by on_fill
  Foreign,        \* events only the broker sees: trades by hand and fees
  SymbolOf,       \* trade -> symbol; an event without a symbol is a fee
  StrategyOf,     \* trade -> strategy, the row of the local position
  StartCash,
  CashTolerance,
  EquityTolerance,\* percent
  MaxFailures,    \* bound on reads that raise
  Irregular       \* "startup": the reconciliation of start() may raise;
                  \* "overlap": on_fill may be entered while another awaits

Events == Fills \cup Foreign

ASSUME ReconciliationAssumption ==
  /\ DOMAIN SymbolOf \subseteq Events /\ DOMAIN StrategyOf = DOMAIN SymbolOf
  /\ Fills \subseteq DOMAIN SymbolOf
  /\ IsFiniteSet(Events)
  /\ Fills \cap {"none", "no", "startup", "periodic", "demand"} = {}
  /\ StartCash \in Int /\ CashTolerance \in Nat /\ EquityTolerance \in Nat
  /\ MaxFailures \in Nat

VARIABLES
  broker, local,  \* events in each book
  told,           \* fills on_fill was called for
  run,            \* task -> its place in reconcile and what it read
  svc,            \* the service's own fields; whether stop was ever called, and whether
                  \* it forgot a task that a fill had made while it awaited another
  covered,        \* fills that a completed run started to read after on_fill
  failures

recvars == <<broker, local, told, run, svc, covered, failures>>

\* A post-fill task bears the name of the fill whose handler created it.
RecTasks == {"startup", "periodic", "demand"} \cup Fills

Off == [pc |-> "off", cancel |-> FALSE, lpos |-> {}, lcash |-> {}, bpos |-> {},
        found |-> {}, moved |-> FALSE, after |-> {}]

Started == [Off EXCEPT !.pc = "positions", !.after = told]

-----------------------------------------------------------------------------
(* What the two sides report of their books.                               *)

Symbols == {SymbolOf[e] : e \in DOMAIN SymbolOf}
TradesOf(s, book) == {e \in book \cap DOMAIN SymbolOf : SymbolOf[e] = s}
Quantity(s, book) == Cardinality(TradesOf(s, book))
Cash(book) == StartCash - Cardinality(book)
Equity(book) == StartCash - Cardinality(book \ DOMAIN SymbolOf)

\* The local rows of a symbol, one per strategy; the comparator keeps the last.
LocalRows(s, book) ==
  {Cardinality({e \in TradesOf(s, book) : StrategyOf[e] = k}) :
     k \in {StrategyOf[e] : e \in TradesOf(s, book)}}

Distance(a, b) == IF a >= b THEN a - b ELSE b - a

\* Faulty: only the symbols the local side holds are looked at.
ComparePositionsLocal(lpos, bpos) ==
  {{<<"quantity_mismatch", s>> : s \in {x \in Symbols :
      Quantity(x, lpos) # 0 /\ Quantity(x, lpos) # Quantity(x, bpos)}}}

\* compare_positions: the possible lists of discrepancies, one per choice of rows.
ComparePositions(lpos, bpos) ==
  LET held(s) == LocalRows(s, lpos) # {}
      there(s) == Quantity(s, bpos) # 0
      sure == {<<"missing_local", s>> : s \in {x \in Symbols : ~held(x) /\ there(x)}}
         \cup {<<"missing_broker", s>> : s \in {x \in Symbols : held(x) /\ ~there(x)}}
      both == {s \in Symbols : held(s) /\ there(s)}
  IN {sure \cup {<<"quantity_mismatch", s>> : s \in {x \in both : row[x] # Quantity(x, bpos)}} :
        row \in {f \in [both -> 1..Cardinality(Events)] : \A s \in both : f[s] \in LocalRows(s, lpos)}}

EquityOff(mine, theirs) ==
  IF mine = 0 THEN theirs # 0
  ELSE mine > 0 /\ 100 * Distance(mine, theirs) > EquityTolerance * mine

CompareAccount(lcash, book) ==
  {<<"cash_mismatch", 0>> : x \in {y \in {1} : Distance(Cash(lcash), Cash(book)) > CashTolerance}}
  \cup {<<"equity_mismatch", 0>> : x \in {y \in {1} : EquityOff(Equity(lcash), Equity(book))}}

-----------------------------------------------------------------------------
(* The books move.                                                         *)

Moving == [r \in RecTasks |-> IF run[r].pc \in {"off", "sleep", "positions"} THEN run[r]
                            ELSE [run[r] EXCEPT !.moved = TRUE]]

BrokerExecutes(e) ==
  /\ e \notin broker
  /\ broker' = broker \cup {e} /\ run' = Moving
  /\ UNCHANGED <<local, told, svc, covered, failures>>

LocalBooks(e) ==
  /\ e \in Fills /\ e \in broker \ local
  /\ local' = local \cup {e} /\ run' = Moving
  /\ UNCHANGED <<broker, told, svc, covered, failures>>

-----------------------------------------------------------------------------
(* reconcile, one await at a time.                                         *)

Cancelled(r) ==
  /\ run[r].cancel
  /\ run' = [run EXCEPT ![r] = Off]
  /\ UNCHANGED <<broker, local, told, svc, covered, failures>>

ReadPositions(r) ==
  /\ run[r].pc = "positions"
  /\ run' = [run EXCEPT ![r] = [@ EXCEPT !.pc = "cash", !.lpos = local, !.moved = FALSE]]
  /\ UNCHANGED <<broker, local, told, svc, covered, failures>>

ReadCash(r) ==   \* cash and equity
  /\ run[r].pc = "cash"
  /\ run' = [run EXCEPT ![r] = [@ EXCEPT !.pc = "broker", !.lcash = local]]
  /\ UNCHANGED <<broker, local, told, svc, covered, failures>>

ReadBroker(r) ==
  /\ run[r].pc = "broker"
  /\ run' = [run EXCEPT ![r] = [@ EXCEPT !.pc = "account", !.bpos = broker]]
  /\ UNCHANGED <<broker, local, told, svc, covered, failures>>

\* The broker's account is read and everything compared.
CompareBooks(r) ==
  /\ run[r].pc = "account"
  /\ \E found \in ComparePositions(run[r].lpos, run[r].bpos) :
       run' = [run EXCEPT ![r] = [@ EXCEPT !.pc = "publish",
                                     !.found = found \cup CompareAccount(run[r].lcash, broker)]]
  /\ UNCHANGED <<broker, local, told, svc, covered, failures>>

\* Where a task goes when reconcile returns.
Returned(r) == IF r = "periodic" THEN [Off EXCEPT !.pc = "sleep"] ELSE Off

\* _publish_result swallows errors; start() then creates the periodic task.
Publish(r) ==
  /\ run[r].pc = "publish"
  /\ covered' = covered \cup run[r].after
  /\ IF r = "startup"
       THEN /\ run' = [run EXCEPT ![r] = Off, !["periodic"] = [Off EXCEPT !.pc = "sleep"]]
            /\ svc' = [svc EXCEPT !.starting = FALSE]
       ELSE run' = [run EXCEPT ![r] = Returned(r)] /\ UNCHANGED svc
  /\ UNCHANGED <<broker, local, told, failures>>

\* Faulty: an error ends the periodic loop.
AfterFailureEnds(r) == Off

\* A read raises: the loop catches it, the other callers do not.
AfterFailure(r) == Returned(r)

ReadFails(r) ==
  /\ run[r].pc \in {"positions", "cash", "broker", "account"}
  /\ failures < MaxFailures
  /\ r = "startup" => "startup" \in Irregular
  /\ failures' = failures + 1
  /\ run' = [run EXCEPT ![r] = AfterFailure(r)]
  /\ svc' = [svc EXCEPT !.starting = @ /\ r # "startup"]
  /\ UNCHANGED <<broker, local, told, covered>>

-----------------------------------------------------------------------------
(* start, stop, the periodic loop, on demand.                              *)

Start ==
  /\ ~svc.running /\ ~svc.starting /\ svc.stopping = "no"
  /\ svc' = [svc EXCEPT !.running = TRUE, !.starting = TRUE]
  /\ run' = [run EXCEPT !["startup"] = Started]
  /\ UNCHANGED <<broker, local, told, covered, failures>>

Wake ==
  /\ run["periodic"].pc = "sleep" /\ ~run["periodic"].cancel
  /\ run' = [run EXCEPT !["periodic"] = IF svc.running THEN Started ELSE Off]
  /\ UNCHANGED <<broker, local, told, svc, covered, failures>>

\* Faulty: the task of the fill before is left alone.
PendingFillIgnored == FALSE

PendingFill == svc.pending # "none" /\ run[svc.pending].pc # "off"

Cancel(r) == [run EXCEPT ![r].cancel = run[r].pc # "off"]

\* stop: cancel the loop, await it, then the same with the pending fill task, which it
\* forgets when that has ended, though a fill may have replaced it in the meantime.
Stop ==
  /\ svc.running /\ svc.stopping = "no" /\ ~svc.starting
  /\ svc' = [svc EXCEPT !.running = FALSE, !.stopping = "periodic", !.stopped = TRUE]
  /\ run' = Cancel("periodic")
  /\ UNCHANGED <<broker, local, told, covered, failures>>

StopGoesOn ==
  /\ \/ /\ svc.stopping = "periodic" /\ run["periodic"].pc = "off"
        /\ IF svc.pending = "none" \/ run[svc.pending].pc = "off"
             THEN svc' = [svc EXCEPT !.stopping = "no"] /\ UNCHANGED run
             ELSE svc' = [svc EXCEPT !.stopping = svc.pending] /\ run' = Cancel(svc.pending)
     \/ /\ svc.stopping \in Fills /\ run[svc.stopping].pc = "off"
        /\ svc' = [svc EXCEPT !.stopping = "no", !.pending = "none", !.forgot = @ \/ PendingFill]
        /\ UNCHANGED run
  /\ UNCHANGED <<broker, local, told, covered, failures>>

OnDemand ==
  /\ run["demand"].pc = "off"
  /\ run' = [run EXCEPT !["demand"] = Started]
  /\ UNCHANGED <<broker, local, told, svc, covered, failures>>

-----------------------------------------------------------------------------
(* on_fill.                                                                *)

\* A handler that awaits a cancelled task resumes when the task has ended.
Entering == \E e \in Fills : svc.awaits[e] # "none"

\* Faulty: a pending task that was cancelled is not replaced.
ReplacementNone == Off

\* The new task, asleep for post_fill_delay_seconds.
Replacement == [Off EXCEPT !.pc = "sleep"]

\* _last_fill, then the pending task is cancelled and awaited, if there is one.
OnFill(e) ==
  /\ e \in local \ told
  /\ Entering => "overlap" \in Irregular
  /\ told' = told \cup {e}
  /\ IF PendingFill
       THEN /\ run' = Cancel(svc.pending)
            /\ svc' = [svc EXCEPT !.awaits[e] = svc.pending]
       ELSE /\ run' = [run EXCEPT ![e] = [Off EXCEPT !.pc = "sleep"]]
            /\ svc' = [svc EXCEPT !.pending = e]
  /\ UNCHANGED <<broker, local, covered, failures>>

OnFillResumes(e) ==
  /\ svc.awaits[e] # "none" /\ run[svc.awaits[e]].pc = "off"
  /\ run' = [run EXCEPT ![e] = Replacement]
  /\ svc' = [svc EXCEPT !.pending = e, !.awaits[e] = "none"]
  /\ UNCHANGED <<broker, local, told, covered, failures>>

DebounceEnds(r) ==
  /\ r \in Fills /\ run[r].pc = "sleep" /\ ~run[r].cancel
  /\ run' = [run EXCEPT ![r] = Started]
  /\ UNCHANGED <<broker, local, told, svc, covered, failures>>

-----------------------------------------------------------------------------
RecInit ==
  /\ broker = {} /\ local = {} /\ told = {} /\ covered = {} /\ failures = 0
  /\ run = [r \in RecTasks |-> Off]
  /\ svc = [running |-> FALSE, starting |-> FALSE, stopping |-> "no", stopped |-> FALSE,
            forgot |-> FALSE, pending |-> "none", awaits |-> [e \in Fills |-> "none"]]

TaskStep(r) ==
  \/ Cancelled(r)
  \/ ~run[r].cancel /\ (ReadPositions(r) \/ ReadCash(r) \/ ReadBroker(r) \/ CompareBooks(r) \/ Publish(r))
  \/ DebounceEnds(r)

Loop == Wake \/ StopGoesOn \/ (\E e \in Fills : OnFillResumes(e)) \/ \E r \in RecTasks : TaskStep(r)

BooksMove == \E e \in Events : BrokerExecutes(e) \/ LocalBooks(e)

Service ==
  \/ \E e \in Fills : OnFill(e)
  \/ \E r \in RecTasks : ~run[r].cancel /\ ReadFails(r)
  \/ Start \/ Stop \/ Loop

RecNext == BooksMove \/ Service \/ OnDemand

\* The event loop resumes every task that can go on.
RecFairness ==
  /\ WF_recvars(Wake) /\ WF_recvars(StopGoesOn)
  /\ \A e \in Fills : WF_recvars(OnFillResumes(e))
  /\ \A r \in RecTasks : WF_recvars(TaskStep(r))

RecSpec == RecInit /\ [][RecNext]_recvars /\ RecFairness

-----------------------------------------------------------------------------
(* Properties.                                                             *)

\* Every variable of the module has its type.
RecTypeOK ==
  /\ broker \subseteq Events /\ local \subseteq Fills /\ told \subseteq local
  /\ covered \subseteq told /\ failures \in 0..MaxFailures
  /\ \A r \in RecTasks :
       /\ run[r].pc \in {"off", "sleep", "positions", "cash", "broker", "account", "publish"}
       /\ run[r].cancel \in BOOLEAN /\ run[r].moved \in BOOLEAN
  /\ svc.pending \in Fills \cup {"none"}

\* A symbol is held by one strategy: of several rows the comparator keeps the last.
OneRowPerSymbol ==
  \A e, f \in DOMAIN SymbolOf : SymbolOf[e] = SymbolOf[f] => StrategyOf[e] = StrategyOf[f]

\* A report made while the books stood still is right, if a symbol has one row: it is clean exactly when
\* every symbol has the same quantity on both sides and cash and equity are
\* within their tolerances (reconcile, service.py:77-95, whose four reads are
\* separate awaits; comparator.py:22-152).
QuietReportIsRight ==
  OneRowPerSymbol => \A r \in RecTasks :
    run[r].pc = "publish" /\ ~run[r].moved =>
      (run[r].found = {} <=>
         /\ \A s \in Symbols : Quantity(s, local) = Quantity(s, broker)
         /\ Distance(Cash(local), Cash(broker)) <= CashTolerance
         /\ ~EquityOff(Equity(local), Equity(broker)))

\* The service that runs has its periodic loop, once start() is over
\* (service.py:169-180).
RunningMeansLooping ==
  svc.running /\ ~svc.starting => run["periodic"].pc # "off"

\* At most one post-fill task is not yet cancelled, as long as stop() forgot none
\* that lives (service.py:221-230).
OneFillTask ==
  ~svc.forgot => Cardinality({r \in Fills : run[r].pc # "off" /\ ~run[r].cancel}) <= 1

\* A fill the service was told of is in the end covered by a completed run that
\* started to read afterwards, whatever task was cancelled on the way; unless
\* stop() was called, or a read fails and there is no periodic loop to try
\* again (on_fill, service.py:211-243).
FillIsReconciled ==
  \A e \in Fills :
    e \in told ~> (\/ e \in covered
                   \/ svc.stopped
                   \/ (failures > 0 /\ ~svc.running))

\* The reconciliation service reports a match only of books that match, keeps
\* looping while it runs, and replaces its post-fill task rather than adding one
\* (reconciliation/service.py, comparator.py).
BooksSound == RecTypeOK /\ QuietReportIsRight /\ RunningMeansLooping /\ OneFillTask
=============================================================================
