--------------------------- MODULE ConnectionsProofs ---------------------------
(***************************************************************************)
(* Proofs about what connects the program with the outside: the strategies *)
(* that are started and stopped, the feed of Greeks, the clients of OpenD  *)
(* and the brokers, each for any number of requests, clients and orders.   *)
(* The four share no state, and each has its own specification.            *)
(***************************************************************************)
EXTENDS Brokers, StrategyRuns, GreeksFeed, FutuClient, FiniteSetTheorems, TLAPS

-----------------------------------------------------------------------------
(* Strategies: starting and stopping.                                      *)

Requests == Starts \cup StopCalls

Codes == {0, 200, 400, 404, 500}

CallRec == [at : {"new", "on_start", "on_stop", "done"}, state : Starts \cup {Nowhere},
            answer : Codes]

\* The parts of the type that RunsTypeOK leaves to the guards.
CallsType ==
  /\ config \in [enabled : SUBSET {"paper", "live"}, required : BOOLEAN]
  /\ call \in [Requests -> CallRec]
  /\ \A c \in Starts : call[c].at # "on_stop"
  /\ \A c \in StopCalls : call[c].at # "on_start"

\* A dictionary that says anything belongs to a start that has been answered, which
\* will never connect its broker again.
RegisteredIsAnswered ==
  /\ \A c \in Starts : run[c].status # "none" => call[c].at = "done"
  /\ entry # Nowhere => call[entry].at = "done"

\* Whoever is about to run, or runs, in live mode has what it needs.
ReadyToRun ==
  \A c \in Starts :
    /\ call[c].at = "on_start" \/ run[c].status = "running"
    /\ run[c].mode = "live"
    => live[c].connected /\ (config.required => live[c].confirmed)

\* What a stop works on never runs again.
StopsOwnRun ==
  \A c \in StopCalls :
    call[c].at = "on_stop" =>
      /\ call[call[c].state].at = "done"
      /\ run[call[c].state].status \in {"stopping", "error"}

\* The state of a stop that was answered with 200 is over and disconnected.
AnsweredIsOver ==
  \A c \in StopCalls :
    call[c].answer = 200 =>
      /\ call[c].at = "done" /\ call[c].state \in Starts
      /\ call[call[c].state].at = "done" /\ ~live[call[c].state].connected

\* As long as nothing overlaps and nothing raises: one request is suspended at a time,
\* nothing runs while a start is, a connected broker is the registered run's or that
\* of the start in progress, and a run that is being stopped is still registered.
Calm ==
  /\ \A c, d \in Requests : Working(c) /\ Working(d) => c = d
  /\ \A c \in Starts : call[c].at = "on_start" => ~RunsAlready
  /\ \A c \in Starts :
       live[c].connected =>
         \/ entry = c /\ run[c].status \in {"running", "stopping"}
         \/ call[c].at = "on_start"
  /\ \A c \in StopCalls : call[c].at = "on_stop" => entry = call[c].state
  /\ entry # Nowhere /\ run[entry].status = "stopping" => \E c \in StopCalls : Working(c)

CalmInv == mishaps = {} => Calm

RunsInv ==
  RunsTypeOK /\ CallsType /\ RegisteredIsAnswered /\ ReadyToRun /\ StopsOwnRun /\ AnsweredIsOver

-----------------------------------------------------------------------------
(* What an action changes, field by field.                                 *)

RunRec == [status : RunStatus, mode : Modes]

CallBecomes(c, at, state, answer) ==
  /\ call' \in [Requests -> CallRec]
  /\ call'[c].at = at /\ call'[c].state = state /\ call'[c].answer = answer
  /\ \A d \in Requests : d # c => call'[d] = call[d]

RunBecomes(s, status, mode) ==
  /\ run' \in [Starts -> RunRec]
  /\ run'[s].status = status /\ run'[s].mode = mode
  /\ \A d \in Starts : d # s => run'[d] = run[d]

LEMMA Answers ==
  ASSUME CallsType, NEW c \in Requests, NEW code \in Codes, Answer(c, code)
  PROVE  CallBecomes(c, "done", call[c].state, code)
<1> DEFINE r == [call[c] EXCEPT !.at = "done", !.answer = code]
<1>1. call[c] \in CallRec /\ call \in [Requests -> CallRec]
  BY DEF CallsType
<1>2. ASSUME NEW x \in CallRec
      PROVE  /\ [x EXCEPT !.at = "done", !.answer = code] \in CallRec
             /\ [x EXCEPT !.at = "done", !.answer = code].at = "done"
             /\ [x EXCEPT !.at = "done", !.answer = code].answer = code
             /\ [x EXCEPT !.at = "done", !.answer = code].state = x.state
  BY DEF CallRec
<1>3. r \in CallRec /\ r.at = "done" /\ r.answer = code /\ r.state = call[c].state
  BY <1>1, <1>2
<1>4. call' = [call EXCEPT ![c] = r] BY DEF Answer
<1> HIDE DEF r
<1> QED BY <1>1, <1>3, <1>4 DEF CallBecomes

LEMMA StartSuspends ==
  ASSUME CallsType, NEW c \in Requests, call' = [call EXCEPT ![c].at = "on_start"]
  PROVE  CallBecomes(c, "on_start", call[c].state, call[c].answer)
<1> DEFINE r == [call[c] EXCEPT !.at = "on_start"]
<1>1. call[c] \in CallRec /\ call \in [Requests -> CallRec]
  BY DEF CallsType
<1>2. r \in CallRec /\ r.at = "on_start" /\ r.answer = call[c].answer /\ r.state = call[c].state
  BY <1>1 DEF CallRec
<1>3. call' = [call EXCEPT ![c] = r] OBVIOUS
<1> HIDE DEF r
<1> QED BY <1>1, <1>2, <1>3 DEF CallBecomes

LEMMA StopSuspends ==
  ASSUME CallsType, NEW c \in Requests, entry \in Starts,
         call' = [call EXCEPT ![c] = [@ EXCEPT !.at = "on_stop", !.state = entry]]
  PROVE  CallBecomes(c, "on_stop", entry, call[c].answer)
<1> DEFINE r == [call[c] EXCEPT !.at = "on_stop", !.state = entry]
<1>1. call[c] \in CallRec /\ call \in [Requests -> CallRec]
  BY DEF CallsType
<1>2. ASSUME NEW x \in CallRec
      PROVE  /\ [x EXCEPT !.at = "on_stop", !.state = entry] \in CallRec
             /\ [x EXCEPT !.at = "on_stop", !.state = entry].at = "on_stop"
             /\ [x EXCEPT !.at = "on_stop", !.state = entry].state = entry
             /\ [x EXCEPT !.at = "on_stop", !.state = entry].answer = x.answer
  BY DEF CallRec
<1>3. r \in CallRec /\ r.at = "on_stop" /\ r.state = entry /\ r.answer = call[c].answer
  BY <1>1, <1>2
<1>4. call' = [call EXCEPT ![c] = r] OBVIOUS
<1> HIDE DEF r
<1> QED BY <1>1, <1>3, <1>4 DEF CallBecomes

LEMMA StatusSet ==
  ASSUME RunsTypeOK, NEW s \in Starts, NEW st \in RunStatus,
         run' = [run EXCEPT ![s].status = st]
  PROVE  RunBecomes(s, st, run[s].mode)
<1> DEFINE r == [run[s] EXCEPT !.status = st]
<1>1. run[s] \in RunRec /\ run \in [Starts -> RunRec]
  BY DEF RunsTypeOK, RunRec
<1>2. r \in RunRec /\ r.status = st /\ r.mode = run[s].mode
  BY <1>1 DEF RunRec
<1>3. run' = [run EXCEPT ![s] = r] OBVIOUS
<1> HIDE DEF r
<1> QED BY <1>1, <1>2, <1>3 DEF RunBecomes

LEMMA ModeSet ==
  ASSUME RunsTypeOK, NEW s \in Starts, NEW m \in Modes, run' = [run EXCEPT ![s].mode = m]
  PROVE  RunBecomes(s, run[s].status, m)
<1> DEFINE r == [run[s] EXCEPT !.mode = m]
<1>1. run[s] \in RunRec /\ run \in [Starts -> RunRec]
  BY DEF RunsTypeOK, RunRec
<1>2. r \in RunRec /\ r.status = run[s].status /\ r.mode = m
  BY <1>1 DEF RunRec
<1>3. run' = [run EXCEPT ![s] = r] OBVIOUS
<1> HIDE DEF r
<1> QED BY <1>1, <1>2, <1>3 DEF RunBecomes

-----------------------------------------------------------------------------

LEMMA RunsInitial == RunsInit => RunsInv
<1> SUFFICES ASSUME RunsInit PROVE RunsInv
  OBVIOUS
<1> USE RunsAssumption DEF RunsInit, Requests, CallRec, Codes, RunStatus, Modes
<1>1. RunsTypeOK BY DEF RunsTypeOK, Working
<1>2. CallsType BY DEF CallsType
<1>3. RegisteredIsAnswered /\ ReadyToRun BY DEF RegisteredIsAnswered, ReadyToRun
<1>4. StopsOwnRun /\ AnsweredIsOver BY DEF StopsOwnRun, AnsweredIsOver
<1> QED BY <1>1, <1>2, <1>3, <1>4 DEF RunsInv

LEMMA StartKeeps ==
  ASSUME NEW c \in Starts, NEW mode \in Modes, NEW confirm \in BOOLEAN, RunsInv,
         Start(c, mode, confirm)
  PROVE  RunsInv'
<1> USE RunsAssumption DEF Requests, RunRec
<1>0. /\ RunsTypeOK /\ CallsType /\ RegisteredIsAnswered /\ ReadyToRun /\ StopsOwnRun
      /\ AnsweredIsOver
  BY DEF RunsInv
<1>1. /\ c \in Requests /\ c \notin StopCalls /\ call[c].at = "new" /\ run[c].status = "none"
      /\ entry # c /\ UNCHANGED config /\ {200, 400, 500} \subseteq Codes
  BY <1>0 DEF Start, RunsTypeOK, RegisteredIsAnswered, CallsType, CallRec, RunStatus, Codes
<1>20. \A d \in StopCalls : call[d].at = "on_stop" => call[d].state \in Starts
  BY <1>0 DEF RunsTypeOK, Working
<1>2. CASE Answer(c, 400) /\ UNCHANGED <<entry, run, live, mishaps>>
  <2>1. CallBecomes(c, "done", call[c].state, 400) BY <1>0, <1>1, <1>2, Answers
  <2>2. RunsTypeOK' BY <1>0, <1>1, <1>2, <2>1 DEF CallBecomes, RunsTypeOK, Working
  <2>3. CallsType' BY <1>0, <1>1, <1>2, <2>1 DEF CallBecomes, CallsType
  <2>4. RegisteredIsAnswered'
    BY <1>0, <1>1, <1>2, <2>1 DEF CallBecomes, RegisteredIsAnswered, RunsTypeOK
  <2>5. ReadyToRun' BY <1>0, <1>1, <1>2, <2>1 DEF CallBecomes, ReadyToRun
  <2>6. StopsOwnRun' BY <1>0, <1>1, <1>20, <1>2, <2>1 DEF CallBecomes, StopsOwnRun
  <2>7. AnsweredIsOver' BY <1>0, <1>1, <1>2, <2>1 DEF CallBecomes, AnsweredIsOver
  <2> QED BY <2>2, <2>3, <2>4, <2>5, <2>6, <2>7 DEF RunsInv
<1>3. CASE Answer(c, 500) /\ entry' = c /\ run' = [run EXCEPT ![c].status = "error"] /\ UNCHANGED live
  <2>1. CallBecomes(c, "done", call[c].state, 500) BY <1>0, <1>1, <1>3, Answers
  <2>2. RunBecomes(c, "error", run[c].mode) BY <1>0, <1>3, StatusSet DEF RunStatus
  <2> USE DEF CallBecomes, RunBecomes
  <2>3. RunsTypeOK' BY <1>0, <1>1, <1>3, <2>1, <2>2 DEF RunsTypeOK, Working
  <2>4. CallsType' BY <1>0, <1>1, <2>1 DEF CallsType
  <2>5. RegisteredIsAnswered' BY <1>0, <1>1, <1>3, <2>1, <2>2 DEF RegisteredIsAnswered
  <2>6. ReadyToRun' BY <1>0, <1>1, <1>3, <2>1, <2>2 DEF ReadyToRun
  <2>7. StopsOwnRun' BY <1>0, <1>1, <1>20, <2>1, <2>2 DEF StopsOwnRun
  <2>8. AnsweredIsOver' BY <1>0, <1>1, <1>3, <2>1 DEF AnsweredIsOver
  <2> QED BY <2>3, <2>4, <2>5, <2>6, <2>7, <2>8 DEF RunsInv
<1>4. CASE /\ ~LacksConfirmation(mode, confirm) /\ run' = [run EXCEPT ![c].mode = mode]
           /\ live' = IF mode = "live"
                      THEN [live EXCEPT ![c] = [connected |-> TRUE, confirmed |-> confirm]]
                      ELSE live
           /\ call' = [call EXCEPT ![c].at = "on_start"] /\ UNCHANGED entry
  <2>1. CallBecomes(c, "on_start", call[c].state, call[c].answer)
    BY <1>0, <1>1, <1>4, StartSuspends
  <2>2. RunBecomes(c, "none", mode) BY <1>0, <1>1, <1>4, ModeSet
  <2>3. /\ live' \in [Starts -> [connected : BOOLEAN, confirmed : BOOLEAN]]
        /\ \A d \in Starts : d # c => live'[d] = live[d]
        /\ mode = "live" => live'[c].connected /\ live'[c].confirmed = confirm
    <3>1. [connected |-> TRUE, confirmed |-> confirm] \in [connected : BOOLEAN, confirmed : BOOLEAN]
      OBVIOUS
    <3> QED BY <1>0, <1>4, <3>1 DEF RunsTypeOK
  <2> USE DEF CallBecomes, RunBecomes
  <2>4. RunsTypeOK' BY <1>0, <1>1, <1>4, <2>1, <2>2, <2>3 DEF RunsTypeOK, Working
  <2>5. CallsType' BY <1>0, <1>1, <2>1 DEF CallsType
  <2>6. RegisteredIsAnswered' BY <1>0, <1>1, <1>4, <2>1, <2>2 DEF RegisteredIsAnswered, RunsTypeOK
  <2>7. ReadyToRun'
    BY <1>0, <1>1, <1>4, <2>1, <2>2, <2>3 DEF ReadyToRun, LacksConfirmation
  <2>8. StopsOwnRun' BY <1>0, <1>1, <1>20, <2>1, <2>2 DEF StopsOwnRun
  <2>9. AnsweredIsOver' BY <1>0, <1>1, <2>1, <2>3 DEF AnsweredIsOver
  <2> QED BY <2>4, <2>5, <2>6, <2>7, <2>8, <2>9 DEF RunsInv
<1> QED BY <1>1, <1>2, <1>3, <1>4 DEF Start

LEMMA StartedKeeps ==
  ASSUME NEW c \in Starts, RunsInv, Started(c) \/ StartFails(c)
  PROVE  RunsInv'
<1> USE RunsAssumption DEF Requests, RunRec
<1>0. /\ RunsTypeOK /\ CallsType /\ RegisteredIsAnswered /\ ReadyToRun /\ StopsOwnRun
      /\ AnsweredIsOver
  BY DEF RunsInv
<1>1. /\ c \in Requests /\ c \notin StopCalls /\ call[c].at = "on_start" /\ run[c].status = "none"
      /\ entry' = c /\ UNCHANGED <<config, live>>
  BY <1>0 DEF Started, StartFails, RunsTypeOK, RegisteredIsAnswered, RunStatus
<1>20. \A d \in StopCalls : call[d].at = "on_stop" => call[d].state \in Starts
  BY <1>0 DEF RunsTypeOK, Working
<1>2. PICK st \in {"running", "error"}, code \in {200, 500} :
        run' = [run EXCEPT ![c].status = st] /\ Answer(c, code)
  BY DEF Started, StartFails
<1>3. CallBecomes(c, "done", call[c].state, code) BY <1>0, <1>1, <1>2, Answers DEF Codes
<1>4. RunBecomes(c, st, run[c].mode)
  <2> DEFINE r == [run[c] EXCEPT !.status = st]
  <2>1. run[c] \in RunRec /\ run \in [Starts -> RunRec]
    BY <1>0 DEF RunsTypeOK
  <2>2. r \in RunRec /\ r.status = st /\ r.mode = run[c].mode
    BY <2>1 DEF RunStatus
  <2>3. run' = [run EXCEPT ![c] = r] BY <1>2
  <2> HIDE DEF r
  <2> QED BY <2>1, <2>2, <2>3 DEF RunBecomes
<1> USE DEF CallBecomes, RunBecomes
<1>5. RunsTypeOK' BY <1>0, <1>1, <1>3, <1>4 DEF RunsTypeOK, Working
<1>6. CallsType' BY <1>0, <1>1, <1>3 DEF CallsType
<1>7. RegisteredIsAnswered' BY <1>0, <1>1, <1>3, <1>4 DEF RegisteredIsAnswered
<1>8. ReadyToRun' BY <1>0, <1>1, <1>3, <1>4 DEF ReadyToRun
<1>9. StopsOwnRun' BY <1>0, <1>1, <1>20, <1>3, <1>4 DEF StopsOwnRun
<1>10. AnsweredIsOver' BY <1>0, <1>1, <1>3 DEF AnsweredIsOver
<1> QED BY <1>5, <1>6, <1>7, <1>8, <1>9, <1>10 DEF RunsInv

LEMMA StopKeeps ==
  ASSUME NEW c \in StopCalls, RunsInv, Stop(c)
  PROVE  RunsInv'
<1> USE RunsAssumption DEF Requests, RunRec
<1>0. /\ RunsTypeOK /\ CallsType /\ RegisteredIsAnswered /\ ReadyToRun /\ StopsOwnRun
      /\ AnsweredIsOver
  BY DEF RunsInv
<1>1. c \in Requests /\ c \notin Starts /\ call[c].at = "new" /\ UNCHANGED <<config, entry, live>>
  BY DEF Stop
<1>20. \A d \in StopCalls : call[d].at = "on_stop" => call[d].state \in Starts
  BY <1>0 DEF RunsTypeOK, Working
<1>2. ASSUME NEW code \in {404, 400}, Answer(c, code), UNCHANGED run
      PROVE  RunsInv'
  <2>1. CallBecomes(c, "done", call[c].state, code) BY <1>0, <1>1, <1>2, Answers DEF Codes
  <2>2. RunsTypeOK' BY <1>0, <1>1, <1>2, <2>1 DEF CallBecomes, RunsTypeOK, Working
  <2>3. CallsType' BY <1>0, <1>1, <1>2, <2>1 DEF CallBecomes, CallsType
  <2>4. RegisteredIsAnswered'
    BY <1>0, <1>1, <1>2, <2>1 DEF CallBecomes, RegisteredIsAnswered, RunsTypeOK
  <2>5. ReadyToRun' BY <1>0, <1>1, <1>2, <2>1 DEF CallBecomes, ReadyToRun
  <2>6. StopsOwnRun' BY <1>0, <1>1, <1>20, <1>2, <2>1 DEF CallBecomes, StopsOwnRun
  <2>7. AnsweredIsOver' BY <1>0, <1>1, <1>2, <2>1 DEF CallBecomes, AnsweredIsOver
  <2> QED BY <2>2, <2>3, <2>4, <2>5, <2>6, <2>7 DEF RunsInv
<1>3. CASE /\ RunsAlready /\ run' = [run EXCEPT ![entry].status = "stopping"]
           /\ call' = [call EXCEPT ![c] = [@ EXCEPT !.at = "on_stop", !.state = entry]]
  <2>0. entry \in Starts /\ call[entry].at = "done" /\ entry # c
    BY <1>0, <1>1, <1>3 DEF RunsAlready, RunsTypeOK, RegisteredIsAnswered
  <2>1. CallBecomes(c, "on_stop", entry, call[c].answer) BY <1>0, <1>1, <1>3, <2>0, StopSuspends
  <2>2. RunBecomes(entry, "stopping", run[entry].mode) BY <1>0, <1>3, <2>0, StatusSet DEF RunStatus
  <2> USE DEF CallBecomes, RunBecomes
  <2>3. RunsTypeOK' BY <1>0, <1>1, <2>0, <2>1, <2>2 DEF RunsTypeOK, Working
  <2>4. CallsType' BY <1>0, <1>1, <2>1 DEF CallsType
  <2>5. RegisteredIsAnswered' BY <1>0, <1>1, <2>0, <2>1, <2>2 DEF RegisteredIsAnswered
  <2>6. ReadyToRun' BY <1>0, <1>1, <2>0, <2>1, <2>2 DEF ReadyToRun
  <2>7. StopsOwnRun' BY <1>0, <1>1, <1>20, <2>0, <2>1, <2>2 DEF StopsOwnRun
  <2>8. AnsweredIsOver' BY <1>0, <1>1, <2>0, <2>1 DEF AnsweredIsOver
  <2> QED BY <2>3, <2>4, <2>5, <2>6, <2>7, <2>8 DEF RunsInv
<1> QED BY <1>2, <1>3 DEF Stop

LEMMA StoppedKeeps ==
  ASSUME NEW c \in StopCalls, RunsInv, Stopped(c) \/ StopFails(c)
  PROVE  RunsInv'
<1> USE RunsAssumption DEF Requests, RunRec
<1> DEFINE s == call[c].state
<1>0. /\ RunsTypeOK /\ CallsType /\ RegisteredIsAnswered /\ ReadyToRun /\ StopsOwnRun
      /\ AnsweredIsOver
  BY DEF RunsInv
<1>1. /\ c \in Requests /\ c \notin Starts /\ call[c].at = "on_stop" /\ UNCHANGED config
      /\ s \in Starts /\ s # c /\ call[s].at = "done" /\ run[s].status \in {"stopping", "error"}
  BY <1>0 DEF Stopped, StopFails, RunsTypeOK, CallsType, StopsOwnRun, Working
<1>20. \A d \in StopCalls : call[d].at = "on_stop" => call[d].state \in Starts
  BY <1>0 DEF RunsTypeOK, Working
<1>2. PICK code \in {200, 500} : Answer(c, code) /\ (code = 200 => live' = Disconnected(s))
  BY DEF Stopped, StopFails
<1>3. /\ live' = live \/ live' = Disconnected(s)
      /\ entry' = entry \/ entry' = Nowhere
      /\ run' = run \/ run' = [run EXCEPT ![s].status = "error"]
  BY DEF Stopped, StopFails
<1>4. CallBecomes(c, "done", s, code) BY <1>0, <1>1, <1>2, Answers DEF Codes
<1>5. PICK st \in {"stopping", "error"} : RunBecomes(s, st, run[s].mode)
  <2>1. CASE run' = run
    BY <1>0, <1>1, <2>1 DEF RunBecomes, RunsTypeOK
  <2>2. CASE run' = [run EXCEPT ![s].status = "error"]
    BY <1>0, <1>1, <2>2, StatusSet DEF RunStatus
  <2> QED BY <1>3, <2>1, <2>2
<1>6. /\ live' \in [Starts -> [connected : BOOLEAN, confirmed : BOOLEAN]]
      /\ \A d \in Starts : d # s => live'[d] = live[d]
      /\ ~live[s].connected => ~live'[s].connected
      /\ code = 200 => ~live'[s].connected
  <2>1. [connected |-> FALSE, confirmed |-> FALSE] \in [connected : BOOLEAN, confirmed : BOOLEAN]
    OBVIOUS
  <2>2. CASE live' = live /\ code # 200
    BY <1>0, <1>1, <2>2 DEF RunsTypeOK
  <2>3. CASE live' = Disconnected(s)
    BY <1>0, <1>1, <2>1, <2>3 DEF Disconnected, RunsTypeOK
  <2> QED BY <1>2, <1>3, <2>2, <2>3
<1> HIDE DEF s
<1> USE DEF CallBecomes, RunBecomes
<1>7. RunsTypeOK' BY <1>0, <1>1, <1>3, <1>4, <1>5, <1>6 DEF RunsTypeOK, Working
<1>8. CallsType' BY <1>0, <1>1, <1>4 DEF CallsType
<1>9. RegisteredIsAnswered'
  BY <1>0, <1>1, <1>3, <1>4, <1>5 DEF RegisteredIsAnswered, RunsTypeOK
<1>10. ReadyToRun' BY <1>0, <1>1, <1>4, <1>5, <1>6 DEF ReadyToRun
<1>11. StopsOwnRun' BY <1>0, <1>1, <1>20, <1>4, <1>5 DEF StopsOwnRun
<1>12. AnsweredIsOver' BY <1>0, <1>1, <1>4, <1>6 DEF AnsweredIsOver
<1> QED BY <1>7, <1>8, <1>9, <1>10, <1>11, <1>12 DEF RunsInv

LEMMA RunsStep ==
  ASSUME RunsInv, [RunsNext]_runvars
  PROVE  RunsInv'
<1>1. CASE UNCHANGED runvars
  BY <1>1 DEF runvars, RunsInv, RunsTypeOK, CallsType, RegisteredIsAnswered, ReadyToRun,
     StopsOwnRun, AnsweredIsOver, Working
<1>2. CASE RunsNext
  BY <1>2, StartKeeps, StartedKeeps, StopKeeps, StoppedKeeps DEF RunsNext
<1> QED BY <1>1, <1>2

\* The tables of runs, brokers and requests keep their types whatever overlaps.
THEOREM RunsTypeCorrect == RunsSpec => []RunsTypeOK
<1>1. RunsInv => RunsTypeOK BY DEF RunsInv
<1> QED BY RunsInitial, RunsStep, <1>1, PTL DEF RunsSpec

\* A live run that is reported as running has a connected broker, confirmed where the
\* configuration asks for it, however many starts and stops overlap.
THEOREM LiveRunsAreReady == RunsSpec => []RunningLiveIsReady
<1>1. RunsInv => RunningLiveIsReady
  BY DEF RunsInv, RunsTypeOK, ReadyToRun, RunningLiveIsReady
<1> QED BY RunsInitial, RunsStep, <1>1, PTL DEF RunsSpec

\* A stop that answers 200 has disconnected the run it stopped, for good.
THEOREM StopsDisconnect == RunsSpec => []StoppedIsDisconnected
<1>1. RunsInv => StoppedIsDisconnected
  BY DEF RunsInv, AnsweredIsOver, StoppedIsDisconnected
<1> QED BY RunsInitial, RunsStep, <1>1, PTL DEF RunsSpec
-----------------------------------------------------------------------------
(* Without overlaps and exceptions.                                        *)

LEMMA CalmStart ==
  ASSUME NEW c \in Starts, NEW mode \in Modes, NEW confirm \in BOOLEAN, RunsInv, Calm,
         Start(c, mode, confirm), mishaps' = {}
  PROVE  Calm'
<1> USE RunsAssumption DEF Requests
<1>0. RunsTypeOK /\ CallsType /\ RegisteredIsAnswered
  BY DEF RunsInv
<1>1. /\ c \in Requests /\ c \notin StopCalls /\ call[c].at = "new" /\ run[c].status = "none"
      /\ entry # c /\ config' = config /\ 400 \in Codes
  BY <1>0 DEF Start, RunsTypeOK, RegisteredIsAnswered, RunStatus, Codes
<1>2. CASE Answer(c, 400) /\ UNCHANGED <<entry, run, live, mishaps>>
  <2>1. CallBecomes(c, "done", call[c].state, 400) BY <1>0, <1>1, <1>2, Answers
  <2> QED BY <1>1, <1>2, <2>1 DEF CallBecomes, Calm, Working, RunsAlready
<1>3. CASE /\ ~RunsAlready /\ run' = [run EXCEPT ![c].mode = mode] /\ entry' = entry
           /\ live' = IF mode = "live"
                      THEN [live EXCEPT ![c] = [connected |-> TRUE, confirmed |-> confirm]]
                      ELSE live
           /\ call' = [call EXCEPT ![c].at = "on_start"] /\ Overlaps = {}
  <2>1. CallBecomes(c, "on_start", call[c].state, call[c].answer)
    BY <1>0, <1>1, <1>3, StartSuspends
  <2>2. RunBecomes(c, "none", mode) BY <1>0, <1>1, <1>3, ModeSet
  <2>3. \A d \in Requests : ~Working(d) BY <1>3 DEF Overlaps
  <2>4. \A d \in Starts : d # c => live'[d] = live[d]
    BY <1>0, <1>3 DEF RunsTypeOK
  <2>5. ~RunsAlready'
    BY <1>0, <1>1, <1>3, <2>2 DEF RunsAlready, RunBecomes, RunsTypeOK
  <2> QED
    BY <1>0, <1>1, <1>3, <2>1, <2>2, <2>3, <2>4, <2>5
    DEF CallBecomes, RunBecomes, Calm, Working, RunsTypeOK
<1> QED BY <1>1, <1>2, <1>3 DEF Start

LEMMA CalmStarted ==
  ASSUME NEW c \in Starts, RunsInv, RunsInv', Calm, Started(c)
  PROVE  Calm'
<1> USE RunsAssumption DEF Requests
<1>0. RunsTypeOK /\ CallsType /\ RegisteredIsAnswered
  BY DEF RunsInv
<1>1. /\ c \in Requests /\ c \notin StopCalls /\ call[c].at = "on_start" /\ Working(c)
      /\ run[c].status = "none" /\ entry' = c /\ live' = live
  BY <1>0 DEF Started, RunsTypeOK, RegisteredIsAnswered, RunStatus, Working
<1>2. CallBecomes(c, "done", call[c].state, 200) BY <1>0, <1>1, Answers DEF Started, Codes
<1>3. RunBecomes(c, "running", run[c].mode) BY <1>0, StatusSet DEF Started, RunStatus
<1>4. \A d \in Requests : ~Working(d)'
  BY <1>1, <1>2 DEF Calm, CallBecomes, Working
<1>5. \A d \in Starts : live[d].connected => d = c
  BY <1>1 DEF Calm, RunsAlready, Working
<1> QED BY <1>1, <1>2, <1>3, <1>4, <1>5 DEF Calm, RunBecomes, Working, RunsAlready

LEMMA CalmStop ==
  ASSUME NEW c \in StopCalls, RunsInv, Calm, Stop(c), mishaps' = {}
  PROVE  Calm'
<1> USE RunsAssumption DEF Requests
<1>0. RunsTypeOK /\ CallsType /\ RegisteredIsAnswered
  BY DEF RunsInv
<1>1. c \in Requests /\ c \notin Starts /\ call[c].at = "new" /\ UNCHANGED <<entry, live>>
  BY DEF Stop
<1>2. ASSUME NEW code \in {404, 400}, Answer(c, code), run' = run
      PROVE  Calm'
  <2>1. CallBecomes(c, "done", call[c].state, code) BY <1>0, <1>1, <1>2, Answers DEF Codes
  <2> QED BY <1>1, <1>2, <2>1 DEF CallBecomes, Calm, Working, RunsAlready
<1>3. CASE /\ RunsAlready /\ run' = [run EXCEPT ![entry].status = "stopping"]
           /\ call' = [call EXCEPT ![c] = [@ EXCEPT !.at = "on_stop", !.state = entry]]
           /\ Overlaps = {}
  <2>0. entry \in Starts
    BY <1>0, <1>3 DEF RunsAlready, RunsTypeOK
  <2>1. CallBecomes(c, "on_stop", entry, call[c].answer) BY <1>0, <1>1, <1>3, <2>0, StopSuspends
  <2>2. RunBecomes(entry, "stopping", run[entry].mode) BY <1>0, <1>3, <2>0, StatusSet DEF RunStatus
  <2>3. \A d \in Requests : ~Working(d) BY <1>3 DEF Overlaps
  <2>4. \A d \in Requests : d # c => ~Working(d)'
    BY <2>1, <2>3 DEF CallBecomes, Working
  <2>5. \A d \in Starts : live[d].connected => entry = d
    BY <2>3 DEF Calm, Working
  <2>6. Working(c)'
    BY <2>1 DEF CallBecomes, Working
  <2> QED
    BY <1>1, <2>0, <2>1, <2>2, <2>4, <2>5, <2>6
    DEF CallBecomes, RunBecomes, Calm, Working, RunsAlready
<1> QED BY <1>2, <1>3 DEF Stop

LEMMA CalmStopped ==
  ASSUME NEW c \in StopCalls, RunsInv, Calm, Stopped(c), mishaps' = {}
  PROVE  Calm'
<1> USE RunsAssumption DEF Requests
<1> DEFINE s == call[c].state
<1>0. RunsTypeOK /\ CallsType /\ StopsOwnRun
  BY DEF RunsInv
<1>1. /\ c \in Requests /\ c \notin Starts /\ call[c].at = "on_stop" /\ Working(c)
      /\ s \in Starts /\ entry = s /\ live' = Disconnected(s)
  BY <1>0 DEF Stopped, Calm, RunsTypeOK, Working
<1>2. entry' = Nowhere /\ Answer(c, 200) /\ run' = run
  BY <1>0, <1>1 DEF Stopped, RunsTypeOK
<1>3. CallBecomes(c, "done", s, 200) BY <1>0, <1>1, <1>2, Answers DEF Codes
<1>4. \A d \in Requests : ~Working(d)'
  BY <1>1, <1>3 DEF Calm, CallBecomes, Working
<1>5. \A d \in Starts : ~live'[d].connected
  <2>1. \A d \in Starts : live[d].connected => d = s
    BY <1>1 DEF Calm, Working
  <2>2. ~live'[s].connected
    BY <1>0, <1>1 DEF Disconnected, RunsTypeOK
  <2>3. \A d \in Starts : d # s => live'[d] = live[d]
    BY <1>0, <1>1 DEF Disconnected, RunsTypeOK
  <2> QED BY <2>1, <2>2, <2>3
<1> QED BY <1>2, <1>4, <1>5 DEF Calm, Working, RunsAlready

LEMMA CalmStep ==
  ASSUME RunsInv, RunsInv', CalmInv, [RunsNext]_runvars
  PROVE  CalmInv'
<1> SUFFICES ASSUME mishaps' = {} PROVE Calm'
  BY DEF CalmInv
<1>1. CASE UNCHANGED runvars
  BY <1>1 DEF runvars, CalmInv, Calm, Working, RunsAlready
<1>2. CASE RunsNext
  <2>1. ASSUME NEW c \in Starts, NEW mode \in Modes, NEW confirm \in BOOLEAN,
               Start(c, mode, confirm)
        PROVE  Calm'
    <3>1. mishaps = {} BY <2>1 DEF Start
    <3> QED BY <2>1, <3>1, CalmStart DEF CalmInv
  <2>2. ASSUME NEW c \in Starts, Started(c)
        PROVE  Calm'
    <3>1. mishaps = {} BY <2>2 DEF Started
    <3> QED BY <2>2, <3>1, CalmStarted DEF CalmInv
  <2>3. ASSUME NEW c \in StopCalls, Stop(c)
        PROVE  Calm'
    <3>1. mishaps = {} BY <2>3 DEF Stop
    <3> QED BY <2>3, <3>1, CalmStop DEF CalmInv
  <2>4. ASSUME NEW c \in StopCalls, Stopped(c)
        PROVE  Calm'
    <3>1. mishaps = {} BY <2>4 DEF Stopped
    <3> QED BY <2>4, <3>1, CalmStopped DEF CalmInv
  <2>5. \A c \in Starts : ~StartFails(c) BY DEF StartFails
  <2>6. \A c \in StopCalls : ~StopFails(c) BY DEF StopFails
  <2> QED BY <1>2, <2>1, <2>2, <2>3, <2>4, <2>5, <2>6 DEF RunsNext
<1> QED BY <1>1, <1>2

LEMMA CalmHolds == RunsSpec => [](RunsInv /\ CalmInv)
<1>1. RunsInit => CalmInv
  BY DEF RunsInit, CalmInv, Calm, Working, Requests
<1> QED BY RunsInitial, RunsStep, CalmStep, <1>1, PTL DEF RunsSpec

\* As long as requests do not overlap and nothing raises, no stop leaves a connected
\* broker behind.
THEOREM NoBrokerStays == RunsSpec => []NoBrokerLeft
<1>1. CalmInv => NoBrokerLeft
  BY DEF CalmInv, Calm, NoBrokerLeft
<1> QED BY CalmHolds, <1>1, PTL

\* Under the same condition no two brokers are connected, and nothing runs while a
\* start is suspended.
THEOREM RunsTakeTurns == RunsSpec => []OneRunAtATime
<1>1. ASSUME RunsInv, CalmInv, mishaps = {}
      PROVE  Cardinality({c \in Starts : live[c].connected}) <= 1
  <2> DEFINE C == {c \in Starts : live[c].connected}
  <2>1. \A c, d \in C : c = d
    <3>1. SUFFICES ASSUME NEW c \in C, NEW d \in C, c # d PROVE FALSE
      OBVIOUS
    <3>2. Calm BY <1>1 DEF CalmInv
    <3>3. \A e \in Starts : call[e].at = "on_start" => Working(e) BY DEF Working
    <3>4. \A e \in Starts : e \in Requests /\ e \notin StopCalls
      BY RunsAssumption DEF Requests
    <3>5. PICK a \in Starts, b \in Starts :
            entry = a /\ run[a].status \in {"running", "stopping"} /\ call[b].at = "on_start"
      BY <3>1, <3>2, <3>3, <3>4 DEF Calm
    <3>6. run[a].status = "stopping"
      BY <3>2, <3>5, RunsAssumption DEF Calm, RunsAlready
    <3>7. PICK z \in StopCalls : Working(z)
      BY <3>2, <3>5, <3>6, RunsAssumption DEF Calm
    <3> QED BY <3>2, <3>3, <3>4, <3>5, <3>7 DEF Calm, Requests
  <2>2. CASE C = {}
    BY <2>2, FS_EmptySet
  <2>3. CASE C # {}
    <3>1. PICK c \in C : C = {c} BY <2>1, <2>3
    <3>2. Cardinality({c}) = 1 BY FS_Singleton
    <3>3. Cardinality(C) = 1 BY <3>1, <3>2
    <3> QED BY <3>3
  <2> QED BY <2>2, <2>3
<1>2. RunsInv /\ CalmInv => OneRunAtATime
  BY <1>1 DEF CalmInv, Calm, OneRunAtATime
<1> QED BY CalmHolds, <1>2, PTL
\* Starts and stops as a whole, for any number of calls that interleave.
THEOREM RunsAreSound == RunsSpec => []RunsSound
<1>1. /\ RunsTypeOK /\ RunningLiveIsReady /\ StoppedIsDisconnected
      /\ NoBrokerLeft /\ OneRunAtATime
      => RunsSound
  BY DEF RunsSound
<1> QED
  BY RunsTypeCorrect, LiveRunsAreReady, StopsDisconnect, NoBrokerStays, RunsTakeTurns, <1>1, PTL
-----------------------------------------------------------------------------
(* The feed of Greeks: who is connected and what a broadcast reaches.      *)

CastRec == [at : {"new", "sending", "done"},
            to : SUBSET Sockets, left : SUBSET Sockets, failed : SUBSET Sockets]

SockType ==
  /\ sock \in [Sockets -> {"new", "open", "left", "ended"}] /\ listed \subseteq Sockets
  /\ cast \in [Broadcasts -> CastRec] /\ got \in [Sockets -> SUBSET Broadcasts]

\* Who is listed, or in the snapshot of a broadcast, has connected: what failed for
\* it failed for good, since a client connects once.
StartedOnly ==
  /\ \A s \in listed : sock[s] # "new"
  /\ \A b \in Broadcasts : \A s \in cast[b].to : sock[s] # "new"

FailedHasLeft == \A b \in Broadcasts : \A s \in cast[b].failed : sock[s] \in {"left", "ended"}

\* Whom a broadcast was for is ahead of it, has it, or has failed.
NobodyForgotten ==
  \A b \in Broadcasts :
    /\ cast[b].left \subseteq cast[b].to
    /\ cast[b].at # "sending" => cast[b].left = {}
    /\ \A s \in cast[b].to : s \in cast[b].left \/ b \in got[s] \/ s \in cast[b].failed

FeedInv ==
  /\ SockType /\ OpenIsListed /\ StartedOnly /\ FailedHasLeft /\ NobodyForgotten
  /\ FailedIsDropped

LEMMA FeedInitially == FeedInit => FeedInv
  BY DEF FeedInit, FeedInv, SockType, CastRec, OpenIsListed, StartedOnly, FailedHasLeft,
         NobodyForgotten, FailedIsDropped

\* Calls of a client and its endpoint: its own state moves on, and the list with it.
LEMMA ClientKeepsFeed ==
  ASSUME FeedInv, NEW s \in Sockets, Listen(s) \/ Leave(s) \/ EndpointEnds(s)
  PROVE  FeedInv'
<1>0. UNCHANGED <<cast, got>>
  BY DEF Listen, Leave, EndpointEnds
<1>1. CASE Listen(s)
  <2>1. /\ sock[s] = "new" /\ sock' = [sock EXCEPT ![s] = "open"] /\ listed' = listed \cup {s}
    BY <1>1 DEF Listen
  <2>2. SockType' BY <1>0, <2>1 DEF FeedInv, SockType
  <2>3. OpenIsListed' BY <2>1 DEF FeedInv, SockType, OpenIsListed
  <2>4. StartedOnly' BY <1>0, <2>1 DEF FeedInv, SockType, StartedOnly, CastRec
  <2>5. FailedHasLeft' BY <1>0, <2>1 DEF FeedInv, SockType, FailedHasLeft, CastRec
  <2>6. NobodyForgotten' BY <1>0 DEF FeedInv, NobodyForgotten
  <2>7. FailedIsDropped'
    <3>1. \A b \in Broadcasts : s \notin cast[b].failed
      BY <2>1 DEF FeedInv, FailedHasLeft
    <3> QED BY <1>0, <2>1, <3>1 DEF FeedInv, FailedIsDropped
  <2> QED BY <2>2, <2>3, <2>4, <2>5, <2>6, <2>7 DEF FeedInv
<1>2. CASE Leave(s) \/ EndpointEnds(s)
  <2>1. /\ sock[s] \in {"open", "left"} /\ sock' \in [Sockets -> {"new", "open", "left", "ended"}]
        /\ sock'[s] \in {"left", "ended"} /\ \A r \in Sockets : r # s => sock'[r] = sock[r]
        /\ listed' = listed \ {s} \/ listed' = listed
    BY <1>2 DEF Leave, EndpointEnds, FeedInv, SockType
  <2>2. SockType' BY <1>0, <2>1 DEF FeedInv, SockType
  <2>3. OpenIsListed' BY <2>1 DEF FeedInv, SockType, OpenIsListed
  <2>4. StartedOnly' BY <1>0, <2>1 DEF FeedInv, SockType, StartedOnly, CastRec
  <2>5. FailedHasLeft' BY <1>0, <2>1 DEF FeedInv, SockType, FailedHasLeft, CastRec
  <2>6. NobodyForgotten' BY <1>0 DEF FeedInv, NobodyForgotten
  <2>7. FailedIsDropped' BY <1>0, <2>1 DEF FeedInv, FailedIsDropped
  <2> QED BY <2>2, <2>3, <2>4, <2>5, <2>6, <2>7 DEF FeedInv
<1> QED BY <1>1, <1>2

LEMMA BroadcastKeepsFeed ==
  ASSUME FeedInv, NEW b \in Broadcasts, Broadcast(b)
  PROVE  FeedInv'
<1>0. UNCHANGED <<sock, listed, got>> /\ cast[b].at = "new"
  BY DEF Broadcast
<1>1. listed \subseteq Sockets BY DEF FeedInv, SockType
<1> DEFINE d == [cast[b] EXCEPT !.at = IF listed = {} THEN "done" ELSE "sending",
                                !.to = listed, !.left = listed]
<1>2. cast[b] \in CastRec BY DEF FeedInv, SockType
<1>3. /\ d \in CastRec /\ d.to = listed /\ d.left = listed /\ d.failed = cast[b].failed
      /\ d.at \in {"done", "sending"} /\ (d.at = "done" => listed = {})
  BY <1>1, <1>2 DEF CastRec
<1>4. cast' = [cast EXCEPT ![b] = d] BY DEF Broadcast
<1> HIDE DEF d
<1>5. \A x \in Broadcasts : cast'[x] = IF x = b THEN d ELSE cast[x]
  BY <1>4 DEF FeedInv, SockType
<1>6. SockType' BY <1>0, <1>3, <1>4 DEF FeedInv, SockType
<1>7. OpenIsListed' BY <1>0 DEF FeedInv, OpenIsListed
<1>8. StartedOnly' BY <1>0, <1>3, <1>5 DEF FeedInv, StartedOnly
<1>9. FailedHasLeft' BY <1>0, <1>3, <1>5 DEF FeedInv, FailedHasLeft
<1>10. NobodyForgotten' BY <1>0, <1>3, <1>5 DEF FeedInv, NobodyForgotten
<1>11. FailedIsDropped' BY <1>0, <1>3, <1>5 DEF FeedInv, FailedIsDropped
<1> QED BY <1>6, <1>7, <1>8, <1>9, <1>10, <1>11 DEF FeedInv

\* The client gets the broadcast, or the send fails: nobody whose client is
\* connected fails.
LEMMA SendKeepsFeed ==
  ASSUME FeedInv, NEW b \in Broadcasts, NEW s \in Sockets, Send(b, s)
  PROVE  FeedInv'
<1>0. /\ UNCHANGED <<sock, listed>> /\ cast[b].at = "sending" /\ s \in cast[b].left
      /\ cast[b] \in CastRec
  BY DEF Send, FeedInv, SockType
<1>2. PICK d : /\ cast' = [cast EXCEPT ![b] = d]
               /\ d \in CastRec /\ d.at = "sending" /\ d.to = cast[b].to
               /\ d.left = cast[b].left \ {s}
               /\ \/ d.failed = cast[b].failed /\ got' = [got EXCEPT ![s] = @ \cup {b}]
                  \/ d.failed = cast[b].failed \cup {s} /\ sock[s] # "open" /\ got' = got
  <2>1. CASE /\ got' = [got EXCEPT ![s] = @ \cup {b}]
             /\ cast' = [cast EXCEPT ![b].left = @ \ {s}]
    <3> DEFINE e == [cast[b] EXCEPT !.left = @ \ {s}]
    <3>1. /\ e \in CastRec /\ e.at = cast[b].at /\ e.to = cast[b].to
          /\ e.left = cast[b].left \ {s} /\ e.failed = cast[b].failed
      BY <1>0 DEF CastRec
    <3>2. cast' = [cast EXCEPT ![b] = e] BY <2>1
    <3> QED BY <1>0, <2>1, <3>1, <3>2
  <2>2. CASE /\ sock[s] # "open" /\ got' = got
             /\ cast' = [cast EXCEPT ![b] = [@ EXCEPT !.left = cast[b].left \ {s},
                                                      !.failed = cast[b].failed \cup {s}]]
    <3> DEFINE e == [cast[b] EXCEPT !.left = cast[b].left \ {s}, !.failed = cast[b].failed \cup {s}]
    <3>1. /\ e \in CastRec /\ e.at = cast[b].at /\ e.to = cast[b].to
          /\ e.left = cast[b].left \ {s} /\ e.failed = cast[b].failed \cup {s}
      BY <1>0 DEF CastRec
    <3>2. cast' = [cast EXCEPT ![b] = e] BY <2>2
    <3> QED BY <1>0, <2>2, <3>1, <3>2
  <2> QED BY <2>1, <2>2 DEF Send, AfterError
<1>3. \A x \in Broadcasts : cast'[x] = IF x = b THEN d ELSE cast[x]
  BY <1>2 DEF FeedInv, SockType
<1>4. /\ got' \in [Sockets -> SUBSET Broadcasts]
      /\ \A r \in Sockets : got[r] \subseteq got'[r]
      /\ b \in got'[s] \/ s \in d.failed
  BY <1>2 DEF FeedInv, SockType
<1>5. SockType' BY <1>0, <1>2, <1>4 DEF FeedInv, SockType
<1>6. OpenIsListed' BY <1>0 DEF FeedInv, OpenIsListed
<1>7. StartedOnly' BY <1>0, <1>2, <1>3 DEF FeedInv, StartedOnly
<1>8. FailedHasLeft'
  <2>1. s \in cast[b].to BY <1>0 DEF FeedInv, NobodyForgotten
  <2>2. sock[s] \in {"open", "left", "ended"}
    BY <2>1 DEF FeedInv, StartedOnly, SockType
  <2>3. \A r \in d.failed : sock[r] \in {"left", "ended"}
    BY <1>2, <2>2 DEF FeedInv, FailedHasLeft
  <2> QED BY <1>0, <1>3, <2>3 DEF FeedInv, FailedHasLeft
<1>9. NobodyForgotten'
  <2>1. \A r \in d.to : r \in d.left \/ b \in got'[r] \/ r \in d.failed
    BY <1>2, <1>4 DEF FeedInv, NobodyForgotten, CastRec
  <2>2. ASSUME NEW x \in Broadcasts, x # b
        PROVE  \A r \in cast[x].to : r \in cast[x].left \/ x \in got'[r] \/ r \in cast[x].failed
    BY <1>4 DEF FeedInv, NobodyForgotten, SockType, CastRec
  <2>3. d.left \subseteq d.to
    BY <1>2 DEF FeedInv, NobodyForgotten
  <2> QED BY <1>2, <1>3, <2>1, <2>2, <2>3 DEF FeedInv, NobodyForgotten
<1>10. FailedIsDropped' BY <1>0, <1>2, <1>3 DEF FeedInv, FailedIsDropped
<1> QED BY <1>5, <1>6, <1>7, <1>8, <1>9, <1>10 DEF FeedInv

\* What failed is taken off the list, and nobody else.
LEMMA EndKeepsFeed ==
  ASSUME FeedInv, NEW b \in Broadcasts, BroadcastEnds(b)
  PROVE  FeedInv'
<1>0. /\ UNCHANGED <<sock, got>> /\ cast[b].left = {} /\ cast[b] \in CastRec
      /\ listed' = listed \ cast[b].failed
  BY DEF BroadcastEnds, Dropped, FeedInv, SockType
<1> DEFINE d == [cast[b] EXCEPT !.at = "done"]
<1>1. /\ d \in CastRec /\ d.at = "done" /\ d.to = cast[b].to /\ d.left = cast[b].left
      /\ d.failed = cast[b].failed
  BY <1>0 DEF CastRec
<1>2. cast' = [cast EXCEPT ![b] = d] BY DEF BroadcastEnds
<1> HIDE DEF d
<1>3. \A x \in Broadcasts : cast'[x] = IF x = b THEN d ELSE cast[x]
  BY <1>2 DEF FeedInv, SockType
<1>4. SockType' BY <1>0, <1>1, <1>2 DEF FeedInv, SockType
<1>5. OpenIsListed' BY <1>0 DEF FeedInv, OpenIsListed, FailedHasLeft
<1>6. StartedOnly' BY <1>0, <1>1, <1>3 DEF FeedInv, StartedOnly
<1>7. FailedHasLeft' BY <1>0, <1>1, <1>3 DEF FeedInv, FailedHasLeft
<1>8. NobodyForgotten' BY <1>0, <1>1, <1>3 DEF FeedInv, NobodyForgotten
<1>9. FailedIsDropped' BY <1>0, <1>1, <1>3 DEF FeedInv, FailedIsDropped
<1> QED BY <1>4, <1>5, <1>6, <1>7, <1>8, <1>9 DEF FeedInv

LEMMA FeedHolds == FeedSpec => []FeedInv
<1>1. ASSUME FeedInv, [FeedNext]_feedvars PROVE FeedInv'
  <2>1. CASE UNCHANGED sockvars
    BY <1>1, <2>1 DEF sockvars, FeedInv, SockType, OpenIsListed, StartedOnly, FailedHasLeft,
                      NobodyForgotten, FailedIsDropped
  <2>2. CASE SocketsNext
    BY <1>1, <2>2, ClientKeepsFeed, BroadcastKeepsFeed, SendKeepsFeed, EndKeepsFeed
    DEF SocketsNext
  <2>3. CASE VolNext
    BY <2>1, <2>3 DEF VolNext, Hour, SetVol, AskOption, SetUnderlying, AskUnderlying
  <2> QED BY <1>1, <2>1, <2>2, <2>3 DEF FeedNext, feedvars
<1> QED BY FeedInitially, <1>1, PTL DEF FeedSpec

\* A connected client stays on the list through broadcasts side by side, others'
\* failures and others' leaving.
THEOREM ConnectedStayListed == FeedSpec => []OpenIsListed
<1>1. FeedInv => OpenIsListed BY DEF FeedInv
<1> QED BY FeedHolds, <1>1, PTL

\* A finished broadcast reached each client of its snapshot that is still connected.
THEOREM BroadcastsReach == FeedSpec => []EveryClientReached
<1>1. FeedInv => EveryClientReached
  <2> SUFFICES ASSUME FeedInv, NEW b \in Broadcasts, NEW s \in Sockets,
                      cast[b].at = "done", s \in cast[b].to, sock[s] = "open"
               PROVE  b \in got[s]
    BY DEF EveryClientReached
  <2>1. s \notin cast[b].failed BY DEF FeedInv, FailedHasLeft
  <2>2. cast[b].left = {} BY DEF FeedInv, NobodyForgotten
  <2> QED BY <2>1, <2>2 DEF FeedInv, NobodyForgotten
<1> QED BY FeedHolds, <1>1, PTL

\* A socket whose send failed is off the list once the broadcast is over, and stays off.
THEOREM FailedStayOff == FeedSpec => []FailedIsDropped
<1>1. FeedInv => FailedIsDropped BY DEF FeedInv
<1> QED BY FeedHolds, <1>1, PTL
-----------------------------------------------------------------------------
(* The implied volatilities: what Redis keeps has an age, and an answer was  *)
(* as young when it was given as its kind allows.                            *)

VolKeys == VolOptions \cup {"underlying"}

VolInv ==
  /\ redis \in [VolKeys -> [age : 0..MaxAge, ttl : 0..UnderlyingTTL]]
  /\ writing \subseteq 0..MaxAge
  /\ query \in [Queries -> [at : {"new", "own", "second", "underlying", "default"}, age : 0..MaxAge]]
  /\ VolIsFresh

LEMMA Hours ==
  /\ OptionTTL \in 0..UnderlyingTTL /\ UnderlyingTTL \in 0..UnderlyingTTL
  /\ MaxAge \in Nat /\ 0 \in 0..MaxAge /\ 0 \in 0..UnderlyingTTL
  BY FeedAssumption

LEMMA AgesGrow == \A n \in 0..MaxAge : Older(n) \in 0..MaxAge
  BY Hours DEF Older

LEMMA VolInitially == FeedInit => VolInv
  BY Hours DEF FeedInit, VolInv, VolKeys, NoValueKept, VolIsFresh

LEMMA HourKeepsVol ==
  ASSUME VolInv, Hour
  PROVE  VolInv'
<1>1. \A k \in VolKeys : redis[k] \in [age : 0..MaxAge, ttl : 0..UnderlyingTTL]
  BY DEF VolInv
<1>2. ASSUME NEW k \in VolKeys
      PROVE  /\ redis[k].age \in 0..MaxAge /\ redis[k].ttl \in 0..UnderlyingTTL
             /\ ~(redis[k].ttl <= 1) => redis[k].ttl - 1 \in 0..UnderlyingTTL
  BY <1>1, FeedAssumption
<1>3. redis' \in [VolKeys -> [age : 0..MaxAge, ttl : 0..UnderlyingTTL]]
  <2>1. DOMAIN redis = VolKeys BY DEF VolInv
  <2> QED BY <1>2, <2>1, Hours, AgesGrow DEF Hour, NoValueKept
<1>4. writing' \subseteq 0..MaxAge BY AgesGrow DEF Hour, VolInv
<1>5. UNCHANGED query BY DEF Hour
<1> QED BY <1>3, <1>4, <1>5 DEF VolInv, VolIsFresh

LEMMA VolStep ==
  ASSUME VolInv, FeedNext \/ UNCHANGED feedvars
  PROVE  VolInv'
<1> DEFINE Value == [age : 0..MaxAge, ttl : 0..UnderlyingTTL]
<1>1. ASSUME NEW o \in VolOptions, NEW age \in 0..MaxAge, SetVol(o, age)
      PROVE  VolInv'
  <2>1. [age |-> age, ttl |-> OptionTTL] \in Value BY Hours
  <2>2. o \in VolKeys BY DEF VolKeys
  <2> QED BY <1>1, <2>1, <2>2 DEF SetVol, VolInv, VolIsFresh
<1>2. ASSUME NEW age \in writing, SetUnderlying(age)
      PROVE  VolInv'
  <2>1. age \in 0..MaxAge BY DEF VolInv
  <2>2. [age |-> age, ttl |-> UnderlyingTTL] \in Value BY <2>1, Hours
  <2>3. "underlying" \in VolKeys BY DEF VolKeys
  <2> QED BY <1>2, <2>2, <2>3 DEF SetUnderlying, VolInv, VolIsFresh
<1>3. ASSUME NEW q \in Queries, NEW o \in VolOptions, AskOption(q, o)
      PROVE  VolInv'
  <2>1. redis[o].age \in 0..MaxAge BY DEF VolInv, VolKeys
  <2>2. CASE Usable(o, OptionTTL) /\ query' = [query EXCEPT ![q] = [at |-> "own", age |-> redis[o].age]]
    BY <1>3, <2>1, <2>2 DEF AskOption, VolInv, VolIsFresh, Usable
  <2>3. CASE query' = [query EXCEPT ![q].at = "second"]
    BY <1>3, <2>3 DEF AskOption, VolInv, VolIsFresh
  <2> QED BY <1>3, <2>2, <2>3 DEF AskOption
<1>4. ASSUME NEW q \in Queries, AskUnderlying(q)
      PROVE  VolInv'
  <2>1. redis["underlying"].age \in 0..MaxAge BY DEF VolInv, VolKeys
  <2>2. CASE /\ Usable("underlying", UnderlyingTTL)
             /\ query' = [query EXCEPT ![q] = [at |-> "underlying", age |-> redis["underlying"].age]]
    BY <1>4, <2>1, <2>2 DEF AskUnderlying, VolInv, VolIsFresh, Usable
  <2>3. CASE query' = [query EXCEPT ![q].at = "default"]
    BY <1>4, <2>3 DEF AskUnderlying, VolInv, VolIsFresh
  <2> QED BY <1>4, <2>2, <2>3 DEF AskUnderlying
<1>5. CASE VolNext
  BY <1>1, <1>2, <1>3, <1>4, <1>5, HourKeepsVol DEF VolNext
<1>6. CASE SocketsNext \/ UNCHANGED feedvars
  <2>1. UNCHANGED volvars
    BY <1>6 DEF SocketsNext, Listen, Leave, EndpointEnds, Send, Broadcast, BroadcastEnds, feedvars
  <2> QED BY <2>1 DEF volvars, VolInv, VolIsFresh
<1> QED BY <1>5, <1>6 DEF FeedNext

\* No volatility is used that is older than its kind allows, however old it was when
\* it was written and however long Redis keeps it.
THEOREM VolsAreFresh == FeedSpec => [](VolInv /\ VolIsFresh)
<1>1. VolInv /\ [FeedNext]_feedvars => VolInv' BY VolStep
<1>2. VolInv => VolIsFresh BY DEF VolInv
<1> QED BY VolInitially, <1>1, <1>2, PTL DEF FeedSpec

\* The feed as a whole, for any clients, broadcasts, options and times to live.
THEOREM FeedIsSound == FeedSpec => []FeedSound
<1>1. FeedInv /\ VolInv => FeedTypeOK
  <2> SUFFICES ASSUME FeedInv, VolInv PROVE FeedTypeOK
    OBVIOUS
  <2>1. \A b \in Broadcasts : cast[b].at \in {"new", "sending", "done"} /\ cast[b].left \subseteq cast[b].to
    BY DEF FeedInv, SockType, CastRec, NobodyForgotten
  <2>2. \A k \in DOMAIN redis : redis[k].age \in 0..MaxAge /\ redis[k].ttl \in 0..UnderlyingTTL
    BY DEF VolInv
  <2> QED BY <2>1, <2>2 DEF FeedTypeOK, FeedInv, SockType
<1>2. FeedTypeOK /\ EveryClientReached /\ FailedIsDropped /\ OpenIsListed /\ VolIsFresh => FeedSound
  BY DEF FeedSound
<1> QED
  BY FeedHolds, BroadcastsReach, FailedStayOff, ConnectedStayListed, VolsAreFresh, <1>1, <1>2, PTL
-----------------------------------------------------------------------------
(* The clients of OpenD: who shares one, and who closes it.                *)

InstRec == [client : {"none", "failed", "open"}, backoff : 0..MaxBackoff, since : 0..MaxBackoff]

ThreadRec ==
  [at : {"new", "asking", "failed", "calling", "asleep", "done"}, mine : Instances \cup {0},
   call : {"prices", "greeks"}, attempt : 0..(MaxRetries - 1), sleep : 0..MaxRetries,
   cut : BOOLEAN, got : {"none", "data", "empty"}]

FutuTypes ==
  /\ current \in Instances \cup {0} /\ made \in Instances \cup {0}
  /\ inst \in [Instances -> InstRec] /\ thread \in [Threads -> ThreadRec]

\* Whoever fetches does it through an instance.
HoldersHold == \A t \in Threads : thread[t].at \notin {"new", "done"} => thread[t].mine \in Instances

\* A connection that was made clears the errors: while an instance backs off there is
\* no open client in it, and so nobody to take it from.
OpenIsCalm == \A i \in Instances : inst[i].client = "open" => inst[i].backoff = 0

\* Within the second of its error, a handler finds its instance backing off.
HandledInTime ==
  "late" \notin upsets =>
    \A t \in Threads : thread[t].at = "failed" => BacksOff(thread[t].mine)

\* Unless an instance was replaced under a thread, all of them fetch through the
\* current one.
AllHoldCurrent ==
  "held" \notin upsets =>
    \A t \in Threads : thread[t].at \notin {"new", "done"} => thread[t].mine = current

FutuInv ==
  /\ FutuTypes /\ HoldersHold /\ OpenIsCalm /\ HandledInTime /\ AllHoldCurrent
  /\ DropsOnlyWhenLate /\ ReplacedIsClosed

LEMMA BackoffGrows ==
  \A b \in 0..MaxBackoff : NextBackoff(b) \in 1..MaxBackoff
  BY FutuAssumption DEF NextBackoff

LEMMA FutuInitially == FutuInit => FutuInv
<1> SUFFICES ASSUME FutuInit PROVE FutuInv
  OBVIOUS
<1>1. Fresh \in InstRec /\ Fresh.client = "none"
  BY FutuAssumption DEF Fresh, InstRec
<1>2. FutuTypes
  BY <1>1, FutuAssumption DEF FutuInit, FutuTypes, ThreadRec
<1>3. HoldersHold /\ OpenIsCalm /\ HandledInTime /\ AllHoldCurrent
  BY <1>1 DEF FutuInit, HoldersHold, OpenIsCalm, HandledInTime, AllHoldCurrent
<1>4. DropsOnlyWhenLate /\ ReplacedIsClosed
  BY <1>1 DEF FutuInit, DropsOnlyWhenLate, ReplacedIsClosed
<1> QED BY <1>2, <1>3, <1>4 DEF FutuInv

\* What a thread becomes when its call is over, or its attempt failed.
LEMMA ThreadGoesOn ==
  ASSUME NEW th \in ThreadRec
  PROVE  /\ \A result \in {"data", "empty"} :
              /\ Over(th, result) \in ThreadRec /\ Over(th, result).mine = th.mine
              /\ Over(th, result).at \in {"asking", "done"}
         /\ NextAttempt(th) \in ThreadRec /\ NextAttempt(th).mine = th.mine
         /\ NextAttempt(th).at \in {"asleep", "asking", "done"}
<1>1. 0 \in 0..(MaxRetries - 1)
  BY FutuAssumption
<1>2. ASSUME NEW result \in {"data", "empty"}
      PROVE  /\ Over(th, result) \in ThreadRec /\ Over(th, result).mine = th.mine
             /\ Over(th, result).at \in {"asking", "done"}
  BY <1>1 DEF Over, ThreadRec
<1>3. CASE th.attempt + 1 < MaxRetries
  <2>1. th.attempt + 1 \in 0..(MaxRetries - 1) /\ th.attempt + 1 \in 0..MaxRetries
    BY <1>3, FutuAssumption DEF ThreadRec
  <2> QED BY <1>2, <1>3, <2>1 DEF NextAttempt, ThreadRec
<1>4. CASE ~(th.attempt + 1 < MaxRetries)
  BY <1>2, <1>4 DEF NextAttempt
<1> QED BY <1>2, <1>3, <1>4

\* A step of one thread that leaves every instance alone, and does not fail.
LEMMA ThreadKeeps ==
  ASSUME FutuInv, NEW t \in Threads, NEW th \in ThreadRec,
         thread' = [thread EXCEPT ![t] = th], UNCHANGED <<current, made, inst, upsets>>,
         th.at \notin {"new", "failed"}, thread[t].at \notin {"new", "done"},
         th.mine = thread[t].mine
  PROVE  FutuInv'
<1>1. \A r \in Threads : thread'[r] = IF r = t THEN th ELSE thread[r]
  BY DEF FutuInv, FutuTypes
<1>2. FutuTypes'
  BY DEF FutuInv, FutuTypes
<1>3. HoldersHold' /\ AllHoldCurrent'
  BY <1>1 DEF FutuInv, HoldersHold, AllHoldCurrent
<1>4. HandledInTime'
  BY <1>1 DEF FutuInv, HandledInTime, BacksOff
<1> QED BY <1>2, <1>3, <1>4 DEF FutuInv, OpenIsCalm, DropsOnlyWhenLate, ReplacedIsClosed

LEMMA ObtainKeeps ==
  ASSUME FutuInv, NEW t \in Threads, Obtain(t)
  PROVE  FutuInv'
<1> DEFINE th == [thread[t] EXCEPT !.at = "asking", !.mine = current']
<1>1. /\ thread[t] \in ThreadRec /\ UNCHANGED <<inst, resets, upsets>> /\ thread[t].at = "new"
      /\ current' \in Instances /\ made' \in Instances \cup {0}
      /\ current # 0 => current' = current
      /\ current \in Instances \cup {0} /\ 0 \notin Instances
  BY DEF Obtain, FutuInv, FutuTypes, Instances
<1>2. PICK c \in Instances : c = current'
  BY <1>1
<1>3. th \in ThreadRec /\ th.at = "asking" /\ th.mine = c
  BY <1>1, <1>2 DEF ThreadRec
<1>4. thread' = [thread EXCEPT ![t] = th]
  BY DEF Obtain
<1> HIDE DEF th
<1>5. \A r \in Threads : thread'[r] = IF r = t THEN th ELSE thread[r]
  BY <1>4 DEF FutuInv, FutuTypes
<1>6. FutuTypes'
  BY <1>1, <1>3, <1>4 DEF FutuInv, FutuTypes
<1>7. HoldersHold' /\ HandledInTime' /\ OpenIsCalm' /\ DropsOnlyWhenLate'
  BY <1>1, <1>3, <1>5 DEF FutuInv, HoldersHold, HandledInTime, OpenIsCalm, DropsOnlyWhenLate, BacksOff
<1>8. AllHoldCurrent'
  BY <1>1, <1>2, <1>3, <1>5 DEF FutuInv, AllHoldCurrent, HoldersHold
<1>9. ReplacedIsClosed'
  BY <1>1 DEF FutuInv, ReplacedIsClosed
<1> QED BY <1>6, <1>7, <1>8, <1>9 DEF FutuInv

\* The backoff, the client that is there, one that connects, one that does not.
LEMMA AskKeeps ==
  ASSUME FutuInv, NEW t \in Threads, Ask(t)
  PROVE  FutuInv'
<1> DEFINE i == thread[t].mine
           th(at) == [thread[t] EXCEPT !.at = at]
<1>1. /\ thread[t] \in ThreadRec /\ thread[t].at = "asking" /\ i \in Instances
      /\ inst[i] \in InstRec /\ UNCHANGED <<current, made, resets, upsets>>
  BY DEF Ask, FutuInv, FutuTypes, HoldersHold
<1>2. \A at \in {"calling", "failed"} :
        th(at) \in ThreadRec /\ th(at).at = at /\ th(at).mine = i
  BY <1>1 DEF ThreadRec
<1>3. CASE thread' = [thread EXCEPT ![t].at = "calling"] /\ UNCHANGED inst
  BY <1>1, <1>2, <1>3, ThreadKeeps
<1>4. ASSUME NEW r \in InstRec, inst' = [inst EXCEPT ![i] = r],
             r.client = "open" => r.backoff = 0,
             NEW at \in {"calling", "failed"}, thread' = [thread EXCEPT ![t].at = at],
             "late" \notin upsets /\ at = "failed" => r.since < r.backoff,
             BacksOff(i) => r = inst[i],
             "held" \notin upsets => i = current
      PROVE  FutuInv'
  <2>1. thread' = [thread EXCEPT ![t] = th(at)]
    BY <1>4
  <2>2. th(at) \in ThreadRec /\ th(at).at = at /\ th(at).mine = i
    BY <1>2, <1>4
  <2> HIDE DEF th
  <2>3. \A p \in Threads : thread'[p] = IF p = t THEN th(at) ELSE thread[p]
    BY <2>1 DEF FutuInv, FutuTypes
  <2>4. \A j \in Instances : inst'[j] = IF j = i THEN r ELSE inst[j]
    BY <1>4 DEF FutuInv, FutuTypes
  <2>5. FutuTypes'
    BY <1>1, <1>4, <2>1, <2>2 DEF FutuInv, FutuTypes
  <2>6. HoldersHold' /\ AllHoldCurrent'
    BY <1>1, <1>4, <2>2, <2>3 DEF FutuInv, HoldersHold, AllHoldCurrent
  <2>7. OpenIsCalm' /\ DropsOnlyWhenLate'
    BY <1>1, <1>4, <2>4 DEF FutuInv, OpenIsCalm, DropsOnlyWhenLate
  <2>8. HandledInTime'
    <3> SUFFICES ASSUME "late" \notin upsets, NEW p \in Threads, thread'[p].at = "failed"
                 PROVE  inst'[thread'[p].mine].since < inst'[thread'[p].mine].backoff
      BY <1>1 DEF HandledInTime, BacksOff
    <3>1. CASE p = t
      BY <1>1, <1>4, <2>2, <2>3, <2>4, <3>1
    <3>2. CASE p # t
      <4>1. thread[p].mine \in Instances /\ BacksOff(thread[p].mine) /\ thread'[p] = thread[p]
        BY <2>3, <3>2 DEF FutuInv, HoldersHold, HandledInTime
      <4> QED BY <1>4, <2>4, <4>1 DEF BacksOff
    <3> QED BY <3>1, <3>2
  <2>9. ReplacedIsClosed'
    BY <1>1, <1>4, <2>4 DEF FutuInv, ReplacedIsClosed
  <2> QED BY <2>5, <2>6, <2>7, <2>8, <2>9 DEF FutuInv
<1>5. "held" \notin upsets => i = current
  BY <1>1 DEF FutuInv, AllHoldCurrent
<1>6. CASE BacksOff(i) /\ thread' = [thread EXCEPT ![t].at = "failed"] /\ UNCHANGED inst
  <2>1. inst' = [inst EXCEPT ![i] = inst[i]]
    BY <1>6 DEF FutuInv, FutuTypes
  <2>2. inst[i].client = "open" => inst[i].backoff = 0
    BY <1>1 DEF FutuInv, OpenIsCalm
  <2>3. inst[i].since < inst[i].backoff
    BY <1>6 DEF BacksOff
  <2> QED BY <1>1, <1>4, <1>5, <1>6, <2>1, <2>2, <2>3
<1>7. CASE /\ ~BacksOff(i) /\ inst' = [inst EXCEPT ![i] = [Fresh EXCEPT !.client = "open"]]
           /\ thread' = [thread EXCEPT ![t].at = "calling"]
  <2>1. /\ [Fresh EXCEPT !.client = "open"] \in InstRec
        /\ [Fresh EXCEPT !.client = "open"].backoff = 0
    BY FutuAssumption DEF Fresh, InstRec
  <2> QED BY <1>4, <1>5, <1>7, <2>1
<1>8. CASE /\ ~BacksOff(i) /\ thread' = [thread EXCEPT ![t].at = "failed"]
           /\ inst' = [inst EXCEPT ![i] = [client |-> "failed", backoff |-> NextBackoff(@.backoff),
                                           since |-> 0]]
  <2> DEFINE r == [client |-> "failed", backoff |-> NextBackoff(inst[i].backoff), since |-> 0]
  <2>1. NextBackoff(inst[i].backoff) \in 1..MaxBackoff
    BY <1>1, BackoffGrows DEF InstRec
  <2>2. r \in InstRec /\ r.client = "failed" /\ r.since < r.backoff
    BY <2>1, FutuAssumption DEF InstRec
  <2>3. inst' = [inst EXCEPT ![i] = r]
    BY <1>8
  <2> HIDE DEF r
  <2> QED BY <1>4, <1>5, <1>8, <2>2, <2>3
<1> QED BY <1>3, <1>6, <1>7, <1>8 DEF Ask

\* Closing the client of an instance: whoever called it, if it was open, is cut off.
LEMMA CutKeepsThreads ==
  ASSUME NEW threads \in [Threads -> ThreadRec], NEW losers \in SUBSET Threads
  PROVE  /\ Cut(losers, threads) \in [Threads -> ThreadRec]
         /\ \A r \in Threads : /\ Cut(losers, threads)[r].at = threads[r].at
                               /\ Cut(losers, threads)[r].mine = threads[r].mine
<1>1. \A r \in Threads : /\ [threads[r] EXCEPT !.cut = TRUE] \in ThreadRec
                         /\ [threads[r] EXCEPT !.cut = TRUE].at = threads[r].at
                         /\ [threads[r] EXCEPT !.cut = TRUE].mine = threads[r].mine
  BY DEF ThreadRec
<1> QED BY <1>1 DEF Cut

LEMMA CloseKeepsInst ==
  ASSUME FutuTypes, NEW i \in Instances, inst' = [inst EXCEPT ![i].client = "none"]
  PROVE  /\ inst' \in [Instances -> InstRec] /\ inst'[i].client = "none"
         /\ \A j \in Instances : /\ inst'[j].backoff = inst[j].backoff
                                 /\ inst'[j].since = inst[j].since
                                 /\ j # i => inst'[j].client = inst[j].client
<1> DEFINE r == [inst[i] EXCEPT !.client = "none"]
<1>1. r \in InstRec /\ r.client = "none" /\ r.backoff = inst[i].backoff /\ r.since = inst[i].since
  BY DEF FutuTypes, InstRec
<1>2. inst' = [inst EXCEPT ![i] = r]
  OBVIOUS
<1> HIDE DEF r
<1> QED BY <1>1, <1>2 DEF FutuTypes

LEMMA DropKeeps ==
  ASSUME FutuInv, NEW t \in Threads, Drop(t)
  PROVE  FutuInv'
<1> DEFINE i == thread[t].mine
           moved == [thread EXCEPT ![t] = NextAttempt(@)]
<1>1. /\ thread[t].at = "failed" /\ i \in Instances /\ thread[t] \in ThreadRec
      /\ UNCHANGED <<current, made, resets>>
      /\ inst' = [inst EXCEPT ![i].client = "none"] /\ thread' = Cut(Losers(i), moved)
      /\ upsets' = upsets \cup (IF Losers(i) = {} THEN {} ELSE {"dropped"})
  BY DEF Drop, FutuInv, FutuTypes, HoldersHold
<1>2. /\ moved \in [Threads -> ThreadRec] /\ \A p \in Threads : moved[p].mine = thread[p].mine
      /\ \A p \in Threads : p # t => moved[p].at = thread[p].at
      /\ moved[t].at \in {"asleep", "asking", "done"}
  BY <1>1, ThreadGoesOn DEF FutuInv, FutuTypes
<1>3. Losers(i) \in SUBSET Threads
  BY DEF Losers, Holders
<1> HIDE DEF moved
<1>4. /\ thread' \in [Threads -> ThreadRec] /\ \A p \in Threads : thread'[p].mine = thread[p].mine
      /\ \A p \in Threads : p # t => thread'[p].at = thread[p].at
      /\ thread'[t].at \in {"asleep", "asking", "done"}
  BY <1>1, <1>2, <1>3, CutKeepsThreads
<1>5. /\ inst' \in [Instances -> InstRec] /\ inst'[i].client = "none"
      /\ \A j \in Instances : /\ inst'[j].backoff = inst[j].backoff
                              /\ inst'[j].since = inst[j].since
                              /\ j # i => inst'[j].client = inst[j].client
  BY <1>1, CloseKeepsInst DEF FutuInv
<1>6. FutuTypes'
  BY <1>1, <1>4, <1>5 DEF FutuInv, FutuTypes
<1>7. HoldersHold' /\ AllHoldCurrent'
  BY <1>1, <1>4 DEF FutuInv, HoldersHold, AllHoldCurrent
<1>8. OpenIsCalm' /\ ReplacedIsClosed'
  BY <1>1, <1>5 DEF FutuInv, OpenIsCalm, ReplacedIsClosed
<1>9. HandledInTime'
  <2> SUFFICES ASSUME "late" \notin upsets', NEW p \in Threads, thread'[p].at = "failed"
               PROVE  inst'[thread'[p].mine].since < inst'[thread'[p].mine].backoff
    BY DEF HandledInTime, BacksOff
  <2>1. thread[p].at = "failed" /\ thread'[p].mine = thread[p].mine /\ "late" \notin upsets
    BY <1>1, <1>4
  <2> QED BY <1>5, <2>1 DEF FutuInv, HoldersHold, HandledInTime, BacksOff
<1>10. DropsOnlyWhenLate'
  <2>1. CASE "late" \in upsets
    BY <1>1, <2>1 DEF DropsOnlyWhenLate
  <2>2. CASE "late" \notin upsets
    <3>1. inst[i].since < inst[i].backoff /\ inst[i] \in InstRec
      BY <1>1, <2>2 DEF FutuInv, FutuTypes, HandledInTime, BacksOff
    <3>2. inst[i].client # "open"
      BY <1>1, <3>1 DEF FutuInv, OpenIsCalm, InstRec
    <3> QED BY <1>1, <3>2 DEF Losers, FutuInv, DropsOnlyWhenLate
  <2> QED BY <2>1, <2>2
<1> QED BY <1>6, <1>7, <1>8, <1>9, <1>10 DEF FutuInv

LEMMA ConfigureKeeps ==
  ASSUME FutuInv, Configure
  PROVE  FutuInv'
<1>1. /\ current \in Instances /\ current' = 0 /\ made' = made /\ 0 \notin Instances
      /\ inst' = [inst EXCEPT ![current].client = "none"]
      /\ thread' = Cut(Losers(current), thread)
      /\ upsets' = upsets \cup (IF Holders(current) = {} THEN {} ELSE {"held"})
  BY DEF Configure, Closed, FutuInv, FutuTypes, Instances
<1>2. Losers(current) \in SUBSET Threads
  BY DEF Losers, Holders
<1>3. thread' \in [Threads -> ThreadRec]
      /\ \A p \in Threads : thread'[p].at = thread[p].at /\ thread'[p].mine = thread[p].mine
  BY <1>1, <1>2, CutKeepsThreads DEF FutuInv, FutuTypes
<1>4. /\ inst' \in [Instances -> InstRec] /\ inst'[current].client = "none"
      /\ \A j \in Instances : /\ inst'[j].backoff = inst[j].backoff
                              /\ inst'[j].since = inst[j].since
                              /\ j # current => inst'[j].client = inst[j].client
  BY <1>1, CloseKeepsInst DEF FutuInv
<1>5. FutuTypes'
  BY <1>1, <1>3, <1>4 DEF FutuInv, FutuTypes
<1>6. HoldersHold' /\ OpenIsCalm' /\ DropsOnlyWhenLate'
  BY <1>1, <1>3, <1>4 DEF FutuInv, HoldersHold, OpenIsCalm, DropsOnlyWhenLate
<1>7. HandledInTime'
  <2> SUFFICES ASSUME "late" \notin upsets', NEW p \in Threads, thread'[p].at = "failed"
               PROVE  inst'[thread'[p].mine].since < inst'[thread'[p].mine].backoff
    BY DEF HandledInTime, BacksOff
  <2>1. thread[p].at = "failed" /\ thread'[p].mine = thread[p].mine /\ "late" \notin upsets
    BY <1>1, <1>3
  <2> QED BY <1>4, <2>1 DEF FutuInv, HoldersHold, HandledInTime, BacksOff
<1>8. "held" \notin upsets' =>
        "held" \notin upsets /\ \A p \in Threads : thread[p].at \in {"new", "done"}
  <2> SUFFICES ASSUME "held" \notin upsets', NEW p \in Threads
               PROVE  "held" \notin upsets /\ thread[p].at \in {"new", "done"}
    BY <1>1
  <2>1. "held" \notin upsets /\ p \notin Holders(current)
    BY <1>1
  <2> QED BY <2>1 DEF Holders, FutuInv, AllHoldCurrent
<1>9. AllHoldCurrent'
  BY <1>3, <1>8 DEF AllHoldCurrent
<1>10. ReplacedIsClosed'
  BY <1>1, <1>4, <1>8 DEF FutuInv, ReplacedIsClosed
<1> QED BY <1>5, <1>6, <1>7, <1>9, <1>10 DEF FutuInv

\* A second passes: a backoff may end, and with it the time of a handler.
LEMMA SecondKeeps ==
  ASSUME FutuInv, Second
  PROVE  FutuInv'
<1>1. ASSUME NEW j \in Instances
      PROVE  /\ inst'[j] \in InstRec /\ inst'[j].client = inst[j].client
             /\ inst'[j].backoff = inst[j].backoff
  <2>1. inst[j] \in InstRec
    BY DEF FutuInv, FutuTypes
  <2>2. inst'[j] = [inst[j] EXCEPT !.since = IF inst[j].backoff > 0 /\ @ < MaxBackoff
                                             THEN @ + 1 ELSE @]
    BY DEF Second
  <2>3. inst[j].since < MaxBackoff => inst[j].since + 1 \in 0..MaxBackoff
    BY <2>1, FutuAssumption DEF InstRec
  <2> QED BY <2>1, <2>2, <2>3 DEF InstRec
<1>2. ASSUME NEW t \in Threads
      PROVE  /\ thread'[t] \in ThreadRec /\ thread'[t].at = thread[t].at
             /\ thread'[t].mine = thread[t].mine
  <2>1. thread[t] \in ThreadRec
    BY DEF FutuInv, FutuTypes
  <2>2. thread'[t] = [thread[t] EXCEPT !.sleep = IF @ > 0 THEN @ - 1 ELSE 0]
    BY DEF Second
  <2>3. thread[t].sleep > 0 => thread[t].sleep - 1 \in 0..MaxRetries
    BY <2>1, FutuAssumption DEF ThreadRec
  <2>4. 0 \in 0..MaxRetries
    BY FutuAssumption
  <2> QED BY <2>1, <2>2, <2>3, <2>4 DEF ThreadRec
<1>3. FutuTypes'
  <2>1. DOMAIN inst' = Instances /\ DOMAIN thread' = Threads /\ UNCHANGED <<current, made>>
    BY DEF Second
  <2>2. inst' = [j \in Instances |-> inst'[j]] /\ thread' = [t \in Threads |-> thread'[t]]
    BY DEF Second
  <2> QED BY <1>1, <1>2, <2>1, <2>2 DEF FutuInv, FutuTypes
<1>4. /\ current' = current
      /\ upsets' = upsets \cup (IF \E t \in Threads : thread[t].at = "failed" THEN {"late"} ELSE {})
  BY DEF Second
<1>5. HoldersHold' /\ AllHoldCurrent'
  BY <1>2, <1>4 DEF FutuInv, HoldersHold, AllHoldCurrent
<1>6. OpenIsCalm' /\ ReplacedIsClosed' /\ DropsOnlyWhenLate'
  BY <1>1, <1>4 DEF FutuInv, OpenIsCalm, ReplacedIsClosed, DropsOnlyWhenLate
<1>7. HandledInTime'
  BY <1>2, <1>4 DEF HandledInTime
<1> QED BY <1>3, <1>5, <1>6, <1>7 DEF FutuInv

LEMMA FutuStep == FutuInv /\ [FutuNext]_futuvars => FutuInv'
<1> SUFFICES ASSUME FutuInv, [FutuNext]_futuvars PROVE FutuInv'
  OBVIOUS
<1>1. ASSUME NEW t \in Threads, Awake(t) PROVE FutuInv'
  <2> DEFINE th == [thread[t] EXCEPT !.at = "asking"]
  <2>1. /\ thread[t] \in ThreadRec /\ thread[t].at = "asleep"
        /\ UNCHANGED <<current, made, inst, upsets>>
    BY <1>1 DEF Awake, FutuInv, FutuTypes
  <2>2. th \in ThreadRec /\ th.at = "asking" /\ th.mine = thread[t].mine
    BY <2>1 DEF ThreadRec
  <2>3. thread' = [thread EXCEPT ![t] = th]
    BY <1>1 DEF Awake
  <2> HIDE DEF th
  <2> QED BY <2>1, <2>2, <2>3, ThreadKeeps
<1>2. ASSUME NEW t \in Threads, CallReturns(t) PROVE FutuInv'
  <2>1. /\ thread[t] \in ThreadRec /\ thread[t].at = "calling"
        /\ UNCHANGED <<current, made, inst, upsets>>
    BY <1>2 DEF CallReturns, FutuInv, FutuTypes
  <2>2. PICK result \in {"data", "empty"} : thread' = [thread EXCEPT ![t] = Over(thread[t], result)]
    BY <1>2 DEF CallReturns
  <2> DEFINE th == Over(thread[t], result)
  <2>3. th \in ThreadRec /\ th.at \in {"asking", "done"} /\ th.mine = thread[t].mine
    BY <2>1, ThreadGoesOn
  <2>4. thread' = [thread EXCEPT ![t] = th]
    BY <2>2
  <2> HIDE DEF th
  <2> QED BY <2>1, <2>3, <2>4, ThreadKeeps
<1>3. CASE UNCHANGED futuvars
  BY <1>3 DEF futuvars, FutuInv, FutuTypes, HoldersHold, OpenIsCalm, HandledInTime, AllHoldCurrent,
              DropsOnlyWhenLate, ReplacedIsClosed, BacksOff
<1> QED
  BY <1>1, <1>2, <1>3, ObtainKeeps, AskKeeps, DropKeeps, ConfigureKeeps, SecondKeeps
  DEF FutuNext, Fetching

\* Threads that share one client through errors, backoffs, sleeps and replacements take
\* an open connection from one another only when a handler is late, and leave none
\* behind unless the instance was replaced while one of them fetched.
THEOREM ClientIsShared == FutuSpec => []FutuSound
<1>1. FutuInv => FutuSound
  <2> SUFFICES ASSUME FutuInv PROVE FutuSound
    OBVIOUS
  <2>1. FutuTypeOK
    BY DEF FutuInv, FutuTypes, InstRec, ThreadRec, FutuTypeOK
  <2> QED BY <2>1 DEF FutuInv, FutuSound
<1> QED BY FutuInitially, FutuStep, <1>1, PTL DEF FutuSpec
-----------------------------------------------------------------------------
(* The brokers: the words of the vendors, and the paper orders.            *)

Words == DOMAIN StatusMap[vendor]

LEMMA TigerWords ==
  /\ DOMAIN StatusMap["tiger"] =
       {"PendingNew", "PendingCancel", "Initial", "Submitted", "PartiallyFilled", "Filled",
        "Cancelled", "Inactive", "Invalid"}
  /\ \A w \in {"PendingNew", "PendingCancel"} : StatusMap["tiger"][w] = "PENDING"
  /\ \A w \in {"Initial", "Submitted"} : StatusMap["tiger"][w] = "SUBMITTED"
  /\ StatusMap["tiger"]["PartiallyFilled"] = "PARTIAL_FILL"
  /\ StatusMap["tiger"]["Filled"] = "FILLED" /\ StatusMap["tiger"]["Cancelled"] = "CANCELLED"
  /\ StatusMap["tiger"]["Inactive"] = "REJECTED" /\ StatusMap["tiger"]["Invalid"] = "EXPIRED"
  BY DEF StatusMap

LEMMA FutuWords ==
  /\ DOMAIN StatusMap["futu"] =
       {"WAITING_SUBMIT", "SUBMITTING", "SUBMITTED", "FILLED_PART", "FILLED_ALL",
        "CANCELLED_ALL", "FAILED", "DISABLED", "DELETED"}
  /\ \A w \in {"WAITING_SUBMIT", "SUBMITTING"} : StatusMap["futu"][w] = "PENDING"
  /\ StatusMap["futu"]["SUBMITTED"] = "SUBMITTED"
  /\ StatusMap["futu"]["FILLED_PART"] = "PARTIAL_FILL"
  /\ StatusMap["futu"]["FILLED_ALL"] = "FILLED" /\ StatusMap["futu"]["CANCELLED_ALL"] = "CANCELLED"
  /\ StatusMap["futu"]["FAILED"] = "REJECTED"
  /\ \A w \in {"DISABLED", "DELETED"} : StatusMap["futu"][w] = "EXPIRED"
  BY DEF StatusMap

\* The adapter's two tables agree: it forgets an order after exactly the words that it
\* takes for an end.
LEMMA EndWordsAreTerminal ==
  ASSUME vendor \in {"tiger", "futu"}
  PROVE  /\ "none" \notin Words
         /\ \A w \in Words : Mapped(w) \in Terminal <=> w \in EndWords
         /\ FirstWord \in Words /\ FirstWord \notin EndWords
         /\ \A w \in WordsFor("PARTIAL_FILL") : w \in Words /\ w \notin EndWords
         /\ \A status \in Terminal : \A w \in WordsFor(status) : w \in Words /\ w \in EndWords
<1>1. /\ "none" \notin Words
      /\ \A w \in Words : Mapped(w) \in Terminal <=> w \in EndWords
  <2>1. CASE vendor = "tiger"
    BY <2>1, TigerWords DEF Words, Mapped, Terminal, EndWords
  <2>2. CASE vendor = "futu"
    BY <2>2, FutuWords DEF Words, Mapped, Terminal, EndWords
  <2> QED BY <2>1, <2>2
<1>2. \A status : \A w \in WordsFor(status) : w \in Words /\ Mapped(w) = status
  BY DEF WordsFor, Words, Mapped
<1>3. FirstWord \in WordsFor("SUBMITTED")
  <2>1. CASE vendor = "tiger"
    BY <2>1, TigerWords DEF WordsFor, FirstWord
  <2>2. CASE vendor = "futu"
    BY <2>2, FutuWords DEF WordsFor, FirstWord
  <2> QED BY <2>1, <2>2
<1>4. "SUBMITTED" \notin Terminal /\ "PARTIAL_FILL" \notin Terminal
  BY DEF Terminal
<1> QED BY <1>1, <1>2, <1>3, <1>4

PaperRec ==
  [task : {"none", "sleeping", "ended"},
   status : {"none", "SUBMITTED", "PARTIAL_FILL", "FILLED", "CANCELLED"},
   filled : Nat, cancelled : BOOLEAN, until : Nat]

\* What a paper order is: nothing filled before it is submitted, or of one that was
\* cancelled since, and its status is that of its fills.
PaperOrder(o, p) ==
  /\ p \in PaperRec /\ p.filled \in 0..Lots[o]
  /\ p.task = "none" => p.filled = 0 /\ ~p.cancelled /\ p.status = "none"
  /\ p.status \in {"none", "SUBMITTED"} => p.filled = 0
  /\ p.cancelled => p.filled = p.until /\ p.status = "CANCELLED" /\ p.filled < Lots[o]
  /\ p.status = "CANCELLED" => p.cancelled
  /\ p.status = "FILLED" => p.filled = Lots[o]
  /\ p.status = "PARTIAL_FILL" => p.filled \in 1..(Lots[o] - 1)

PaperInv == paper = [o \in BOrders |-> paper[o]] /\ \A o \in BOrders : PaperOrder(o, paper[o])

LEMMA PaperInitially == BInit => PaperInv
  BY BrokersAssumption DEF BInit, PaperInv, PaperOrder, PaperRec

LEMMA PaperKeeps ==
  ASSUME PaperInv, PaperNext
  PROVE  PaperInv'
<1>1. PICK o \in BOrders : PaperSubmit(o) \/ PaperCancel(o) \/ PaperWakes(o)
  BY DEF PaperNext
<1> DEFINE p == paper[o]
<1>2. PaperOrder(o, p) /\ Lots[o] \in Nat \ {0} /\ p \in PaperRec
  BY BrokersAssumption DEF PaperInv, PaperOrder
<1>3. ASSUME NEW q, PaperOrder(o, q), paper' = [paper EXCEPT ![o] = q]
      PROVE  PaperInv'
  BY <1>3 DEF PaperInv
<1>4. CASE PaperSubmit(o)
  <2> DEFINE q == [p EXCEPT !.task = "sleeping", !.status = "SUBMITTED"]
  <2>1. /\ q \in PaperRec /\ q.task = "sleeping" /\ q.status = "SUBMITTED"
        /\ q.filled = p.filled /\ q.cancelled = p.cancelled /\ q.until = p.until
    BY <1>2 DEF PaperRec
  <2>2. paper' = [paper EXCEPT ![o] = q] /\ p.task = "none"
    BY <1>4 DEF PaperSubmit
  <2> HIDE DEF q
  <2>3. PaperOrder(o, q)
    BY <1>2, <2>1, <2>2 DEF PaperOrder
  <2> QED BY <1>3, <2>2, <2>3
<1>5. CASE PaperCancel(o)
  <2> DEFINE q == [p EXCEPT !.status = "CANCELLED", !.cancelled = TRUE,
                            !.until = IF p.cancelled THEN p.until ELSE p.filled]
  <2>1. /\ q \in PaperRec /\ q.task = p.task /\ q.status = "CANCELLED"
        /\ q.filled = p.filled /\ q.cancelled
        /\ q.until = IF p.cancelled THEN p.until ELSE p.filled
    BY <1>2 DEF PaperRec
  <2>2. paper' = [paper EXCEPT ![o] = q] /\ p.task # "none" /\ p.status # "FILLED"
    <3>1. p.task # "none" /\ p.status # "FILLED"
      BY <1>5 DEF PaperCancel, Cancellable
    <3>2. paper' = [paper EXCEPT ![o] = q]
      BY <1>5 DEF PaperCancel
    <3> QED BY <3>1, <3>2
  <2> HIDE DEF q
  <2>3. p.filled < Lots[o]
    <3>1. p.status \in {"none", "SUBMITTED", "PARTIAL_FILL", "CANCELLED"}
      BY <1>2, <2>2 DEF PaperRec
    <3> QED BY <1>2, <3>1 DEF PaperOrder
  <2>4. PaperOrder(o, q)
    BY <1>2, <2>1, <2>2, <2>3 DEF PaperOrder
  <2> QED BY <1>3, <2>2, <2>4
<1>6. CASE PaperWakes(o)
  <2>1. CASE Stops(o) /\ paper' = [paper EXCEPT ![o].task = "ended"]
    <3> DEFINE q == [p EXCEPT !.task = "ended"]
    <3>1. /\ q \in PaperRec /\ q.task = "ended" /\ q.status = p.status
          /\ q.filled = p.filled /\ q.cancelled = p.cancelled /\ q.until = p.until
      BY <1>2 DEF PaperRec
    <3>2. paper' = [paper EXCEPT ![o] = q]
      BY <2>1
    <3> HIDE DEF q
    <3>3. PaperOrder(o, q)
      BY <1>2, <3>1 DEF PaperOrder
    <3> QED BY <1>3, <3>2, <3>3
  <2>2. ASSUME ~Stops(o), NEW n \in (p.filled + 1)..Lots[o],
               paper' = [paper EXCEPT ![o] =
                 [@ EXCEPT !.filled = n, !.task = NextSleep(o, n),
                           !.status = IF n < Lots[o] THEN "PARTIAL_FILL" ELSE "FILLED"]]
        PROVE  PaperInv'
    <3> DEFINE q == [p EXCEPT !.filled = n, !.task = NextSleep(o, n),
                              !.status = IF n < Lots[o] THEN "PARTIAL_FILL" ELSE "FILLED"]
    <3>1. n \in Nat /\ n <= Lots[o] /\ n >= 1
      BY <1>2 DEF PaperOrder
    <3>2. /\ q \in PaperRec /\ q.task \in {"sleeping", "ended"} /\ q.filled = n
          /\ q.status = IF n < Lots[o] THEN "PARTIAL_FILL" ELSE "FILLED"
          /\ q.cancelled = p.cancelled /\ q.until = p.until
      BY <1>2, <3>1 DEF PaperRec, NextSleep
    <3>3. paper' = [paper EXCEPT ![o] = q]
      BY <2>2
    <3>4. ~p.cancelled
      BY <2>2 DEF Stops
    <3> HIDE DEF q
    <3>5. PaperOrder(o, q)
      BY <1>2, <3>1, <3>2, <3>4 DEF PaperOrder
    <3> QED BY <1>3, <3>3, <3>5
  <2> QED BY <1>6, <2>1, <2>2 DEF PaperWakes
<1> QED BY <1>1, <1>4, <1>5, <1>6
-----------------------------------------------------------------------------
(* The adapter: its connection and its pumps.                              *)

GateRec == [connected : BOOLEAN, confirmed : BOOLEAN, count : Nat]

LinkRec == [connected : BOOLEAN, pumps : Nat, own : BOOLEAN, up : BOOLEAN, closed : BOOLEAN]

\* The pump that disconnect cancels is one of those that run.
OwnPumps == link.own => link.pumps >= 1

\* Without an outage or an echo nothing reconnects, and the only pump is the adapter's
\* own, which ends when it is closed.
OnePump ==
  venueTrouble \cap {"outage", "echo"} = {} =>
    /\ retries = -1 /\ link.pumps = IF link.own THEN 1 ELSE 0
    /\ link.closed => ~link.own /\ ~link.connected

\* Pushes arrive while the program is connected.
PushesArrive ==
  "outage" \notin venueTrouble /\ ~link.closed /\ gate.connected => link.up

LinkInv ==
  /\ gate \in GateRec /\ link \in LinkRec /\ retries \in Nat \cup {-1}
  /\ OwnPumps /\ OnePump /\ PushesArrive

LEMMA LinkInitially == BInit => LinkInv
  BY DEF BInit, LinkInv, GateRec, LinkRec, OwnPumps, OnePump, PushesArrive

LEMMA CountedDown ==
  ASSUME gate \in GateRec
  PROVE  /\ OneLess \in GateRec /\ OneLess.count <= gate.count
         /\ OneLess.connected = gate.connected /\ OneLess.confirmed = gate.confirmed
  BY DEF GateRec, OneLess

LEMMA Connecting ==
  ASSUME link \in LinkRec
  PROVE  /\ Connected \in LinkRec /\ Connected.pumps = link.pumps + 1 /\ Connected.connected
         /\ Connected.own /\ Connected.up /\ Connected.closed = link.closed
<1> DEFINE n == link.pumps + 1
<1>1. n \in Nat /\ n = link.pumps + 1
  BY DEF LinkRec
<1>2. Connected = [link EXCEPT !.connected = TRUE, !.pumps = n, !.own = TRUE, !.up = TRUE]
  BY DEF Connected
<1> HIDE DEF n
<1> QED BY <1>1, <1>2 DEF LinkRec

\* Steps that leave the connection alone.
LEMMA LinkStays ==
  ASSUME LinkInv, link' = link, retries' = retries, gate' \in GateRec,
         gate'.connected => gate.connected, venueTrouble \subseteq venueTrouble'
  PROVE  LinkInv'
  BY DEF LinkInv, OwnPumps, OnePump, PushesArrive

LEMMA LinkKeeps ==
  ASSUME LinkInv,
         Connect \/ Disconnect \/ Outage \/ FutuRestores \/ Reconnect \/ PumpFill
  PROVE  LinkInv'
<1>1. gate \in GateRec /\ link \in LinkRec /\ retries \in Nat \cup {-1}
  BY DEF LinkInv
<1>2. ASSUME NEW l \in LinkRec, link' = l, NEW g \in GateRec, gate' = g,
             NEW n \in Nat \cup {-1}, retries' = n, venueTrouble \subseteq venueTrouble',
             l.own => l.pumps >= 1,
             /\ venueTrouble \cap {"outage", "echo"} = {}
             /\ venueTrouble' \cap {"outage", "echo"} = {}
             => /\ n = -1 /\ l.pumps = IF l.own THEN 1 ELSE 0
                /\ l.closed => ~l.own /\ ~l.connected,
             "outage" \notin venueTrouble' /\ ~l.closed /\ g.connected => l.up
      PROVE  LinkInv'
  BY <1>2 DEF LinkInv, OwnPumps, OnePump, PushesArrive
<1>3. CASE Connect
  <2>1. CASE link' = Connected /\ gate' = [gate EXCEPT !.connected = TRUE]
    <3> DEFINE g == [gate EXCEPT !.connected = TRUE]
    <3>1. g \in GateRec
      BY <1>1 DEF GateRec
    <3>2. ~link.closed /\ ~link.own /\ retries' = retries /\ venueTrouble' = venueTrouble
      BY <1>3 DEF Connect
    <3> HIDE DEF g
    <3>3. gate' = g
      BY <2>1 DEF g
    <3>4. /\ Connected \in LinkRec /\ Connected.pumps = link.pumps + 1 /\ Connected.own
          /\ Connected.up /\ Connected.closed = link.closed /\ link.pumps \in Nat
      BY <1>1, Connecting DEF LinkRec
    <3>5. venueTrouble \cap {"outage", "echo"} = {} => retries = -1 /\ link.pumps = 0
      BY <3>2 DEF LinkInv, OnePump
    <3> QED BY <1>1, <1>2, <2>1, <3>1, <3>2, <3>3, <3>4, <3>5
  <2>2. CASE /\ vendor = "tiger" /\ link' = [link EXCEPT !.connected = TRUE]
             /\ UNCHANGED gate
    <3> DEFINE l == [link EXCEPT !.connected = TRUE]
    <3>1. /\ l \in LinkRec /\ l.pumps = link.pumps /\ l.own = link.own /\ l.up = link.up
          /\ l.closed = link.closed
      BY <1>1 DEF LinkRec
    <3>2. /\ ~link.closed /\ ~gate.connected /\ retries' = retries
          /\ venueTrouble' = venueTrouble
      BY <1>3 DEF Connect
    <3>3. link' = l
      BY <2>2
    <3> HIDE DEF l
    <3> QED BY <1>1, <1>2, <2>2, <3>1, <3>2, <3>3 DEF LinkInv, OwnPumps, OnePump
  <2> QED BY <1>3, <2>1, <2>2 DEF Connect
<1>4. CASE Disconnect
  <2> DEFINE g == [gate EXCEPT !.connected = FALSE]
             l == [link EXCEPT !.connected = FALSE, !.pumps = CancelledPumps, !.own = FALSE,
                               !.up = FALSE, !.closed = TRUE]
  <2>1. g \in GateRec /\ ~g.connected
    BY <1>1 DEF GateRec
  <2>2. CancelledPumps \in Nat /\ (link.own => CancelledPumps = link.pumps - 1)
        /\ (~link.own => CancelledPumps = link.pumps)
    BY <1>1 DEF CancelledPumps, LinkInv, OwnPumps, LinkRec
  <2>3. l \in LinkRec /\ l.pumps = CancelledPumps /\ ~l.own /\ ~l.connected /\ l.closed
    BY <1>1, <2>2 DEF LinkRec
  <2>4. gate' = g /\ link' = l
    BY <1>4 DEF Disconnect
  <2>5. /\ retries' \in Nat \cup {-1} /\ venueTrouble \subseteq venueTrouble'
        /\ "echo" \in venueTrouble' \/ retries' = retries
    BY <1>1, <1>4, BrokersAssumption DEF Disconnect
  <2> HIDE DEF g, l
  <2>6. venueTrouble \cap {"outage", "echo"} = {} /\ venueTrouble' \cap {"outage", "echo"} = {}
        => retries' = -1 /\ l.pumps = 0
    BY <1>1, <2>2, <2>3, <2>5 DEF LinkInv, OnePump, LinkRec
  <2> QED BY <1>2, <2>1, <2>3, <2>4, <2>5, <2>6
<1>5. CASE Outage
  <2>1. gate' = gate /\ venueTrouble' = venueTrouble \cup {"outage"}
    BY <1>5 DEF Outage
  <2>2. retries' \in Nat \cup {-1}
    BY <1>1, <1>5, BrokersAssumption DEF Outage
  <2>3. link' \in LinkRec /\ link'.own = link.own /\ link'.pumps = link.pumps
    BY <1>1, <1>5 DEF Outage, LinkRec
  <2> QED BY <1>1, <1>2, <2>1, <2>2, <2>3 DEF LinkInv, OwnPumps
<1>6. CASE FutuRestores
  <2> DEFINE l == [link EXCEPT !.up = TRUE]
  <2>1. /\ l \in LinkRec /\ l.pumps = link.pumps /\ l.own = link.own /\ l.up
        /\ l.closed = link.closed /\ l.connected = link.connected
    BY <1>1 DEF LinkRec
  <2>2. link' = l /\ gate' = gate /\ retries' = retries /\ venueTrouble' = venueTrouble
    BY <1>6 DEF FutuRestores
  <2> HIDE DEF l
  <2> QED BY <1>1, <1>2, <2>1, <2>2 DEF LinkInv, OwnPumps, OnePump
<1>7. CASE Reconnect
  <2>1. /\ retries \in 1..MaxAttempts /\ gate' = gate /\ venueTrouble' = venueTrouble
        /\ retries' \in Nat \cup {-1} /\ retries # -1
    BY <1>1, <1>7 DEF Reconnect, Reconnecting, AttemptsLeft
  <2>2. venueTrouble \cap {"outage", "echo"} # {}
    BY <2>1 DEF LinkInv, OnePump
  <2>3. CASE link' = Connected
    BY <1>1, <1>2, <2>1, <2>2, <2>3, Connecting DEF LinkRec
  <2>4. CASE link' = link
    BY <1>1, <1>2, <2>1, <2>2, <2>4 DEF LinkInv, OwnPumps, PushesArrive
  <2>5. CASE link' = [link EXCEPT !.connected = TRUE]
    <3> DEFINE l == [link EXCEPT !.connected = TRUE]
    <3>1. /\ l \in LinkRec /\ l.pumps = link.pumps /\ l.own = link.own /\ l.up = link.up
          /\ l.closed = link.closed
      BY <1>1 DEF LinkRec
    <3>2. link' = l
      BY <2>5
    <3> HIDE DEF l
    <3> QED BY <1>1, <1>2, <2>1, <2>2, <3>1, <3>2 DEF LinkInv, OwnPumps, PushesArrive
  <2> QED BY <1>7, <2>3, <2>4, <2>5 DEF Reconnect
<1>8. CASE PumpFill
  <2>1. gate' = OneLess /\ retries' = retries /\ venueTrouble' = venueTrouble
    BY <1>8 DEF PumpFill
  <2>2. link' = link
    BY <1>1, <1>8 DEF PumpFill, PumpsLeft, LinkRec
  <2> QED BY <1>1, <2>1, <2>2, CountedDown, LinkStays
<1> QED BY <1>3, <1>4, <1>5, <1>6, <1>7, <1>8

-----------------------------------------------------------------------------
(* LiveBroker: what it counts.                                             *)

OrderRec == [at : {"new", "placing", "accepted", "done", "failed"}, tries : Nat]

\* An order is on its way, or was, through a connection that has not been closed since.
ThroughGate ==
  \A o \in BOrders :
    ord[o].at \in {"placing", "accepted", "done"} => gate.connected \/ link.closed

\* While submissions follow one another, one at most is admitted and not yet counted,
\* and there is room for it.
RoomForIt ==
  "overlap" \notin venueTrouble =>
    /\ gate.count <= MaxOpen
    /\ \A o \in BOrders :
         Uncounted(o) => gate.count < MaxOpen /\ \A p \in BOrders : Uncounted(p) => p = o

CountInv == ord \in [BOrders -> OrderRec] /\ ThroughGate /\ RoomForIt

LEMMA CountInitially == BInit => CountInv
  BY BrokersAssumption DEF BInit, CountInv, OrderRec, ThroughGate, RoomForIt, Uncounted

\* No order moves, and nothing more is counted.
LEMMA CountStays ==
  ASSUME LinkInv, LinkInv', CountInv, ord' = ord, gate'.count <= gate.count,
         venueTrouble \subseteq venueTrouble',
         gate.connected \/ link.closed => gate'.connected \/ link'.closed
  PROVE  CountInv'
<1>1. gate.count \in Nat /\ gate'.count \in Nat /\ MaxOpen \in Nat
  BY BrokersAssumption DEF LinkInv, GateRec
<1>2. ThroughGate'
  BY DEF CountInv, ThroughGate
<1>3. RoomForIt'
  BY <1>1 DEF CountInv, RoomForIt, Uncounted
<1> QED BY <1>2, <1>3 DEF CountInv

\* One order moves; only an admission makes one more wait to be counted.
LEMMA CountMoves ==
  ASSUME LinkInv, CountInv, NEW o \in BOrders, NEW r \in OrderRec,
         ord' = [ord EXCEPT ![o] = r], UNCHANGED <<gate, link>>,
         venueTrouble \subseteq venueTrouble',
         r.at \in {"placing", "accepted", "done"} => gate.connected \/ link.closed,
         r.at \in {"placing", "accepted"} /\ ~Uncounted(o) /\ "overlap" \notin venueTrouble'
           => gate.count < MaxOpen /\ \A p \in BOrders : ~Uncounted(p)
  PROVE  CountInv'
<1>1. \A p \in BOrders : ord'[p] = IF p = o THEN r ELSE ord[p]
  BY DEF CountInv
<1>2. ThroughGate'
  BY <1>1 DEF CountInv, ThroughGate
<1>3. RoomForIt'
  BY <1>1 DEF CountInv, RoomForIt, Uncounted
<1> QED BY <1>2, <1>3 DEF CountInv

LEMMA OrderMoves ==
  ASSUME CountInv, NEW o \in BOrders, NEW at \in {"placing", "accepted", "done", "failed"}
  PROVE  /\ [ord[o] EXCEPT !.at = at] \in OrderRec /\ [ord[o] EXCEPT !.at = at].at = at
         /\ [ord EXCEPT ![o].at = at] = [ord EXCEPT ![o] = [ord[o] EXCEPT !.at = at]]
  BY DEF CountInv, OrderRec

LEMMA CountKeeps ==
  ASSUME LinkInv, CountInv, NEW o \in BOrders,
         Submit(o) \/ Take(o) \/ PlaceFails(o) \/ TakeAndFail(o)
  PROVE  CountInv'
<1> DEFINE r(at) == [ord[o] EXCEPT !.at = at]
<1>1. \A at \in {"placing", "accepted", "done", "failed"} :
        /\ r(at) \in OrderRec /\ r(at).at = at
        /\ [ord EXCEPT ![o].at = at] = [ord EXCEPT ![o] = r(at)]
  BY OrderMoves
<1> HIDE DEF r
<1>2. UNCHANGED <<gate, link>> /\ venueTrouble \subseteq venueTrouble'
  BY DEF Submit, Take, PlaceFails, TakeAndFail, adapter
<1>3. CASE ord' = [ord EXCEPT ![o].at = "failed"]
  BY <1>1, <1>2, <1>3, CountMoves
<1>4. CASE /\ gate.connected /\ Admitted /\ ord' = [ord EXCEPT ![o].at = "placing"]
           /\ venueTrouble' = venueTrouble \cup
                (IF \E p \in BOrders : Uncounted(p) THEN {"overlap"} ELSE {})
  BY <1>1, <1>2, <1>4, CountMoves DEF Admitted
<1>5. CASE ord[o].at = "placing" /\ ord' = [ord EXCEPT ![o].at = "accepted"]
  <2>1. Uncounted(o) /\ (gate.connected \/ link.closed)
    BY <1>5 DEF Uncounted, CountInv, ThroughGate
  <2> QED BY <1>1, <1>2, <1>5, <2>1, CountMoves
<1>6. CASE ord[o].at = "placing" /\ ord' = [ord EXCEPT ![o].tries = @ + 1]
  <2> DEFINE q == [ord[o] EXCEPT !.tries = @ + 1]
  <2>1. q \in OrderRec /\ q.at = "placing"
    BY <1>6 DEF CountInv, OrderRec
  <2>2. ord' = [ord EXCEPT ![o] = q]
    BY <1>6
  <2> HIDE DEF q
  <2>3. Uncounted(o) /\ (gate.connected \/ link.closed)
    BY <1>6 DEF Uncounted, CountInv, ThroughGate
  <2> QED BY <1>2, <2>1, <2>2, <2>3, CountMoves
<1> QED BY <1>3, <1>4, <1>5, <1>6 DEF Submit, Take, PlaceFails, TakeAndFail

\* The order is counted in the room that was kept for it.
LEMMA CountRegisters ==
  ASSUME LinkInv, CountInv, NEW o \in BOrders, RegisterOrder(o)
  PROVE  CountInv' /\ LinkInv'
<1> DEFINE r == [ord[o] EXCEPT !.at = "done"]
           g == [gate EXCEPT !.count = @ + 1]
<1>1. /\ r \in OrderRec /\ r.at = "done" /\ ord' = [ord EXCEPT ![o] = r]
  BY OrderMoves DEF RegisterOrder
<1>2. g \in GateRec /\ g.count = gate.count + 1 /\ g.connected = gate.connected
  BY DEF LinkInv, GateRec
<1>3. gate' = g /\ link' = link /\ retries' = retries /\ venueTrouble' = venueTrouble
  BY DEF RegisterOrder
<1> HIDE DEF r, g
<1>4. LinkInv'
  BY <1>2, <1>3, LinkStays
<1>5. \A p \in BOrders : ord'[p] = IF p = o THEN r ELSE ord[p]
  BY <1>1 DEF CountInv
<1>6. Uncounted(o) /\ ord[o].at = "accepted"
  BY DEF RegisterOrder, Uncounted
<1>7. ThroughGate'
  BY <1>1, <1>2, <1>3, <1>5, <1>6 DEF CountInv, ThroughGate
<1>8. RoomForIt'
  <2> SUFFICES ASSUME "overlap" \notin venueTrouble
               PROVE  gate'.count <= MaxOpen /\ \A p \in BOrders : ord'[p].at \notin {"placing", "accepted"}
    BY <1>3 DEF RoomForIt, Uncounted
  <2>1. gate.count < MaxOpen /\ gate.count \in Nat /\ MaxOpen \in Nat
    BY <1>6, BrokersAssumption DEF CountInv, RoomForIt, LinkInv, GateRec
  <2>2. \A p \in BOrders : p # o => ~Uncounted(p)
    BY <1>6 DEF CountInv, RoomForIt
  <2> QED BY <1>1, <1>2, <1>3, <1>5, <2>1, <2>2 DEF Uncounted
<1> QED BY <1>1, <1>4, <1>7, <1>8 DEF CountInv
-----------------------------------------------------------------------------
(* The vendor and its pushes.                                              *)

VenueRec == [status : Words \cup {"none"}, done : Nat]

Pushes == {"fill", "status"} \X BOrders \X (Nat \cup Words)

\* A push after which the adapter forgets the order.
EndPush(push) == push[1] = "status" /\ push[3] \in EndWords

VenueTypes ==
  /\ vendor \in {"tiger", "futu"} /\ ord \in [BOrders -> OrderRec]
  /\ venue \in [BOrders -> VenueRec] /\ wire \in Seq(Pushes) /\ registered \subseteq BOrders

\* What the vendor executes is at most what was ordered, and less while the order is open.
Executed ==
  \A o \in BOrders :
    /\ venue[o].done \in 0..Lots[o] /\ (venue[o].status = "none" => venue[o].done = 0)
    /\ venue[o].status # "none" /\ venue[o].status \notin EndWords => venue[o].done < Lots[o]

\* The vendor has what it took, and nothing else; only what has been placed is registered.
Known ==
  /\ \A o \in BOrders : /\ ord[o].at \in {"new", "placing"} => venue[o].status = "none"
                        /\ ord[o].at \in {"accepted", "done"} => venue[o].status # "none"
                        /\ ord[o].at = "accepted" /\ "early" \notin venueTrouble
                             => venue[o].status \notin EndWords
  /\ \A o \in registered : ord[o].at = "done"

\* An order of the vendor's that goes on is registered.
OpenIsKnown ==
  \A o \in BOrders : ord[o].at = "done" /\ venue[o].status \notin EndWords => o \in registered

\* The end of an order is pushed after it ended.
EndsAreTrue ==
  \A i \in 1..Len(wire) : EndPush(wire[i]) => venue[wire[i][2]].status \in EndWords

\* If the vendor neither hurries nor swaps, a fill on its way is that of a registered
\* order, and the end of the order is not before it.
FillsInTime ==
  venueTrouble \cap {"early", "reordered"} = {} =>
    /\ dropped = {}
    /\ \A i \in 1..Len(wire) : wire[i][1] = "fill" =>
         /\ wire[i][2] \in registered
         /\ \A j \in 1..(i - 1) : EndPush(wire[j]) => wire[j][2] # wire[i][2]

\* The end of an order that is still registered is on its way.
EndsArrive ==
  venueTrouble \cap {"early", "outage"} = {} /\ ~link.closed =>
    \A o \in registered : venue[o].status \in EndWords =>
      \E i \in 1..Len(wire) : EndPush(wire[i]) /\ wire[i][2] = o

VenueInv ==
  /\ VenueTypes /\ Executed /\ Known /\ OpenIsKnown /\ EndsAreTrue /\ FillsInTime /\ EndsArrive

LEMMA VenueInitially == BInit => VenueInv
<1> SUFFICES ASSUME BInit PROVE VenueInv
  OBVIOUS
<1>1. "none" \notin EndWords /\ wire = <<>> /\ Len(wire) = 0 /\ registered = {} /\ dropped = {}
  BY DEF BInit, EndWords
<1>2. VenueTypes /\ Executed
  BY <1>1, BrokersAssumption DEF BInit, VenueTypes, Executed, VenueRec, OrderRec
<1>3. Known /\ OpenIsKnown
  BY <1>1 DEF BInit, Known, OpenIsKnown
<1>4. EndsAreTrue /\ FillsInTime /\ EndsArrive
  BY <1>1 DEF EndsAreTrue, FillsInTime, EndsArrive
<1> QED BY <1>2, <1>3, <1>4 DEF VenueInv

\* Steps that move neither an order nor a push.
LEMMA VenueStays ==
  ASSUME VenueInv, UNCHANGED <<vendor, ord, venue, wire, registered, dropped>>,
         venueTrouble \subseteq venueTrouble', link.closed => link'.closed
  PROVE  VenueInv'
<1>1. \A push : EndPush(push)' <=> EndPush(push)
  BY DEF EndPush, EndWords
<1>2. VenueTypes' /\ Executed'
  BY DEF VenueInv, VenueTypes, Executed, VenueRec, Pushes, Words, EndWords
<1>3. Known' /\ OpenIsKnown'
  BY DEF VenueInv, Known, OpenIsKnown, EndWords
<1>4. EndsAreTrue' /\ FillsInTime' /\ EndsArrive'
  BY <1>1 DEF VenueInv, EndsAreTrue, FillsInTime, EndsArrive, EndPush, EndWords
<1> QED BY <1>2, <1>3, <1>4 DEF VenueInv

\* Steps of one order that push nothing: it is refused, admitted, tried again, or taken.
LEMMA VenueTakes ==
  ASSUME VenueInv, NEW o \in BOrders, NEW r \in OrderRec, NEW v \in VenueRec,
         ord' = [ord EXCEPT ![o] = r], venue' = [venue EXCEPT ![o] = v],
         UNCHANGED <<vendor, wire, registered, dropped, link>>,
         venueTrouble \subseteq venueTrouble',
         ord[o].at \in {"new", "placing"}, r.at \in {"placing", "accepted", "failed"},
         v.done = venue[o].done, v.status \notin EndWords,
         r.at = "placing" => v.status = "none", r.at = "accepted" => v.status # "none"
  PROVE  VenueInv'
<1>1. /\ \A p \in BOrders : ord'[p] = IF p = o THEN r ELSE ord[p]
      /\ \A p \in BOrders : venue'[p] = IF p = o THEN v ELSE venue[p]
      /\ EndWords' = EndWords /\ \A p \in BOrders : venue[p] \in VenueRec
  BY DEF VenueInv, VenueTypes, EndWords
<1>2. venue[o].status = "none" /\ "none" \notin EndWords /\ o \notin registered
  BY DEF VenueInv, Known, EndWords
<1>3. VenueTypes'
  BY DEF VenueInv, VenueTypes, VenueRec, Pushes, Words
<1>4. Executed'
  <2>1. v.done = 0 /\ Lots[o] \in Nat \ {0}
    BY <1>2, BrokersAssumption DEF VenueInv, Executed
  <2> QED BY <1>1, <2>1 DEF VenueInv, Executed
<1>5. Known' /\ OpenIsKnown'
  BY <1>1, <1>2 DEF VenueInv, VenueTypes, Known, OpenIsKnown
<1>6. \A push : EndPush(push)' <=> EndPush(push)
  BY <1>1 DEF EndPush
<1>7. EndsAreTrue'
  <2>1. \A i \in 1..Len(wire) : wire[i] \in Pushes
    BY DEF VenueInv, VenueTypes
  <2>2. \A i \in 1..Len(wire) : wire[i][2] \in BOrders
    BY <2>1 DEF Pushes
  <2> QED BY <1>1, <1>2, <1>6, <2>2 DEF VenueInv, EndsAreTrue
<1>8. FillsInTime'
  BY <1>6 DEF VenueInv, FillsInTime
<1>9. EndsArrive'
  BY <1>1, <1>2, <1>6 DEF VenueInv, VenueTypes, EndsArrive
<1> QED BY <1>3, <1>4, <1>5, <1>7, <1>8, <1>9 DEF VenueInv
\* place_order has returned: an order that the vendor may have ended in the meantime.
LEMMA VenueRegisters ==
  ASSUME VenueInv, CountInv, NEW o \in BOrders, RegisterOrder(o)
  PROVE  VenueInv'
<1> DEFINE r == [ord[o] EXCEPT !.at = "done"]
<1>1. r \in OrderRec /\ r.at = "done" /\ ord' = [ord EXCEPT ![o] = r]
  BY OrderMoves DEF RegisterOrder
<1>2. /\ UNCHANGED <<vendor, venue, wire, dropped, link, venueTrouble>>
      /\ registered' = registered \cup {o} /\ ord[o].at = "accepted" /\ EndWords' = EndWords
  BY DEF RegisterOrder, EndWords
<1> HIDE DEF r
<1>3. \A p \in BOrders : ord'[p] = IF p = o THEN r ELSE ord[p]
  BY <1>1 DEF VenueInv, VenueTypes
<1>4. \A push : EndPush(push)' <=> EndPush(push)
  BY <1>2 DEF EndPush
<1>5. VenueTypes' /\ Executed'
  BY <1>1, <1>2 DEF VenueInv, VenueTypes, Executed, VenueRec, Pushes, Words
<1>6. Known' /\ OpenIsKnown'
  BY <1>1, <1>2, <1>3 DEF VenueInv, VenueTypes, Known, OpenIsKnown
<1>7. EndsAreTrue' /\ FillsInTime'
  BY <1>2, <1>4 DEF VenueInv, EndsAreTrue, FillsInTime
<1>8. EndsArrive'
  <2>1. "early" \notin venueTrouble => venue[o].status \notin EndWords
    BY <1>2 DEF VenueInv, Known
  <2> QED BY <1>2, <1>4, <2>1 DEF VenueInv, EndsArrive
<1> QED BY <1>5, <1>6, <1>7, <1>8 DEF VenueInv

\* The vendor executes or ends an open order, and pushes what it did while it can.
LEMMA VenueMoves ==
  ASSUME VenueInv, LinkInv, CountInv, NEW o \in BOrders, NEW v \in VenueRec,
         venue[o].status # "none", venue[o].status \notin EndWords,
         venue' = [venue EXCEPT ![o] = v], v.status # "none", v.done \in 0..Lots[o],
         v.status \notin EndWords => v.done < Lots[o],
         wire' \in Seq(Pushes), Len(wire') \in Nat, Len(wire') >= Len(wire),
         \A i \in 1..Len(wire) : wire'[i] = wire[i],
         \A i \in 1..Len(wire') : i > Len(wire) =>
           /\ wire'[i][2] = o
           /\ EndPush(wire'[i]) => v.status \in EndWords,
         "reordered" \notin venueTrouble' =>
           \A i \in 1..Len(wire') : i > Len(wire) /\ wire'[i][1] = "fill" =>
             \A j \in 1..(i - 1) : j > Len(wire) => ~EndPush(wire'[j]),
         v.status \in EndWords /\ link.up =>
           \E i \in 1..Len(wire') : i > Len(wire) /\ EndPush(wire'[i]),
         venueTrouble \subseteq venueTrouble',
         ord[o].at # "done" => "early" \in venueTrouble',
         UNCHANGED <<vendor, ord, registered, dropped, link>>, gate'.connected = gate.connected
  PROVE  VenueInv'
<1>1. /\ \A p \in BOrders : venue'[p] = IF p = o THEN v ELSE venue[p]
      /\ EndWords' = EndWords /\ Len(wire) \in Nat
  BY DEF VenueInv, VenueTypes, EndWords
<1>2. \A push : EndPush(push)' <=> EndPush(push)
  BY <1>1 DEF EndPush
<1>3. \A i \in 1..Len(wire) : wire[i][2] \in BOrders
  <2>1. \A i \in 1..Len(wire) : wire[i] \in Pushes
    BY DEF VenueInv, VenueTypes
  <2> QED BY <2>1 DEF Pushes
<1>4. VenueTypes'
  BY DEF VenueInv, VenueTypes, VenueRec, Pushes, Words
<1>5. Executed'
  BY <1>1 DEF VenueInv, Executed
<1>6. ord[o].at \notin {"new", "placing"} /\ (ord[o].at = "done" => o \in registered)
  BY DEF VenueInv, Known, OpenIsKnown
<1>7. Known' /\ OpenIsKnown'
  BY <1>1, <1>6 DEF VenueInv, Known, OpenIsKnown
<1>8. \A i \in 1..Len(wire) : EndPush(wire[i]) => wire[i][2] # o
  BY DEF VenueInv, EndsAreTrue
<1>9. EndsAreTrue'
  <2> SUFFICES ASSUME NEW i \in 1..Len(wire'), EndPush(wire'[i])
               PROVE  venue'[wire'[i][2]].status \in EndWords
    BY <1>1, <1>2 DEF EndsAreTrue
  <2>1. CASE i > Len(wire)
    BY <1>1, <2>1
  <2>2. CASE i \in 1..Len(wire)
    BY <1>1, <1>3, <1>8, <2>2 DEF VenueInv, EndsAreTrue
  <2> QED BY <1>1, <2>1, <2>2
<1>10. FillsInTime'
  <2> SUFFICES ASSUME venueTrouble' \cap {"early", "reordered"} = {}
               PROVE  /\ dropped = {}
                      /\ \A i \in 1..Len(wire') : wire'[i][1] = "fill" =>
                           /\ wire'[i][2] \in registered
                           /\ \A j \in 1..(i - 1) : EndPush(wire'[j]) => wire'[j][2] # wire'[i][2]
    BY <1>2 DEF FillsInTime
  <2>1. venueTrouble \cap {"early", "reordered"} = {} /\ ord[o].at = "done" /\ o \in registered
    BY <1>6
  <2>2. /\ dropped = {}
        /\ \A i \in 1..Len(wire) : wire[i][1] = "fill" =>
             /\ wire[i][2] \in registered
             /\ \A j \in 1..(i - 1) : EndPush(wire[j]) => wire[j][2] # wire[i][2]
    BY <2>1 DEF VenueInv, FillsInTime
  <2>3. ASSUME NEW i \in 1..Len(wire'), wire'[i][1] = "fill"
        PROVE  /\ wire'[i][2] \in registered
               /\ \A j \in 1..(i - 1) : EndPush(wire'[j]) => wire'[j][2] # wire'[i][2]
    <3>1. CASE i \in 1..Len(wire)
      <4>1. \A j \in 1..(i - 1) : j \in 1..Len(wire) /\ wire'[j] = wire[j]
        BY <1>1, <3>1
      <4>2. wire'[i] = wire[i]
        BY <3>1
      <4>3. /\ wire[i][2] \in registered
            /\ \A j \in 1..(i - 1) : EndPush(wire[j]) => wire[j][2] # wire[i][2]
        BY <2>2, <2>3, <3>1, <4>2
      <4> QED BY <4>1, <4>2, <4>3
    <3>2. CASE i > Len(wire)
      <4>1. wire'[i][2] = o
        BY <3>2
      <4>2. ASSUME NEW j \in 1..(i - 1), EndPush(wire'[j])
            PROVE  wire'[j][2] # o
        <5>1. ~(j > Len(wire))
          BY <2>3, <3>2, <4>2
        <5>2. j \in 1..Len(wire)
          BY <1>1, <5>1
        <5> QED BY <1>8, <4>2, <5>2
      <4> QED BY <2>1, <4>1, <4>2
    <3> QED BY <1>1, <3>1, <3>2
  <2> QED BY <2>2, <2>3
<1>11. EndsArrive'
  <2> SUFFICES ASSUME venueTrouble' \cap {"early", "outage"} = {}, ~link.closed,
                      NEW p \in registered, venue'[p].status \in EndWords
               PROVE  \E i \in 1..Len(wire') : EndPush(wire'[i]) /\ wire'[i][2] = p
    BY <1>1, <1>2 DEF EndsArrive
  <2>1. CASE p = o
    <3>1. link.up
      BY DEF LinkInv, PushesArrive, CountInv, ThroughGate
    <3> QED BY <1>1, <2>1, <3>1
  <2>2. CASE p # o
    <3>1. p \in BOrders /\ venue[p].status \in EndWords
      BY <1>1, <2>2 DEF VenueInv, VenueTypes
    <3>2. PICK i \in 1..Len(wire) : EndPush(wire[i]) /\ wire[i][2] = p
      BY <3>1 DEF VenueInv, EndsArrive
    <3> QED BY SMTT(30), <1>1, <3>2
  <2> QED BY <2>1, <2>2
<1> QED BY <1>4, <1>5, <1>7, <1>9, <1>10, <1>11 DEF VenueInv

LEMMA OpenOrder ==
  ASSUME VenueInv, NEW o \in BOrders, Open(o)
  PROVE  venue[o].status # "none" /\ venue[o].status \notin EndWords /\ venue[o].done < Lots[o]
<1>1. vendor \in {"tiger", "futu"} /\ venue[o].status \in Words
  BY DEF VenueInv, VenueTypes, VenueRec, Open
<1> QED BY <1>1, EndWordsAreTerminal DEF Open, VenueInv, Executed

LEMMA Executes ==
  ASSUME VenueInv, LinkInv, CountInv, NEW o \in BOrders, Execute(o)
  PROVE  VenueInv'
<1> DEFINE n == venue[o].done + 1
<1>1. /\ venue[o].status # "none" /\ venue[o].status \notin EndWords
      /\ venue[o].done \in Nat /\ venue[o].done < Lots[o] /\ Lots[o] \in Nat
      /\ vendor \in {"tiger", "futu"} /\ wire \in Seq(Pushes)
  BY OpenOrder, BrokersAssumption DEF Execute, VenueInv, VenueTypes, VenueRec
<1>2. n \in 1..Lots[o] /\ n \in Nat
  BY <1>1
<1>3. PICK w \in WordsFor(IF n = Lots[o] THEN "FILLED" ELSE "PARTIAL_FILL"), swapped \in BOOLEAN :
        /\ venue' = [venue EXCEPT ![o] = [status |-> w, done |-> n]]
        /\ wire' = Pushed(<<"fill", o, n>>, <<"status", o, w>>, swapped)
        /\ venueTrouble' = venueTrouble \cup (IF swapped THEN {"reordered"} ELSE {})
                             \cup (IF ord[o].at # "done" THEN {"early"} ELSE {})
  BY DEF Execute
<1>4. /\ w \in Words /\ w # "none" /\ (n = Lots[o] => w \in EndWords)
      /\ (n # Lots[o] => w \notin EndWords)
  <2>1. "FILLED" \in Terminal
    BY DEF Terminal
  <2> QED BY <1>1, <2>1, EndWordsAreTerminal
<1>5. UNCHANGED <<vendor, ord, registered, dropped, link, gate>>
  BY DEF Execute, adapter
<1> DEFINE v == [status |-> w, done |-> n]
           a == IF swapped THEN <<"status", o, w>> ELSE <<"fill", o, n>>
           b == IF swapped THEN <<"fill", o, n>> ELSE <<"status", o, w>>
<1>6. v \in VenueRec /\ v.status = w /\ v.done = n
  BY <1>2, <1>4 DEF VenueRec
<1>7. /\ a \in Pushes /\ b \in Pushes /\ a[2] = o /\ b[2] = o
      /\ EndPush(a) => w \in EndWords
      /\ EndPush(b) => w \in EndWords
      /\ ~swapped => a[1] = "fill" /\ b[1] = "status"
      /\ w \in EndWords => EndPush(a) \/ EndPush(b)
      /\ a[1] = "fill" => ~EndPush(a)
  BY <1>2, <1>4 DEF Pushes, EndPush
<1>8. wire' = IF ~link.up THEN wire ELSE wire \o <<a, b>>
  BY <1>3 DEF Pushed
<1>9. venue' = [venue EXCEPT ![o] = v]
  BY <1>3
<1> HIDE DEF v, a, b, n
<1>10. /\ wire' \in Seq(Pushes) /\ Len(wire') \in Nat /\ Len(wire) \in Nat
       /\ Len(wire') = IF link.up THEN Len(wire) + 2 ELSE Len(wire)
       /\ \A i \in 1..Len(wire) : wire'[i] = wire[i]
       /\ link.up => wire'[Len(wire) + 1] = a /\ wire'[Len(wire) + 2] = b
  BY <1>1, <1>7, <1>8
<1>11. \A i \in 1..Len(wire') : i > Len(wire) =>
         link.up /\ (i = Len(wire) + 1 \/ i = Len(wire) + 2)
  BY <1>10
<1>12. \A i \in 1..Len(wire') : i > Len(wire) =>
         /\ wire'[i][2] = o
         /\ EndPush(wire'[i]) => v.status \in EndWords
  BY <1>6, <1>7, <1>10, <1>11
<1>13. "reordered" \notin venueTrouble' =>
         \A i \in 1..Len(wire') : i > Len(wire) /\ wire'[i][1] = "fill" =>
           \A j \in 1..(i - 1) : j > Len(wire) => ~EndPush(wire'[j])
  <2> SUFFICES ASSUME ~swapped, NEW i \in 1..Len(wire'), i > Len(wire), wire'[i][1] = "fill",
                      NEW j \in 1..(i - 1), j > Len(wire)
               PROVE  ~EndPush(wire'[j])
    BY <1>3
  <2>1. j = Len(wire) + 1 /\ i = Len(wire) + 2 /\ link.up
    BY <1>10, <1>11
  <2> QED BY <1>7, <1>10, <2>1
<1>14. v.status \in EndWords /\ link.up =>
         \E i \in 1..Len(wire') : i > Len(wire) /\ EndPush(wire'[i])
  <2>1. link.up => /\ Len(wire) + 1 \in 1..Len(wire') /\ Len(wire) + 2 \in 1..Len(wire')
                   /\ Len(wire) + 1 > Len(wire) /\ Len(wire) + 2 > Len(wire)
    BY <1>10
  <2> QED BY <1>6, <1>7, <1>10, <2>1
<1>15. v.done \in 0..Lots[o] /\ (v.status \notin EndWords => v.done < Lots[o])
  BY <1>1, <1>2, <1>4, <1>6 DEF n
<1>16. Len(wire') >= Len(wire)
  BY <1>10
<1>17. venueTrouble \subseteq venueTrouble' /\ (ord[o].at # "done" => "early" \in venueTrouble')
  BY <1>3
<1>18. gate'.connected = gate.connected
  BY <1>5
<1>19. v.status # "none"
  BY <1>4, <1>6
<1> QED
  BY <1>1, <1>5, <1>6, <1>9, <1>10, <1>12, <1>13, <1>14, <1>15, <1>16, <1>17, <1>18, <1>19,
     VenueMoves

LEMMA EndsOrder ==
  ASSUME VenueInv, LinkInv, CountInv, NEW o \in BOrders, NEW status \in Terminal, Open(o),
         EndAtVendor(o, status), UNCHANGED <<vendor, ord, registered, dropped, link>>,
         gate'.connected = gate.connected
  PROVE  VenueInv'
<1>1. /\ venue[o].status # "none" /\ venue[o].status \notin EndWords /\ venue[o] \in VenueRec
      /\ venue[o].done \in 0..Lots[o] /\ vendor \in {"tiger", "futu"} /\ wire \in Seq(Pushes)
  BY OpenOrder DEF VenueInv, VenueTypes, Executed
<1>2. PICK w \in WordsFor(status) :
        /\ venue' = [venue EXCEPT ![o].status = w]
        /\ wire' = IF link.up THEN Append(wire, <<"status", o, w>>) ELSE wire
        /\ venueTrouble' = venueTrouble \cup (IF ord[o].at # "done" THEN {"early"} ELSE {})
  BY DEF EndAtVendor
<1>3. w \in Words /\ w \in EndWords /\ w # "none"
  BY <1>1, EndWordsAreTerminal
<1> DEFINE v == [venue[o] EXCEPT !.status = w]
           a == <<"status", o, w>>
<1>4. v \in VenueRec /\ v.status = w /\ v.done = venue[o].done
  BY <1>1, <1>3 DEF VenueRec
<1>5. a \in Pushes /\ a[2] = o /\ EndPush(a) /\ a[1] # "fill"
  BY <1>3 DEF Pushes, EndPush
<1>6. venue' = [venue EXCEPT ![o] = v] /\ wire' = IF link.up THEN Append(wire, a) ELSE wire
  BY <1>2
<1> HIDE DEF v, a
<1>7. /\ wire' \in Seq(Pushes) /\ Len(wire') \in Nat /\ Len(wire) \in Nat
      /\ Len(wire') = IF link.up THEN Len(wire) + 1 ELSE Len(wire)
      /\ \A i \in 1..Len(wire) : wire'[i] = wire[i]
      /\ link.up => wire'[Len(wire) + 1] = a
  BY <1>1, <1>5, <1>6
<1>8. \A i \in 1..Len(wire') : i > Len(wire) => wire'[i] = a
  BY <1>7
<1>9. \A i \in 1..Len(wire') : i > Len(wire) =>
        /\ wire'[i][2] = o
        /\ EndPush(wire'[i]) => v.status \in EndWords
  BY <1>3, <1>4, <1>5, <1>8
<1>10. "reordered" \notin venueTrouble' =>
         \A i \in 1..Len(wire') : i > Len(wire) /\ wire'[i][1] = "fill" =>
           \A j \in 1..(i - 1) : j > Len(wire) => ~EndPush(wire'[j])
  BY <1>5, <1>8
<1>11. v.status \in EndWords /\ link.up =>
         \E i \in 1..Len(wire') : i > Len(wire) /\ EndPush(wire'[i])
  <2>1. link.up => Len(wire) + 1 \in 1..Len(wire') /\ Len(wire) + 1 > Len(wire)
    BY <1>7
  <2> QED BY <1>5, <1>7, <2>1
<1>12. v.done \in 0..Lots[o] /\ (v.status \notin EndWords => v.done < Lots[o]) /\ v.status # "none"
  BY <1>1, <1>3, <1>4
<1>13. Len(wire') >= Len(wire)
  BY <1>7
<1>14. venueTrouble \subseteq venueTrouble' /\ (ord[o].at # "done" => "early" \in venueTrouble')
  BY <1>2
<1> QED
  BY <1>1, <1>4, <1>6, <1>7, <1>9, <1>10, <1>11, <1>12, <1>13, <1>14, VenueMoves
\* The SDK's thread handles the first push.
LEMMA VenueHandles ==
  ASSUME VenueInv, HandlePush
  PROVE  VenueInv'
<1> DEFINE push == wire[1]
<1>1. /\ wire \in Seq(Pushes) /\ wire # <<>> /\ wire' = Tail(wire) /\ Head(wire) = push
      /\ UNCHANGED <<vendor, ord, venue, link, venueTrouble>>
  BY DEF VenueInv, VenueTypes, HandlePush
<1>2. /\ Len(wire) \in Nat \ {0} /\ Len(wire') = Len(wire) - 1 /\ wire' \in Seq(Pushes)
      /\ \A i \in 1..Len(wire') : i + 1 \in 1..Len(wire) /\ wire'[i] = wire[i + 1]
      /\ 1 \in 1..Len(wire)
  BY <1>1
<1>3. push \in Pushes
  BY <1>1, <1>2
<1>4. push[1] \in {"fill", "status"} /\ push[2] \in BOrders
  BY <1>3 DEF Pushes
<1>5. \/ /\ push[1] = "fill" /\ push[2] \in registered
         /\ registered' = registered /\ dropped' = dropped
      \/ push[1] = "fill" /\ push[2] \notin registered /\ registered' = registered
      \/ /\ push[1] = "status" /\ dropped' = dropped
         /\ registered' = IF EndPush(push) THEN registered \ {push[2]} ELSE registered
  BY <1>1 DEF HandlePush, Forgets, EndPush
<1>6. EndWords' = EndWords /\ \A x : EndPush(x)' <=> EndPush(x)
  BY <1>1 DEF EndWords, EndPush
<1>7. /\ registered' \subseteq registered
      /\ \A o \in registered \ registered' : o = push[2] /\ EndPush(push)
  BY <1>5
<1>8. EndPush(push) => venue[push[2]].status \in EndWords
  BY <1>2 DEF VenueInv, EndsAreTrue
<1>9. VenueTypes' /\ Executed'
  BY <1>1, <1>2, <1>6, <1>7 DEF VenueInv, VenueTypes, Executed, VenueRec, Pushes, Words
<1>10. Known'
  BY <1>1, <1>6, <1>7 DEF VenueInv, Known
<1>11. OpenIsKnown'
  BY <1>1, <1>6, <1>7, <1>8 DEF VenueInv, OpenIsKnown
<1>12. EndsAreTrue'
  BY <1>1, <1>2, <1>6 DEF VenueInv, EndsAreTrue
<1>13. FillsInTime'
  <2> SUFFICES ASSUME venueTrouble \cap {"early", "reordered"} = {}
               PROVE  /\ dropped' = {}
                      /\ \A i \in 1..Len(wire') : wire'[i][1] = "fill" =>
                           /\ wire'[i][2] \in registered'
                           /\ \A j \in 1..(i - 1) : EndPush(wire'[j]) => wire'[j][2] # wire'[i][2]
    BY <1>1, <1>6 DEF FillsInTime
  <2>1. /\ dropped = {}
        /\ \A i \in 1..Len(wire) : wire[i][1] = "fill" =>
             /\ wire[i][2] \in registered
             /\ \A j \in 1..(i - 1) : EndPush(wire[j]) => wire[j][2] # wire[i][2]
    BY DEF VenueInv, FillsInTime
  <2>2. dropped' = {}
    BY <1>2, <1>5, <2>1
  <2>3. ASSUME NEW i \in 1..Len(wire'), wire'[i][1] = "fill"
        PROVE  /\ wire'[i][2] \in registered'
               /\ \A j \in 1..(i - 1) : EndPush(wire'[j]) => wire'[j][2] # wire'[i][2]
    <3>1. i + 1 \in 1..Len(wire) /\ wire'[i] = wire[i + 1]
      BY <1>2
    <3>2. /\ wire[i + 1][2] \in registered
          /\ \A j \in 1..((i + 1) - 1) : EndPush(wire[j]) => wire[j][2] # wire[i + 1][2]
      BY <2>1, <2>3, <3>1
    <3>3. 1 \in 1..((i + 1) - 1)
      BY <1>2
    <3>4. wire[i + 1][2] \in registered'
      BY <1>7, <3>2, <3>3
    <3>5. ASSUME NEW j \in 1..(i - 1), EndPush(wire'[j])
          PROVE  wire'[j][2] # wire'[i][2]
      <4>1. j \in 1..Len(wire') /\ j + 1 \in 1..((i + 1) - 1)
        BY <1>2
      <4>2. wire'[j] = wire[j + 1]
        BY <1>2, <4>1
      <4> QED BY <3>1, <3>2, <3>5, <4>1, <4>2
    <3> QED BY <3>1, <3>4, <3>5
  <2> QED BY <2>2, <2>3
<1>14. EndsArrive'
  <2> SUFFICES ASSUME venueTrouble \cap {"early", "outage"} = {}, ~link.closed,
                      NEW o \in registered', venue[o].status \in EndWords
               PROVE  \E i \in 1..Len(wire') : EndPush(wire'[i]) /\ wire'[i][2] = o
    BY <1>1, <1>6 DEF EndsArrive
  <2>1. PICK i \in 1..Len(wire) : EndPush(wire[i]) /\ wire[i][2] = o
    BY <1>7 DEF VenueInv, EndsArrive
  <2>2. i # 1
    BY <1>5, <2>1 DEF EndPush
  <2>3. i - 1 \in 1..Len(wire') /\ wire'[i - 1] = wire[(i - 1) + 1] /\ (i - 1) + 1 = i
    BY <1>2, <2>2
  <2> QED BY <2>1, <2>3
<1> QED BY <1>9, <1>10, <1>11, <1>12, <1>13, <1>14 DEF VenueInv

BrokersInv == PaperInv /\ LinkInv /\ CountInv /\ VenueInv

LEMMA BrokersInitially == BInit => BrokersInv
  BY PaperInitially, LinkInitially, CountInitially, VenueInitially DEF BrokersInv

LEMMA PaperUnmoved == ASSUME PaperInv, UNCHANGED paper PROVE PaperInv'
  BY DEF PaperInv, PaperOrder

\* The steps of an adapter, by what they move.
LEMMA BrokersStep ==
  ASSUME BrokersInv, BrokersNext
  PROVE  BrokersInv'
<1>0. PaperInv'
  <2>1. UNCHANGED paper
    BY DEF BrokersNext, Connect, Disconnect, Outage, FutuRestores, Reconnect, Confirm, Revoke,
           HandlePush, PumpFill, Submit, Take, PlaceFails, TakeAndFail, RegisterOrder,
           CancelOrder, Execute, Ends
  <2> QED BY <2>1, PaperUnmoved DEF BrokersInv
<1>1. gate \in GateRec /\ link \in LinkRec
  BY DEF BrokersInv, LinkInv
<1>2. CASE Connect \/ Disconnect \/ Outage \/ FutuRestores \/ Reconnect \/ PumpFill
  <2>1. /\ UNCHANGED <<vendor, ord, venue, wire, registered, dropped>>
        /\ venueTrouble \subseteq venueTrouble'
    BY <1>2 DEF Connect, Disconnect, Outage, FutuRestores, Reconnect, PumpFill
  <2>2. /\ link.closed => link'.closed
        /\ gate'.count <= gate.count
        /\ gate.connected \/ link.closed => gate'.connected \/ link'.closed
    <3>1. gate.count \in Nat
      BY <1>1 DEF GateRec
    <3>2. CASE Connect
      BY <1>1, <3>1, <3>2, Connecting DEF Connect, GateRec, LinkRec
    <3>3. CASE Disconnect
      BY <1>1, <3>1, <3>3 DEF Disconnect, GateRec, LinkRec
    <3>4. CASE Outage \/ FutuRestores
      <4>1. gate' = gate /\ link'.closed = link.closed
        <5>1. CASE Outage
          BY <1>1, <5>1 DEF Outage, LinkRec
        <5>2. CASE FutuRestores
          BY <1>1, <5>2 DEF FutuRestores, LinkRec
        <5> QED BY <3>4, <5>1, <5>2
      <4> QED BY <3>1, <4>1
    <3>5. CASE Reconnect
      BY <1>1, <3>1, <3>5, Connecting DEF Reconnect, LinkRec
    <3>6. CASE PumpFill
      BY <1>1, <3>1, <3>6, CountedDown DEF PumpFill, PumpsLeft, LinkRec
    <3> QED BY <1>2, <3>2, <3>3, <3>4, <3>5, <3>6
  <2>3. LinkInv'
    BY <1>2, LinkKeeps DEF BrokersInv
  <2>4. CountInv'
    BY <2>1, <2>2, <2>3, CountStays DEF BrokersInv
  <2>5. VenueInv'
    BY <2>1, <2>2, VenueStays DEF BrokersInv
  <2> QED BY <1>0, <2>3, <2>4, <2>5 DEF BrokersInv
<1>3. CASE Confirm \/ Revoke \/ HandlePush
  <2>1. /\ UNCHANGED <<vendor, ord, venue, link, retries, venueTrouble>>
        /\ gate' \in GateRec /\ gate'.connected = gate.connected /\ gate'.count = gate.count
    BY <1>1, <1>3 DEF Confirm, Revoke, HandlePush, GateRec, adapter
  <2>2. gate.count \in Nat
    BY <1>1 DEF GateRec
  <2>3. LinkInv'
    BY <2>1, LinkStays DEF BrokersInv
  <2>4. CountInv'
    BY <2>1, <2>2, <2>3, CountStays DEF BrokersInv
  <2>5. VenueInv'
    <3>1. CASE Confirm \/ Revoke
      BY <2>1, <3>1, VenueStays DEF Confirm, Revoke, BrokersInv, adapter
    <3>2. CASE HandlePush
      BY <3>2, VenueHandles DEF BrokersInv
    <3> QED BY <1>3, <3>1, <3>2
  <2> QED BY <1>0, <2>3, <2>4, <2>5 DEF BrokersInv
<1>4. ASSUME NEW o \in BOrders, Submit(o) \/ Take(o) \/ PlaceFails(o) \/ TakeAndFail(o)
      PROVE  BrokersInv'
  <2>1. /\ UNCHANGED <<vendor, gate, wire, registered, dropped, link, retries>>
        /\ venueTrouble \subseteq venueTrouble'
    BY <1>4 DEF Submit, Take, PlaceFails, TakeAndFail, adapter
  <2>2. LinkInv'
    BY <1>1, <2>1, LinkStays DEF BrokersInv
  <2>3. CountInv'
    BY <1>4, CountKeeps DEF BrokersInv
  <2>4. VenueInv'
    <3>1. /\ venue \in [BOrders -> VenueRec] /\ venue[o] \in VenueRec /\ ord[o] \in OrderRec
          /\ vendor \in {"tiger", "futu"} /\ "none" \notin EndWords
          /\ ord[o].at \in {"new", "placing"} /\ venue[o].status = "none"
      BY <1>4 DEF Submit, Take, PlaceFails, TakeAndFail, BrokersInv, VenueInv, VenueTypes, Known,
                  EndWords
    <3>2. PICK r \in OrderRec : /\ ord' = [ord EXCEPT ![o] = r]
                                /\ r.at \in {"placing", "accepted", "failed"}
                                /\ r.at = "accepted" <=> Take(o)
      <4> DEFINE q(at) == [ord[o] EXCEPT !.at = at]
                 again == [ord[o] EXCEPT !.tries = @ + 1]
      <4>1. /\ \A at \in {"placing", "accepted", "failed"} : q(at) \in OrderRec /\ q(at).at = at
            /\ again \in OrderRec /\ again.at = ord[o].at
        BY <3>1 DEF OrderRec
      <4>2. \/ Take(o) /\ ord' = [ord EXCEPT ![o] = q("accepted")]
            \/ ~Take(o) /\ ord' = [ord EXCEPT ![o] = q("placing")]
            \/ ~Take(o) /\ ord' = [ord EXCEPT ![o] = q("failed")]
            \/ ~Take(o) /\ ord[o].at = "placing" /\ ord' = [ord EXCEPT ![o] = again]
        <5>1. CASE Take(o)
          BY <5>1 DEF Take
        <5>2. CASE ~Take(o)
          BY <1>4, <5>2 DEF Submit, PlaceFails, TakeAndFail
        <5> QED BY <5>1, <5>2
      <4> HIDE DEF q, again
      <4> QED BY <4>1, <4>2
    <3>3. CASE UNCHANGED venue
      <4>1. venue' = [venue EXCEPT ![o] = venue[o]]
        BY <3>1, <3>3
      <4>2. r.at # "accepted"
        <5>1. ~Take(o)
          <6>1. CASE Take(o)
            <7>1. FirstWord \in Words /\ "none" \notin Words
              BY <3>1, EndWordsAreTerminal
            <7> QED BY <3>1, <3>3, <6>1, <7>1 DEF Take, VenueRec
          <6> QED BY <6>1
        <5> QED BY <3>2, <5>1
      <4> QED BY <2>1, <3>1, <3>2, <4>1, <4>2, VenueTakes DEF BrokersInv
    <3>4. CASE ~UNCHANGED venue
      <4>1. (Take(o) \/ TakeAndFail(o)) /\ venue' = [venue EXCEPT ![o].status = FirstWord]
        BY <1>4, <3>4 DEF Submit, Take, PlaceFails, TakeAndFail
      <4> DEFINE v == [venue[o] EXCEPT !.status = FirstWord]
      <4>2. FirstWord \in Words /\ FirstWord \notin EndWords /\ FirstWord # "none"
        BY <3>1, EndWordsAreTerminal
      <4>3. v \in VenueRec /\ v.status = FirstWord /\ v.done = venue[o].done
        BY <3>1, <4>2 DEF VenueRec
      <4>4. venue' = [venue EXCEPT ![o] = v]
        BY <4>1
      <4>5. r.at # "placing"
        <5>1. ord'[o].at \in {"accepted", "failed"}
          BY <3>1, <4>1 DEF Take, TakeAndFail, BrokersInv, VenueInv, VenueTypes, OrderRec
        <5> QED BY <3>2, <5>1 DEF BrokersInv, VenueInv, VenueTypes
      <4> HIDE DEF v
      <4> QED BY <2>1, <3>1, <3>2, <4>2, <4>3, <4>4, <4>5, VenueTakes DEF BrokersInv
    <3> QED BY <3>3, <3>4
  <2> QED BY <1>0, <2>2, <2>3, <2>4 DEF BrokersInv
<1>5. ASSUME NEW o \in BOrders, RegisterOrder(o)
      PROVE  BrokersInv'
  BY <1>0, <1>5, CountRegisters, VenueRegisters DEF BrokersInv
<1>6. ASSUME NEW o \in BOrders, Execute(o) \/ Ends(o) \/ CancelOrder(o)
      PROVE  BrokersInv'
  <2>1. /\ UNCHANGED <<vendor, ord, registered, dropped, link, retries>>
        /\ gate' = gate \/ gate' = OneLess
    BY <1>6 DEF Execute, Ends, CancelOrder, adapter
  <2>2. /\ gate' \in GateRec /\ gate'.count <= gate.count
        /\ gate'.connected = gate.connected
    BY <1>1, <2>1, CountedDown DEF GateRec
  <2>3. venueTrouble \subseteq venueTrouble'
    BY <1>6 DEF Execute, Ends, CancelOrder, EndAtVendor
  <2>4. LinkInv'
    BY <2>1, <2>2, <2>3, LinkStays DEF BrokersInv
  <2>5. CountInv'
    BY <2>1, <2>2, <2>3, <2>4, CountStays DEF BrokersInv
  <2>6. VenueInv'
    <3>1. CASE Execute(o)
      BY <3>1, Executes DEF BrokersInv
    <3>2. CASE Ends(o) \/ CancelOrder(o)
      <4>1. \E status \in Terminal : Open(o) /\ EndAtVendor(o, status)
        BY <3>2 DEF Ends, CancelOrder, Terminal
      <4> QED BY <2>1, <2>2, <4>1, EndsOrder DEF BrokersInv
    <3> QED BY <1>6, <3>1, <3>2
  <2> QED BY <1>0, <2>4, <2>5, <2>6 DEF BrokersInv
<1> QED BY <1>2, <1>3, <1>4, <1>5, <1>6 DEF BrokersNext

\* The four parts say what the runs check.
LEMMA BrokersInvIsSound == ASSUME BrokersInv PROVE BrokersSound
<1>0. NoFillDropped
  BY DEF BrokersInv, VenueInv, FillsInTime, NoFillDropped
<1>1. BrokersTypeOK
  BY DEF BrokersInv, LinkInv, GateRec, LinkRec, VenueInv, VenueTypes, Executed, PaperInv,
         PaperOrder, BrokersTypeOK
<1>2. RegisteredWhileOpen
  <2> SUFFICES ASSUME NEW o \in BOrders, ord[o].at = "done"
               PROVE  /\ Open(o) => o \in registered
                      /\ ~Open(o) /\ wire = <<>> /\ venueTrouble \cap {"early", "outage"} = {}
                         /\ ~link.closed => o \notin registered
    BY DEF RegisteredWhileOpen
  <2>1. Open(o) => o \in registered
    BY OpenOrder DEF BrokersInv, VenueInv, OpenIsKnown
  <2>2. ASSUME ~Open(o), wire = <<>>, venueTrouble \cap {"early", "outage"} = {}, ~link.closed
        PROVE  o \notin registered
    <3>1. venue[o].status \in EndWords
      <4>1. vendor \in {"tiger", "futu"} /\ venue[o].status \in Words
        BY DEF BrokersInv, VenueInv, VenueTypes, Known, VenueRec
      <4>2. venue[o].status # "none"
        BY <4>1, EndWordsAreTerminal
      <4> QED BY <2>2, <4>1, <4>2, EndWordsAreTerminal DEF Open
    <3>2. 1..Len(wire) = {}
      BY <2>2
    <3> QED BY <2>2, <3>1, <3>2 DEF BrokersInv, VenueInv, EndsArrive
  <2> QED BY <2>1, <2>2
<1>3. ClosedStaysClosed /\ CountWithinLimit
  BY DEF BrokersInv, LinkInv, OnePump, CountInv, RoomForIt, ClosedStaysClosed, CountWithinLimit
<1>4. PaperCancelHolds /\ PaperStatusTells
  <2> SUFFICES ASSUME NEW o \in BOrders
               PROVE  /\ paper[o].cancelled => paper[o].filled = paper[o].until
                      /\ paper[o].status = "FILLED" <=> paper[o].filled = Lots[o]
                      /\ paper[o].status = "PARTIAL_FILL" => paper[o].filled \in 1..(Lots[o] - 1)
                      /\ paper[o].cancelled => paper[o].status = "CANCELLED"
    BY DEF PaperCancelHolds, PaperStatusTells
  <2>1. PaperOrder(o, paper[o]) /\ Lots[o] \in Nat \ {0}
    BY BrokersAssumption DEF BrokersInv, PaperInv
  <2>2. paper[o].status \in {"none", "SUBMITTED", "PARTIAL_FILL", "FILLED", "CANCELLED"}
    BY <2>1 DEF PaperOrder, PaperRec
  <2> QED BY <2>1, <2>2 DEF PaperOrder
<1> QED BY <1>0, <1>1, <1>2, <1>3, <1>4 DEF BrokersSound

\* Whatever the vendor does with any number of orders, in any order, and however often
\* the connection is lost: nothing that BrokersSound promises is broken.
THEOREM BrokersAreSound == BrokersSpec => []BrokersSound
<1>1. ASSUME BrokersInv, [BrokersNext \/ (PaperNext /\ UNCHANGED Vendors)]_bvars
      PROVE  BrokersInv'
  <2>1. CASE BrokersNext
    BY <1>1, <2>1, BrokersStep
  <2>2. CASE UNCHANGED Vendors
    <3>1. /\ LinkInv' /\ CountInv' /\ VenueInv'
      <4>1. /\ UNCHANGED <<vendor, gate, ord, venue, wire, venueTrouble, outages>>
            /\ UNCHANGED <<link, registered, fills, given, dropped, retries>>
        BY <2>2 DEF Vendors, adapter
      <4>2. gate \in GateRec /\ gate.count \in Nat
        BY <1>1 DEF BrokersInv, LinkInv, GateRec
      <4>3. LinkInv'
        BY <1>1, <4>1, <4>2, LinkStays DEF BrokersInv
      <4>4. CountInv'
        BY <1>1, <4>1, <4>2, <4>3, CountStays DEF BrokersInv
      <4> QED BY <1>1, <4>1, <4>3, <4>4, VenueStays DEF BrokersInv
    <3>2. PaperInv'
      BY <1>1, <2>1, <2>2, PaperKeeps, PaperUnmoved, BrokersStep DEF BrokersInv, bvars
    <3> QED BY <3>1, <3>2 DEF BrokersInv
  <2> QED BY <1>1, <2>1, <2>2 DEF bvars
<1>2. BrokersInv => BrokersSound
  BY BrokersInvIsSound
<1> QED BY BrokersInitially, <1>1, <1>2, PTL DEF BrokersSpec
=============================================================================
