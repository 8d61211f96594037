------------------------------- MODULE Answers -------------------------------
(***************************************************************************)
(* What the API answers from its own state, as one specification: the      *)
(* endpoints of the Greeks and the requests that bear an idempotency key.  *)
(* They share no variable; their steps interleave.                         *)
(***************************************************************************)
EXTENDS GreeksApi, Idempotency

AnswersInit == ApiInit /\ IdemInit

AnswersNext ==
  \/ (LimitsNext \/ AcksNext \/ HistoryNext) /\ UNCHANGED idemvars
  \/ IdemNext /\ UNCHANGED apivars

AnswersSpec == AnswersInit /\ [][AnswersNext]_<<apivars, idemvars>>

\* The answers of the Greeks API agree with what is behind them: limits that rise,
\* a profit that fits its deltas, the newest acknowledgement, and a history that
\* splits its rows; and what an idempotency key replays was executed, and lately.
AnswersSound ==
  /\ ApiTypeOK /\ LimitsRise /\ PnlMatchesDelta /\ AckAnswersOwnOrLater /\ HistorySplitsRows
  /\ IdemTypeOK /\ ReplayIsRecent
=============================================================================
