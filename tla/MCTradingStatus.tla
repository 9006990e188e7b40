-------------------------- MODULE MCTradingStatus --------------------------
(* Input sets of the model-checking runs of TradingStatus.                  *)
EXTENDS TradingStatus

\* The smallest set that shows the lost pause.
OverrideInputs == {"pause", "rebalance"}

\* A pause once admitted is installed, and a shutdown ends the process: no
\* order of the locks stops either (state.rs, persist_safety_pause;
\* lifecycle.rs, begin_stop_engine).
ControlsEnd == PauseSettles /\ ShutdownEnds
=============================================================================
