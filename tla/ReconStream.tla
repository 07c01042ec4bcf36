----------------------------- MODULE ReconStream -----------------------------
(***************************************************************************)
(* What a live run promises the reader of its events (recon --jsonl, the   *)
(* dashboards): the order of the records and their iterations, whichever   *)
(* loop writes them (one receiver or several), and what cycle_completed    *)
(* says of the hop_result records before it.  ReconLoop and MultiReceiver  *)
(* implement it.                                                           *)
(***************************************************************************)
EXTENDS Naturals

VARIABLES
    stage,     \* the last record, other than receiver_failed, scan_step, hop_result
    iter,      \* the iteration of the last record that has one
    cycles,    \* the iteration of the last cycle_completed, 0 before the first
    entered,   \* hop_results of this pass whose CT entered the consensus
    reported,  \* new_observations of the last cycle_completed
    reason     \* the reason of the last recon_stopped

streamVars == <<stage, iter, cycles, entered, reported, reason>>

Stages == {"none", "recon_started", "acquisition_started", "watchlist_updated",
           "maintenance_started", "cycle_completed", "recon_stopped"}
Reasons == {"none", "iterations", "interrupted"}

Init ==
    /\ stage = "none" /\ reason = "none"
    /\ iter = 0 /\ cycles = 0 /\ entered = 0 /\ reported = 0

\* Every record of a cycle carries the iteration after the last completed one.
InCycle == iter' = cycles + 1

ReconStarted ==
    /\ stage = "none" /\ stage' = "recon_started"
    /\ UNCHANGED <<iter, cycles, entered, reported, reason>>

\* Receivers fail at the start, at the reconnection that begins a cycle, or in a
\* phase; never between an acquisition's watchlist and the pass over it.
ReceiverFailed ==
    /\ \/ stage \in {"recon_started", "acquisition_started", "maintenance_started",
                     "cycle_completed"} /\ InCycle
       \/ stage = "recon_started" /\ iter' = 0
    /\ UNCHANGED <<stage, cycles, entered, reported, reason>>

\* The first acquisition precedes any maintenance.
AcquisitionStarted ==
    /\ stage \in {"recon_started", "cycle_completed"}
    /\ stage' = "acquisition_started" /\ InCycle
    /\ UNCHANGED <<cycles, entered, reported, reason>>

WatchlistUpdated ==
    /\ stage = "acquisition_started" /\ stage' = "watchlist_updated" /\ InCycle
    /\ UNCHANGED <<cycles, entered, reported, reason>>

MaintenanceStarted ==
    /\ stage \in {"watchlist_updated", "cycle_completed"}
    /\ stage' = "maintenance_started" /\ InCycle
    /\ entered' = 0
    /\ UNCHANGED <<cycles, reported, reason>>

\* A hop_result whose CT entered the consensus; the others change nothing here.
HopResult ==
    /\ stage = "maintenance_started"
    /\ entered' = entered + 1
    /\ UNCHANGED <<stage, iter, cycles, reported, reason>>

\* The number of new observations is exactly that of the results that entered.
CycleCompleted ==
    /\ stage = "maintenance_started" /\ stage' = "cycle_completed" /\ InCycle
    /\ cycles' = cycles + 1
    /\ reported' = entered
    /\ UNCHANGED <<entered, reason>>

\* After its last cycle, or interrupted anywhere; an interrupt can overtake the
\* end of a run that has just reported that it reached its iterations.
ReconStopped ==
    /\ \/ stage = "cycle_completed" /\ reason' = "iterations" /\ iter' = cycles
       \/ reason # "interrupted" /\ reason' = "interrupted" /\ iter' \in {cycles, cycles + 1}
    /\ stage' = "recon_stopped"
    /\ UNCHANGED <<cycles, entered, reported>>

Next ==
    \/ ReconStarted \/ ReceiverFailed \/ AcquisitionStarted \/ WatchlistUpdated
    \/ MaintenanceStarted \/ HopResult \/ CycleCompleted \/ ReconStopped

Spec == Init /\ [][Next]_streamVars

=============================================================================
