---------------------------- MODULE ServiceDesk ----------------------------
(***************************************************************************)
(* The service desk whole: tickets, what is triaged into tickets, and the  *)
(* sweep that reads them.  Ticket and triage requests share the sessions.  *)
(***************************************************************************)
EXTENDS Intake, Sweep

deskVars == <<ticketVars, intakeVars, sweepVars>>

DeskInit == TicketsInit /\ IntakeInit /\ SweepInit

DeskNext ==
  \/ TicketStep /\ UNCHANGED <<intakeVars, sweepVars>>
  \/ IntakeStep /\ UNCHANGED sweepVars
  \/ SweepStep /\ UNCHANGED intakeVars

\* The schedule starts a sweep again and again, and a sweep that has started
\* goes on until it ends or dies.
SweepsRun ==
  \A w \in Sweepers :
    WF_deskVars(SweeperStep(w) /\ UNCHANGED <<ticketVars, intakeVars>>)

DeskSpec == DeskInit /\ [][DeskNext]_deskVars /\ SweepsRun

----------------------------------------------------------------------------

\* Rows, sources, sweeps and the requests of every session are of their types.
DeskTypeOK ==
  /\ TicketsTypeOK /\ IntakeTypeOK /\ SweepTypeOK
  /\ serving \in [Sessions -> TicketRequest \cup IntakeRequest]
=============================================================================
