--------------------------- MODULE ListeningSystem ---------------------------
(***************************************************************************)
(* The listening screen with a server that starts, shuts down, dies and is *)
(* launched again under it.  The sessions are in the server's memory only  *)
(* (src/client_registry.rs); while no HTTP is answered nothing registers,  *)
(* and calls fail.                                                         *)
(***************************************************************************)
EXTENDS ListeningScreen

VARIABLES main, tray, signalled, stopping, web

Server == INSTANCE ServerRun

serverVars == <<main, tray, signalled, stopping, web>>
systemVars == <<vars, serverVars>>

SystemTypeOK == TypeOK /\ Server!TypeOK

SystemInit == Init /\ Server!Init

\* A request in flight when the shutdown begins may still be answered.
AppDoes(A) ==
  /\ A
  /\ registered' # registered => main = "serving"
  /\ UNCHANGED serverVars

\* The process ends: its registry goes with it.
ServerDoes ==
  /\ Server!Next
  /\ registered' = IF main' = "ended" THEN {} ELSE registered
  /\ UNCHANGED <<engine, service, screen, attempts, job, leaving, mishaps>>

SystemNext == AppDoes(Next) \/ ServerDoes

\* That of the screen: each session's steps are few, so none can starve another.
\* Nobody need launch the server, end it or ask it to end.
SystemFairness ==
  /\ WF_systemVars(AppDoes(OnServiceConnected))
  /\ WF_systemVars(AppDoes(Recompose))
  /\ WF_systemVars(AppDoes(\E n \in Sessions : JobStep(n)))
  /\ WF_systemVars(AppDoes(\E n \in Sessions : LeaveEnds(n)))
  /\ WF_systemVars(AppDoes(\E n \in Sessions : Reap(n)))
  /\ WF_systemVars(ServerDoes /\ Server!MainStep)
  /\ WF_systemVars(ServerDoes /\ Server!ShutsDown)

SystemSpec == SystemInit /\ [][SystemNext]_systemVars /\ SystemFairness

-----------------------------------------------------------------------------
ServesUntilAsked == Server!ServesUntilAsked
EndsWhenAsked == Server!EndsWhenAsked
=============================================================================
