------------------------------- MODULE Processes -------------------------------
(***************************************************************************)
(* A program among others: its channel to another process, the descriptors it *)
(* owns, the jobs it started, the signals it gets, the screen it draws what a *)
(* child writes on, and the services and the bus its parts use.  They share   *)
(* nothing, so each moves on its own.                                         *)
(***************************************************************************)
EXTENDS IPCChannel, Descriptors, Jobs, Signals, EventBus, Services, Emulator

Init ==
  /\ ChannelInit /\ DescriptorInit /\ JobInit /\ SignalInit
  /\ BusInit /\ ServiceInit /\ EmulatorInit

ChannelStep ==
  ChannelNext /\ UNCHANGED <<descriptorVars, jobVars, signalVars, busVars, serviceVars, emulatorVars>>
DescriptorStep ==
  DescriptorNext /\ UNCHANGED <<channelVars, jobVars, signalVars, busVars, serviceVars, emulatorVars>>
JobStep ==
  JobNext /\ UNCHANGED <<channelVars, descriptorVars, signalVars, busVars, serviceVars, emulatorVars>>
SignalStep ==
  SignalNext /\ UNCHANGED <<channelVars, descriptorVars, jobVars, busVars, serviceVars, emulatorVars>>
BusStep ==
  BusNext /\ UNCHANGED <<channelVars, descriptorVars, jobVars, signalVars, serviceVars, emulatorVars>>
ServiceStep ==
  ServiceNext /\ UNCHANGED <<channelVars, descriptorVars, jobVars, signalVars, busVars, emulatorVars>>
EmulatorStep ==
  EmulatorNext /\ UNCHANGED <<channelVars, descriptorVars, jobVars, signalVars, busVars, serviceVars>>

Next ==
  \/ ChannelStep \/ DescriptorStep \/ JobStep \/ SignalStep
  \/ BusStep \/ ServiceStep \/ EmulatorStep

vars == <<channelVars, descriptorVars, jobVars, signalVars, busVars, serviceVars, emulatorVars>>

Spec == Init /\ [][Next]_vars

-----------------------------------------------------------------------------

\* Flow control, application, sessions and serial lines (stated in Services); events
\* reach their subscribers and the queue (stated in EventBus).
ServicesExact == ServicesKept /\ EventsDelivered

================================================================================
