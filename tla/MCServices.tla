----------------------------- MODULE MCServices ------------------------------
(***************************************************************************)
(* The services an application uses, in one instance: the scheduler, the       *)
(* queue and button of the example loops, the GPIO driver's outputs and edges, *)
(* and PWM. They share no state, so a behaviour runs one of them: world says    *)
(* which, and the others stay where they began.                              *)
(***************************************************************************)
EXTENDS Scheduler, EventLoop, GpioOutput, GpioEdges, Pwm

VARIABLE world

services == <<vars, loop, output, edges, pwm, world>>

ServicesInit ==
  /\ world \in {"scheduler", "loop", "output", "edges", "pwm"}
  /\ Init /\ (world # "scheduler" => now = 0)
  /\ LoopInit /\ (world # "loop" => ~looping /\ threshold = 1 /\ ~stable)
  /\ OutputInit /\ EdgesInit
  /\ PwmInit /\ (world # "pwm" => tick = 0 /\ period = 1 /\ duty = 0)

ServicesNext ==
  \/ world = "scheduler" /\ Next /\ UNCHANGED <<loop, output, edges, pwm, world>>
  \/ world = "loop" /\ LoopNext /\ UNCHANGED <<vars, output, edges, pwm, world>>
  \/ world = "output" /\ OutputNext /\ UNCHANGED <<vars, loop, edges, pwm, world>>
  \/ world = "edges" /\ EdgesNext /\ UNCHANGED <<vars, loop, output, pwm, world>>
  \/ world = "pwm" /\ PwmNext /\ UNCHANGED <<vars, loop, output, edges, world>>

ServicesSpec == ServicesInit /\ [][ServicesNext]_services
=============================================================================
