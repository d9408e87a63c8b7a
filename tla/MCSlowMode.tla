----------------------------- MODULE MCSlowMode -----------------------------
(* Instances of SlowMode: stepping without and with a fee ratio, in a pull  *)
(* and in a push, with an odd step, and slow mode without stepping.         *)
EXTENDS SlowMode

Run(step, cap, ratio, push, idle) ==
  [stepPPM |-> step, capPPM |-> cap, feeRatio |-> ratio, push |-> push,
   maxIdleRounds |-> idle]

MCSettings ==
  {Run(2, 4, FALSE, FALSE, 2), Run(2, 4, TRUE, TRUE, 2),
   Run(1, 3, TRUE, FALSE, 1), Run(0, 0, FALSE, TRUE, 2)}
=============================================================================
