---------------------------- MODULE MC_Scheduler ----------------------------
(* Small instances of Scheduler: a schedule people do something with, a      *)
(* one-shot or a recurring one, alone, or a one-shot beside a recurring one  *)
(* that is due in the same ticks, and enough time to be on time and too late.*)
EXTENDS Scheduler, TLC

CONSTANTS x1, x2, f1, f2

OnceOrEvery == {[kind |-> "once", at |-> 1], [kind |-> "every", step |-> 1]}

\* MaxLoad leaves two acts of people for a schedule that is alone, and one for
\* the first beside the second, which nobody touches and only makes ticks longer.
SmallInit == /\ Init
             /\ schedule[x1].exists
             /\ schedule[x2].exists => schedule[x1].plan.kind = "once" /\ schedule[x2].plan.kind = "every"
SmallSpec == SmallInit /\ [][Next]_vars /\ Fairness
=============================================================================
