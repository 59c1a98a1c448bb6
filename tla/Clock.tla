-------------------------------- MODULE Clock --------------------------------
(***************************************************************************)
(* The clock (kernel/trap.c, kernel/sysproc.c): the timer interrupt counts *)
(* ticks and wakes all sleepers, sys_sleep waits for its ticks to pass.    *)
(* tickslock orders the two; kill takes only the process table's lock and  *)
(* so comes between any two steps.  ticks is an unsigned integer that      *)
(* wraps, and the comparison with n is unsigned too: a negative n is a     *)
(* very long sleep.                                                        *)
(***************************************************************************)
EXTENDS Integers

CONSTANTS Sleeper, Nobody,
          TickMod,      \* number of values of a uint
          Counts        \* what sys_sleep is called with

VARIABLES ticks,
          tickslock,    \* its holder, or Nobody
          at,           \* where each process is in sys_sleep
          n, ticks0,    \* its argument and local
          dead,         \* proc->killed
          passed        \* ticks since ticks0 was read (history)

clockvars == <<ticks, tickslock, at, n, ticks0, dead, passed>>

Unsigned(x) == x % TickMod

ClockInit == /\ ticks = TickMod - 1 /\ tickslock = Nobody
             /\ at = [p \in Sleeper |-> "user"] /\ n = [p \in Sleeper |-> 0]
             /\ ticks0 = [p \in Sleeper |-> 0] /\ passed = [p \in Sleeper |-> 0]
             /\ dead = [p \in Sleeper |-> FALSE]

Counting(p) == at[p] \in {"check", "gosleep", "asleep", "wake"}

\* A process is never kept from running for as long as it takes the counter
\* to come round (the bound on passed).
timer ==
    /\ tickslock = Nobody
    /\ \A p \in Sleeper : Counting(p) => passed[p] < TickMod - 1
    /\ ticks' = Unsigned(ticks + 1)
    /\ passed' = [p \in Sleeper |-> IF Counting(p) THEN passed[p] + 1 ELSE passed[p]]
    /\ at' = [p \in Sleeper |-> IF at[p] = "asleep" THEN "wake" ELSE at[p]]
    /\ UNCHANGED <<tickslock, n, ticks0, dead>>

sys_sleep(p) ==
    /\ at[p] = "user" /\ ~dead[p]
    /\ \E c \in Counts : n' = [n EXCEPT ![p] = c]
    /\ at' = [at EXCEPT ![p] = "acquire"]
    /\ UNCHANGED <<ticks, tickslock, ticks0, dead, passed>>

acquire(p) ==
    /\ at[p] = "acquire" /\ tickslock = Nobody
    /\ tickslock' = p /\ at' = [at EXCEPT ![p] = "check"]
    /\ ticks0' = [ticks0 EXCEPT ![p] = ticks] /\ passed' = [passed EXCEPT ![p] = 0]
    /\ UNCHANGED <<ticks, n, dead>>

\* Mutant: the comparison is made with absolute ticks.
Due_Absolute(p) == ticks >= Unsigned(ticks0[p] + n[p])

Due(p) == Unsigned(ticks - ticks0[p]) >= Unsigned(n[p])

check(p) ==
    /\ at[p] = "check"
    /\ IF Due(p) \/ dead[p]
       THEN /\ tickslock' = Nobody
            /\ at' = [at EXCEPT ![p] = IF Due(p) THEN "done" ELSE "failed"]
       ELSE at' = [at EXCEPT ![p] = "gosleep"] /\ UNCHANGED tickslock
    /\ UNCHANGED <<ticks, n, ticks0, dead, passed>>

\* sleep: releases tickslock once it holds ptable.lock, so that no wakeup
\* falls between; takes it again when it has been woken.
gosleep(p) == /\ at[p] = "gosleep" /\ tickslock' = Nobody
              /\ at' = [at EXCEPT ![p] = "asleep"]
              /\ UNCHANGED <<ticks, n, ticks0, dead, passed>>

wake(p) == /\ at[p] = "wake" /\ tickslock = Nobody /\ tickslock' = p
           /\ at' = [at EXCEPT ![p] = "check"]
           /\ UNCHANGED <<ticks, n, ticks0, dead, passed>>

\* The call returns; a killed process then exits and another takes its slot.
back(p) == /\ at[p] \in {"done", "failed"}
           /\ at' = [at EXCEPT ![p] = "user"] /\ dead' = [dead EXCEPT ![p] = FALSE]
           /\ n' = [n EXCEPT ![p] = 0] /\ ticks0' = [ticks0 EXCEPT ![p] = 0]
           /\ passed' = [passed EXCEPT ![p] = 0]
           /\ UNCHANGED <<ticks, tickslock>>

kill(p) == /\ ~dead[p] /\ at[p] # "user"
           /\ dead' = [dead EXCEPT ![p] = TRUE]
           /\ at' = [at EXCEPT ![p] = IF @ = "asleep" THEN "wake" ELSE @]
           /\ UNCHANGED <<ticks, tickslock, n, ticks0, passed>>

ClockNext == timer \/ \E p \in Sleeper :
    sys_sleep(p) \/ acquire(p) \/ check(p) \/ gosleep(p) \/ wake(p) \/ back(p) \/ kill(p)

ClockSpec == ClockInit /\ [][ClockNext]_clockvars

(***************************************************************************)
(* A sleep that succeeds has lasted its n ticks, one that fails was killed *)
(* before they were over, and no process stays asleep once its ticks have  *)
(* passed, also when the counter wraps on the way.                         *)
(***************************************************************************)
SleepExact == \A p \in Sleeper :
    /\ at[p] = "done" => passed[p] >= Unsigned(n[p])
    /\ at[p] = "failed" => dead[p]
    /\ at[p] \in {"asleep", "gosleep"} => passed[p] < Unsigned(n[p])

=============================================================================
