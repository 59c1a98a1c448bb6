----------------------------- MODULE MCDevices -----------------------------
(* Instances of Console, Keyboard and Clock for TLC: one of the three      *)
(* devices works, the other two stay in their initial states.              *)
EXTENDS Console, TLC

CONSTANTS TickMod, Counts

VARIABLES unit,
          shift, wire, held, caps, char,
          ticks, tickslock, at, n, ticks0, dead, passed

K == INSTANCE Keyboard
T == INSTANCE Clock WITH Sleeper <- Proc, Nobody <- NoProc

kbd_vars == <<shift, wire, held, caps, char>>
clock_vars == <<ticks, tickslock, at, n, ticks0, dead, passed>>

DevicesInit == /\ unit \in {"console", "keyboard", "clock"}
               /\ Init /\ K!KbdInit /\ T!ClockInit

DevicesNext ==
  /\ UNCHANGED unit
  /\ \/ unit = "console" /\ Next /\ UNCHANGED <<kbd_vars, clock_vars>>
     \/ unit = "keyboard" /\ K!KbdNext /\ UNCHANGED <<vars, clock_vars>>
     \/ unit = "clock" /\ T!ClockNext /\ UNCHANGED <<vars, kbd_vars>>

DevicesSpec == DevicesInit /\ [][DevicesNext]_<<unit, vars, kbd_vars, clock_vars>>

\* sys_sleep is called with nothing to wait for, with a few ticks, and with a
\* negative number.
MCCounts == {0, 1, 2, -1}

\* kbdgetc: modifiers and characters are what the keys say (see Keyboard).
KeysRight == K!KeysRight

\* sys_sleep: sleeps last their ticks, also across the overflow of the
\* counter, and no wakeup is lost (see Clock).
SleepExact == T!SleepExact

DevicesSymmetry == Permutations(Proc)
=============================================================================
