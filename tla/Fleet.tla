------------------------------- MODULE Fleet -------------------------------
(***************************************************************************)
(* The server fleet (simulator/fleet.py): POST /api/fleet runs configure   *)
(* in a thread of the API, the background loop runs _tick in another, and  *)
(* both run _reconcile on the same list without a lock.                    *)
(*                                                                         *)
(* A step is a piece of code between two calls, where another thread may   *)
(* take over.  `self.vehicles = []' makes a new list, while a thread that  *)
(* is appending to the old one, or walks it, goes on with the old one.     *)
(***************************************************************************)
EXTENDS Integers, Sequences, SequencesExt

CONSTANTS
    Callers,      \* threads that serve POST /api/fleet
    Counts,       \* the counts that clients send
    MaxFleet,     \* 2000 in the code
    MaxConfigs,   \* bound of the model
    None          \* a field that a request leaves out

ASSUME FleetAssumption ==
    /\ Counts \subseteq Int
    /\ None \notin Counts /\ None \notin BOOLEAN
    /\ MaxFleet \in Nat /\ MaxConfigs \in Nat

VARIABLES
    enabled, target,
    lists,        \* every list self.vehicles has been; the last one is current
    born,         \* how many vehicles were ever made
    loop,         \* is the task of _loop alive?
    pc,           \* where the tick is, "sleep" between two ticks
    held,         \* index of the list it appends to or walks
    points,       \* the fixes it has collected
    cpc,          \* where each caller is in configure
    patch,        \* the body of its request
    configs       \* counter for the bound

settings == <<enabled, target>>
fleet == <<lists, born>>
tick == <<pc, held, points>>
call == <<cpc, patch, configs>>
vars == <<settings, fleet, loop, tick, call>>

\* The interval only paces the ticks and is left out.
Patch == [enabled : BOOLEAN \cup {None}, count : Counts \cup {None}]

NoPatch == [enabled |-> None, count |-> None]

Init ==
    /\ enabled = FALSE /\ target = 0
    /\ lists = << <<>> >> /\ born = 0
    /\ loop = TRUE
    /\ pc = "sleep" /\ held = 1 /\ points = <<>>
    /\ cpc = [c \in Callers |-> "idle"]
    /\ patch = [c \in Callers |-> NoPatch]
    /\ configs = 0

vehicles == Last(lists)
-----------------------------------------------------------------------------
(* What both reconcilers do to the list.                                   *)

\* self.vehicles = []
Clear ==
    /\ lists' = Append(lists, <<>>)
    /\ UNCHANGED born

\* del self.vehicles[self.target:]
Trim ==
    /\ lists' = [lists EXCEPT ![Len(lists)] =
          SubSeq(@, 1, IF target < Len(@) THEN target ELSE Len(@))]
    /\ UNCHANGED born

\* list.append(Vehicle(...)) on list number l.
SpawnIn(l) ==
    /\ lists' = [lists EXCEPT ![l] = Append(@, born + 1)]
    /\ born' = born + 1
-----------------------------------------------------------------------------
(* configure, without the status it returns.                               *)

\* Mutants: no cap; no lower bound.
Uncapped(count) == IF count < 0 THEN 0 ELSE count
Unfloored(count) == IF count < MaxFleet THEN count ELSE MaxFleet

Clamped(count) ==
    IF count < 0 THEN 0 ELSE IF count < MaxFleet THEN count ELSE MaxFleet

CallerAt(c, from, to) ==
    /\ cpc[c] = from
    /\ cpc' = [cpc EXCEPT ![c] = to]
    /\ UNCHANGED <<loop, tick>>

\* The server finishes its requests before the lifespan ends.
WriteFleet(c) ==
    /\ loop
    /\ CallerAt(c, "idle", "enabled")
    /\ configs < MaxConfigs
    /\ configs' = configs + 1
    /\ \E p \in Patch : patch' = [patch EXCEPT ![c] = p]
    /\ UNCHANGED <<settings, fleet>>

SetEnabled(c) ==
    /\ CallerAt(c, "enabled", "target")
    /\ enabled' = IF patch[c].enabled = None THEN enabled ELSE patch[c].enabled
    /\ UNCHANGED <<target, fleet, patch, configs>>

SetTarget(c) ==
    /\ CallerAt(c, "target", "check")
    /\ target' = IF patch[c].count = None THEN target
                 ELSE Clamped(patch[c].count)
    /\ patch' = [patch EXCEPT ![c] = NoPatch]    \* not looked at again
    /\ UNCHANGED <<enabled, fleet, configs>>

\* _reconcile() without segments: it clears or trims, and never spawns.
CallerChecks(c) ==
    /\ \/ ~enabled /\ CallerAt(c, "check", "clear")
       \/ enabled /\ Len(vehicles) > target /\ CallerAt(c, "check", "trim")
       \/ enabled /\ Len(vehicles) <= target /\ CallerAt(c, "check", "idle")
    /\ UNCHANGED <<settings, fleet, patch, configs>>

CallerClears(c) ==
    /\ CallerAt(c, "clear", "idle")
    /\ Clear
    /\ UNCHANGED <<settings, patch, configs>>

CallerTrims(c) ==
    /\ CallerAt(c, "trim", "idle")
    /\ Trim
    /\ UNCHANGED <<settings, patch, configs>>
-----------------------------------------------------------------------------
(* _loop and _tick.                                                        *)

TickAt(from, to) ==
    /\ pc = from
    /\ pc' = to
    /\ UNCHANGED <<settings, loop, call>>

Wake ==
    /\ loop /\ enabled /\ target > 0
    /\ TickAt("sleep", "snapshot")
    /\ UNCHANGED <<fleet, held, points>>

Snapshot ==
    /\ TickAt("snapshot", "check")
    /\ UNCHANGED <<fleet, held, points>>

\* The queries fail, or find no segment; the loop survives both.
NoSnapshot ==
    /\ TickAt("snapshot", "sleep")
    /\ UNCHANGED <<fleet, held, points>>

TickChecks ==
    /\ \/ ~enabled /\ TickAt("check", "clear")
       \/ enabled /\ Len(vehicles) > target /\ TickAt("check", "trim")
       \/ enabled /\ Len(vehicles) <= target /\ TickAt("check", "grow")
    /\ UNCHANGED <<fleet, held, points>>

TickClears ==
    /\ TickAt("clear", "walk")
    /\ Clear
    /\ UNCHANGED <<held, points>>

TickTrims ==
    /\ TickAt("trim", "grow")
    /\ Trim
    /\ UNCHANGED <<held, points>>

\* Mutant: only one vehicle per tick, and only if there is none.
GrowFirstOnly ==
    /\ \/ /\ Len(vehicles) = 0 /\ target > 0
          /\ TickAt("grow", "spawn")
          /\ held' = Len(lists)
       \/ /\ Len(vehicles) > 0 \/ target = 0
          /\ TickAt("grow", "walk")
          /\ UNCHANGED held
    /\ UNCHANGED <<fleet, points>>

\* The condition of the while loop; the list to append to is looked up
\* before the Vehicle is made.
Grow ==
    /\ \/ /\ Len(vehicles) < target
          /\ TickAt("grow", "spawn")
          /\ held' = Len(lists)
       \/ /\ Len(vehicles) >= target
          /\ TickAt("grow", "walk")
          /\ UNCHANGED held
    /\ UNCHANGED <<fleet, points>>

Spawn ==
    /\ TickAt("spawn", "grow")
    /\ SpawnIn(held)
    /\ UNCHANGED <<held, points>>

\* `if not self.vehicles: return', else the walk starts on the list there is.
Walk ==
    /\ \/ vehicles = <<>> /\ TickAt("walk", "sleep")
       \/ vehicles # <<>> /\ TickAt("walk", "drive")
    /\ held' = Len(lists)
    /\ points' = <<>>
    /\ UNCHANGED fleet

\* One vehicle takes a step.
Drive ==
    /\ Len(points) < Len(lists[held])
    /\ TickAt("drive", "drive")
    /\ points' = Append(points, lists[held][Len(points) + 1])
    /\ UNCHANGED <<fleet, held>>

\* The end of the walk; a list cut meanwhile ends it early.
Driven ==
    /\ Len(points) >= Len(lists[held])
    /\ TickAt("drive", "ingest")
    /\ UNCHANGED <<fleet, held, points>>

\* Mutants: the tick goes on as long as there are vehicles; the vehicles that
\* drove become the fleet.
PostAndDriveOn ==
    /\ TickAt("ingest", "walk")
    /\ points' = <<>> /\ held' = 1
    /\ UNCHANGED fleet
PostAndKeep ==
    /\ TickAt("ingest", "sleep")
    /\ lists' = Append(lists, points)
    /\ points' = <<>> /\ held' = 1
    /\ UNCHANGED born

\* bulk_ingest(points), whether it succeeds or raises.
Post ==
    /\ TickAt("ingest", "sleep")
    /\ points' = <<>> /\ held' = 1
    /\ UNCHANGED fleet
-----------------------------------------------------------------------------
\* The lifespan ends: the task is cancelled, a tick under way goes on in its
\* thread.
Stop ==
    /\ loop /\ \A c \in Callers : cpc[c] = "idle"
    /\ loop' = FALSE
    /\ enabled' = FALSE
    /\ UNCHANGED <<target, fleet, tick, call>>

\* The server has stopped and nothing is under way.
Rest ==
    /\ ~loop /\ pc = "sleep"
    /\ UNCHANGED vars

TickStep ==
    \/ Snapshot \/ TickChecks \/ TickClears \/ TickTrims
    \/ Grow \/ Spawn \/ Walk \/ Drive \/ Driven \/ Post

CallerStep(c) ==
    \/ SetEnabled(c) \/ SetTarget(c)
    \/ CallerChecks(c) \/ CallerClears(c) \/ CallerTrims(c)

Next ==
    \/ \E c \in Callers : WriteFleet(c) \/ CallerStep(c)
    \/ Wake \/ NoSnapshot \/ TickStep
    \/ Stop
    \/ Rest

Spec == Init /\ [][Next]_vars

\* Threads run, the event loop wakes up, and a database that is asked again
\* and again answers at some time.
Fairness ==
    /\ \A c \in Callers : WF_vars(CallerStep(c))
    /\ WF_vars(Wake) /\ WF_vars(TickStep) /\ SF_vars(Snapshot)

FairSpec == Spec /\ Fairness
-----------------------------------------------------------------------------
(* Properties.                                                             *)

TypeOK ==
    /\ enabled \in BOOLEAN /\ loop \in BOOLEAN
    /\ target \in 0..MaxFleet
    /\ born \in Nat /\ configs \in Nat
    /\ lists \in Seq(Seq(1..born)) /\ lists # <<>>
    /\ pc \in {"sleep", "snapshot", "check", "clear", "trim", "grow",
               "spawn", "walk", "drive", "ingest"}
    /\ held \in 1..Len(lists)
    /\ points \in Seq(1..born)
    /\ cpc \in [Callers -> {"idle", "enabled", "target", "check", "clear",
                          "trim"}]
    /\ patch \in [Callers -> Patch]

Alive == ToSet(vehicles)

\* The fleet never outgrows the cap of configure (fleet.py:46-47), although
\* the target changes while _tick fills the list.
FleetCapped == Len(vehicles) <= MaxFleet

\* A vehicle retired by a lower target or by disabling the fleet never comes
\* back (fleet.py:85-91).
RetiredForGood ==
    [][\A v \in 1..born : v \notin Alive => v \notin Alive']_vars

\* A fleet left enabled with a target above zero reaches it and stays there,
\* whatever changes raced before (fleet.py:4-6, 85-95).
FollowsTarget ==
    \A n \in 1..MaxFleet :
        <>[](enabled /\ target = n) => <>[](Len(vehicles) = n)

\* A fleet left disabled, or stopped, falls silent (fleet.py:34-39, 97-102).
DisabledFallsSilent == <>[](~enabled) => <>[](pc = "sleep")
=============================================================================
