------------------------------- MODULE Service -------------------------------
(***************************************************************************)
(* The life of the API process (lifespan of backend/main.py and            *)
(* backend/database.py): it waits for the database, runs the files of      *)
(* init_db, provisions the read-only role, serves, and is stopped or       *)
(* killed; docker starts it again.  The two connection pools are globals   *)
(* that get_pool and get_ro_pool create on first use, without a lock.      *)
(***************************************************************************)
EXTENDS QueryLog, FiniteSets

CONSTANTS
    Ticker,       \* the thread of the fleet's tick, which outlives stop()
    MaxRequests, MaxFaults, MaxCommits,   \* bounds of the model
    SafePasswords \* may READONLY_DB_PASSWORD be accepted, be refused?

ASSUME ServiceAssumption ==
    /\ Ticker \in Threads /\ IsFiniteSet(Threads)
    /\ {MaxRequests, MaxFaults, MaxCommits} \subseteq Nat
    /\ SafePasswords \subseteq BOOLEAN

VARIABLES
    phase,        \* where lifespan is
    at,           \* the boot step it runs next
    db,           \* does the database accept connections?
    safe,         \* READONLY_DB_PASSWORD is the one _lit accepts
    privs,        \* what the role traffic_ro was given, kept by the database
    provisioned,  \* did some boot run every step for the role?
    global,       \* pools that _pool and _ro_pool refer to
    open,         \* how many pools of each kind are open
    pc, uses,     \* what a thread does next, and with which pool
    version,      \* of the traffic tables: commits since the model started
    requests, faults             \* counters for the bounds

procVars == <<phase, at, global, open, pc, uses>>
dbVars == <<db, safe, privs, provisioned, version>>
bounds == <<requests, faults>>

Pools == {"main", "ro"}

\* Mutant: no default privileges.
BootStepsNoDefaults ==
    <<"schema", "views", "triggers", "procedures", "india", "all_india",
      "role", "password", "connect", "usage", "tables">>

\* The files of init_db, then the statements of ensure_readonly_role.
BootSteps ==
    <<"schema", "views", "triggers", "procedures", "india", "all_india",
      "role", "password", "connect", "usage", "tables", "defaults">>

RoleSteps == {"role", "password", "connect", "usage", "tables", "defaults"}

\* What a role has to be given before it can read tables and views.
Reading == {"role", "password", "connect", "usage", "tables", "views"}

\* What traffic_ro holds after a boot step.  views.sql drops and creates
\* the views, and a new view is readable under default privileges only.
PrivsAfter(step) ==
    CASE step = "views" ->
            IF "defaults" \in privs THEN privs ELSE privs \ {"views"}
      [] step = "tables" -> privs \cup {"tables", "views"}
      [] step \in RoleSteps \ {"tables"} -> privs \cup {step}
      [] OTHER -> privs

\* Mutant: init_db connects by itself, and the first requests create _pool.
NoPoolAtBoot == {}

\* The pools that the boot has created before anything is served.
PoolsAtBoot == {"main"}

ServiceInit ==
    /\ LogInit
    /\ phase = "down" /\ at = 1
    /\ db = TRUE
    /\ safe = TRUE
    /\ privs = {} /\ provisioned = FALSE
    /\ global = {}
    /\ open = [p \in Pools |-> 0]
    /\ pc = [t \in Threads |-> "idle"]
    /\ uses = [t \in Threads |-> "main"]
    /\ version = 0 /\ requests = 0 /\ faults = 0
-----------------------------------------------------------------------------
(* Boot.                                                                   *)

\* docker: restart unless-stopped, with the environment of the day.  Every
\* life but the last ends in a fault, so the bound on lives is never what
\* keeps the process down.
Start ==
    /\ phase = "down"
    /\ life <= MaxFaults + 1
    /\ phase' = "wait"
    /\ safe' \in SafePasswords
    /\ UNCHANGED <<logVars, at, global, open, pc, uses, db, privs, provisioned,
                   version, bounds>>

\* wait_for_db returns, and init_db asks for the pool.
Connect ==
    /\ phase = "wait" /\ db
    /\ phase' = "boot"
    /\ at' = 1
    /\ global' = PoolsAtBoot
    /\ open' = [p \in Pools |-> IF p \in PoolsAtBoot THEN 1 ELSE 0]
    /\ UNCHANGED <<logVars, pc, uses, dbVars, bounds>>

\* wait_for_db has tried for a minute: the process ends.
GiveUp ==
    /\ phase = "wait" /\ ~db
    /\ phase' = "down"
    /\ UNCHANGED <<logVars, at, global, open, pc, uses, dbVars, bounds>>

\* The process and everything in its memory is gone.
Die ==
    /\ LogLost
    /\ phase' = "down" /\ at' = 1
    /\ global' = {}
    /\ open' = [p \in Pools |-> 0]
    /\ pc' = [t \in Threads |-> "idle"]
    /\ uses' = [t \in Threads |-> "main"]

BootStep ==
    /\ phase = "boot" /\ db /\ at <= Len(BootSteps)
    /\ BootSteps[at] = "password" => safe
    /\ privs' = PrivsAfter(BootSteps[at])
    /\ at' = at + 1
    /\ provisioned' = (provisioned \/ at = Len(BootSteps))
    /\ UNCHANGED <<logVars, phase, global, open, pc, uses, db, safe, version,
                   bounds>>

\* A file fails, and init_db with it: nothing of the file is applied, and
\* the process ends.
FileFails ==
    /\ phase = "boot" /\ at <= Len(BootSteps)
    /\ BootSteps[at] \notin RoleSteps
    /\ ~db \/ faults < MaxFaults
    /\ Die
    /\ faults' = IF db THEN faults + 1 ELSE faults
    /\ UNCHANGED <<dbVars, requests>>

\* Mutant: ensure_readonly_role lets the exception through.
EndOfRoleFatal == Die

\* except Exception: an ERROR entry, and the boot goes on.
EndOfRole ==
    /\ LogAlone
    /\ at' = Len(BootSteps) + 1
    /\ UNCHANGED <<phase, global, open, pc, uses>>

\* A statement for the role fails, or the password is not a safe literal.
RoleFails ==
    /\ phase = "boot" /\ at <= Len(BootSteps)
    /\ BootSteps[at] \in RoleSteps
    /\ LET sure == ~db \/ (BootSteps[at] = "password" /\ ~safe)
       IN  /\ sure \/ faults < MaxFaults
           /\ faults' = IF sure THEN faults ELSE faults + 1
    /\ EndOfRole
    /\ UNCHANGED <<dbVars, requests>>

\* The entry "lifespan: ...", the fleet's loop, and the API serves.
Serve ==
    /\ phase = "boot" /\ at > Len(BootSteps)
    /\ LogAlone
    /\ phase' = "serving"
    /\ UNCHANGED <<at, global, open, pc, uses, dbVars, bounds>>
-----------------------------------------------------------------------------
(* Requests and ticks.  Each asks for a pool, works, and logs an entry.    *)

\* A request or a tick; ticks use the main pool.
Arrive(t) ==
    /\ phase = "serving"
    /\ pc[t] = "idle"
    /\ requests < MaxRequests
    /\ requests' = requests + 1
    /\ pc' = [pc EXCEPT ![t] = "check"]
    /\ \E p \in Pools :
          /\ t = Ticker => p = "main"
          /\ uses' = [uses EXCEPT ![t] = p]
    /\ UNCHANGED <<logVars, phase, at, global, open, dbVars, faults>>

\* if _pool is None
CheckPool(t) ==
    /\ pc[t] = "check"
    /\ pc' = [pc EXCEPT ![t] = IF uses[t] \in global THEN "work" ELSE "open"]
    /\ UNCHANGED <<logVars, phase, at, global, open, uses, dbVars, bounds>>

\* _pool = ConnectionPool(...), whatever another thread did meanwhile.
OpenPool(t) ==
    /\ pc[t] = "open"
    /\ global' = global \cup {uses[t]}
    /\ open' = [open EXCEPT ![uses[t]] = @ + 1]
    /\ pc' = [pc EXCEPT ![t] = "work"]
    /\ UNCHANGED <<logVars, phase, at, uses, dbVars, bounds>>

\* The work is done: a main request may have committed new traffic, a query
\* of the SQL Lab reads as traffic_ro (READONLY_DATABASE_URL may log it in
\* whatever the password of this life is).  Then an id is drawn.
Work(t) ==
    /\ pc[t] = "work" /\ db
    /\ uses[t] = "ro" => Reading \subseteq privs
    /\ \/ version' = version
       \/ /\ uses[t] = "main" /\ version < MaxCommits
          /\ version' = version + 1
    /\ Draw(t)
    /\ pc' = [pc EXCEPT ![t] = "store"]
    /\ UNCHANGED <<phase, at, global, open, uses, db, safe, privs, provisioned,
                   bounds>>

\* The request is refused, has no entry of its own, or fails.
NoEntry(t) ==
    /\ pc[t] = "work"
    /\ pc' = [pc EXCEPT ![t] = "idle"]
    /\ uses' = [uses EXCEPT ![t] = "main"]
    /\ UNCHANGED <<logVars, phase, at, global, open, dbVars, bounds>>

StoreEntry(t) ==
    /\ pc[t] = "store"
    /\ Store(t)
    /\ pc' = [pc EXCEPT ![t] = "idle"]
    /\ uses' = [uses EXCEPT ![t] = "main"]
    /\ UNCHANGED <<phase, at, global, open, dbVars, bounds>>
-----------------------------------------------------------------------------
(* Stops, crashes and outages.                                             *)

\* SIGTERM: no new requests, and those under way finish.
Terminate ==
    /\ phase = "serving"
    /\ faults < MaxFaults
    /\ faults' = faults + 1
    /\ phase' = "draining"
    /\ UNCHANGED <<logVars, at, global, open, pc, uses, dbVars, requests>>

\* fleet.stop() cancels the loop, not the thread of a tick; close_pool
\* closes what the globals refer to.
ClosePools ==
    /\ phase = "draining"
    /\ \A t \in Threads \ {Ticker} : pc[t] = "idle"
    /\ phase' = "closed"
    /\ open' = [p \in Pools |-> IF p \in global THEN open[p] - 1 ELSE open[p]]
    /\ global' = {}
    /\ UNCHANGED <<logVars, at, pc, uses, dbVars, bounds>>

\* The interpreter joins its threads and exits.
Exit ==
    /\ phase = "closed"
    /\ \A t \in Threads : pc[t] = "idle"
    /\ Die
    /\ UNCHANGED <<dbVars, bounds>>

Kill ==
    /\ phase # "down"
    /\ faults < MaxFaults
    /\ faults' = faults + 1
    /\ Die
    /\ UNCHANGED <<dbVars, requests>>

DbFails ==
    /\ db /\ faults < MaxFaults
    /\ faults' = faults + 1
    /\ db' = FALSE
    /\ UNCHANGED <<logVars, procVars, safe, privs, provisioned, version,
                   requests>>

DbReturns ==
    /\ ~db
    /\ db' = TRUE
    /\ UNCHANGED <<logVars, procVars, safe, privs, provisioned, version,
                   bounds>>

Boot == Start \/ Connect \/ GiveUp \/ BootStep \/ FileFails \/ RoleFails
        \/ Serve

ThreadStep(t) ==
    CheckPool(t) \/ OpenPool(t) \/ Work(t) \/ NoEntry(t) \/ StoreEntry(t)

ServiceNext ==
    \/ Boot
    \/ \E t \in Threads : Arrive(t) \/ ThreadStep(t)
    \/ Terminate \/ ClosePools \/ Exit \/ Kill \/ DbFails \/ DbReturns

ServiceTypeOK ==
    /\ LogTypeOK
    /\ phase \in {"down", "wait", "boot", "serving", "draining", "closed"}
    /\ at \in 1..Len(BootSteps) + 1
    /\ db \in BOOLEAN /\ safe \in BOOLEAN /\ provisioned \in BOOLEAN
    /\ privs \subseteq RoleSteps \cup {"views"}
    /\ global \subseteq Pools
    /\ open \in [Pools -> 0..Cardinality(Threads)]
    /\ pc \in [Threads -> {"idle", "check", "open", "work", "store"}]
    /\ uses \in [Threads -> Pools]
    /\ version \in Nat /\ requests \in Nat /\ faults \in Nat
-----------------------------------------------------------------------------
(* Properties.                                                             *)

\* There is never more than one open main pool, although get_pool
\* (database.py:25-35) checks and creates it without a lock: the boot calls
\* it before there is a second thread, and only a tick can outlive
\* close_pool (main.py:29-36).
OnePool == open["main"] <= 1

\* Once a boot has provisioned the read-only role completely, the role of the
\* SQL Lab can read tables and views whenever the API serves, although every
\* boot drops the views and may skip the grants, as it does when a statement
\* fails or the password is refused (views.sql:9-12, database.py:98-116).
LabKeepsReading ==
    provisioned /\ phase = "serving" => Reading \subseteq privs

\* Whatever files, statements, outages and stops fail or interrupt, and
\* even if the password can never be set, the API ends up serving for good
\* (main.py:26-34, "failures degrade gracefully" of database.py:86).
ServesAgain == <>[](phase = "serving")
=============================================================================
