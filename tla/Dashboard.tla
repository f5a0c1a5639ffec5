------------------------------ MODULE Dashboard ------------------------------
(***************************************************************************)
(* A browser with the dashboard (frontend/app.js) and the feeds it reads   *)
(* from the service: the WebSocket pushes traffic and the newest log       *)
(* entries, a timer fetches the newest entries, another fetches the        *)
(* traffic.  Replies of one timer may overlap and arrive in any order; the *)
(* frames of the socket arrive in order.  The browser draws whatever       *)
(* traffic arrives last and shows each log id once.                        *)
(***************************************************************************)
EXTENDS Service

CONSTANTS
    Limit,        \* entries per reply or frame (25)
    Slots,        \* log replies that may be under way together: a bound
    Nothing       \* no reply, no frame

ASSUME DashboardAssumption == Limit \in Nat \ {0}

VARIABLES
    page,         \* loading, live, or unreachable: boot() gave up
    logReply,     \* slot -> entries of a reply under way, or Nothing
    mapReply,     \* version in a reply to pollOnce under way, or Nothing
    ws,           \* the server's side of the socket: closed, idle, read
    read,         \* the version its handler has read
    wire,         \* the frame under way on the socket, or Nothing
    shown,        \* log entries shown, whose ids are seenLogIds
    logTotal,     \* how many entries were counted
    map           \* version of the traffic that is drawn

feeds == <<logReply, mapReply, ws, read, wire, shown, logTotal, map>>
browser == <<page, feeds>>
service == <<logVars, procVars, dbVars, bounds>>
vars == <<service, browser>>

Init ==
    /\ ServiceInit
    /\ page = "loading"
    /\ logReply = [i \in Slots |-> Nothing]
    /\ mapReply = Nothing
    /\ ws = "closed" /\ read = 0 /\ wire = Nothing
    /\ shown = {} /\ logTotal = 0
    /\ map = 0

\* GET /api/logs?limit=25, and the "logs" of a frame.
Newest == Snapshot(0, Limit)

SeenIds == {e.id : e \in shown}

\* Mutant: appendLogs shows everything it is given.
FreshAll(es) == es

\* Mutant: appendLogs remembers the largest id only.
FreshAbove(es) ==
    Selected(es, {e \in Range(es) : e.id > Max({0} \cup SeenIds)})

\* if (seenLogIds.has(e.id)) continue
Fresh(es) == Selected(es, {e \in Range(es) : e.id \notin SeenIds})

AppendLogs(es) ==
    /\ shown' = shown \cup Range(Fresh(es))
    /\ logTotal' = logTotal + Len(Fresh(es))

\* boot(): the network is there, and with it perhaps the newest entries; from
\* now on the timers fire and the socket connects.
LoadPage ==
    /\ page = "loading"
    /\ phase = "serving" /\ db
    /\ page' = "live"
    /\ AppendLogs(Newest) \/ UNCHANGED <<shown, logTotal>>
    /\ UNCHANGED <<service, logReply, mapReply, ws, read, wire, map>>

\* boot() gives up for good when one of its requests fails.
AbandonPage ==
    /\ page = "loading"
    /\ phase # "serving" \/ ~db
    /\ page' = "unreachable"
    /\ UNCHANGED <<service, feeds>>

\* "start the backend first": somebody opens the page again, or never does.
OpenAgain ==
    /\ page = "unreachable"
    /\ page' = "loading"
    /\ UNCHANGED <<service, feeds>>

\* Mutant: the timers poll only while the socket is down.
PolledWithoutSocket == {"closed"}

\* The timers poll whatever the socket does.
PolledWhile == {"closed", "idle", "read"}

FetchLogs(i) ==
    /\ page = "live" /\ phase = "serving"
    /\ ws \in PolledWhile
    /\ logReply[i] = Nothing
    /\ logReply' = [logReply EXCEPT ![i] = Newest]
    /\ UNCHANGED <<service, page, mapReply, ws, read, wire, shown, logTotal,
                   map>>

ReceiveLogs(i) ==
    /\ logReply[i] # Nothing
    /\ AppendLogs(logReply[i])
    /\ logReply' = [logReply EXCEPT ![i] = Nothing]
    /\ UNCHANGED <<service, page, mapReply, ws, read, wire, map>>

\* pollOnce: the next poll is scheduled when this one has ended.
FetchMap ==
    /\ page = "live" /\ phase = "serving" /\ db
    /\ ws \in PolledWhile
    /\ mapReply = Nothing
    /\ mapReply' = version
    /\ UNCHANGED <<service, page, logReply, ws, read, wire, shown, logTotal,
                   map>>

ReceiveMap ==
    /\ mapReply # Nothing
    /\ map' = mapReply
    /\ mapReply' = Nothing
    /\ UNCHANGED <<service, page, logReply, ws, read, wire, shown, logTotal>>

ConnectWS ==
    /\ page = "live" /\ phase = "serving" /\ ws = "closed"
    /\ ws' = "idle"
    /\ UNCHANGED <<service, page, logReply, mapReply, read, wire, shown,
                   logTotal, map>>

\* live() reads the tables, and then the log as it is when the frame is
\* put together.
ReadTables ==
    /\ ws = "idle" /\ db
    /\ read' = version
    /\ ws' = "read"
    /\ UNCHANGED <<service, page, logReply, mapReply, wire, shown, logTotal,
                   map>>

SendFrame ==
    /\ ws = "read" /\ wire = Nothing
    /\ wire' = [traffic |-> read, logs |-> Newest]
    /\ ws' = "idle"
    /\ read' = 0
    /\ UNCHANGED <<service, page, logReply, mapReply, shown, logTotal, map>>

ReceiveFrame ==
    /\ wire # Nothing
    /\ map' = wire.traffic
    /\ AppendLogs(wire.logs)
    /\ wire' = Nothing
    /\ UNCHANGED <<service, page, logReply, mapReply, ws, read>>

\* A network that gives up, or a query that fails in live(): the socket
\* closes, and what is on the wire is lost.  The browser connects again.
DropWS ==
    /\ ws # "closed"
    /\ faults < MaxFaults \/ ~db
    /\ faults' = IF db THEN faults + 1 ELSE faults
    /\ ws' = "closed" /\ read' = 0
    /\ wire' = Nothing
    /\ UNCHANGED <<logVars, procVars, dbVars, requests, page, logReply,
                   mapReply, shown, logTotal, map>>

\* A process that stops closes its sockets; a frame on its way still
\* arrives, as do replies.
ServiceStep ==
    /\ ServiceNext
    /\ IF phase' = "serving"
       THEN UNCHANGED <<ws, read>>
       ELSE ws' = "closed" /\ read' = 0
    /\ UNCHANGED <<page, logReply, mapReply, wire, shown, logTotal, map>>

Receive ==
    ReceiveMap \/ ReceiveFrame \/ \E i \in Slots : ReceiveLogs(i)

Next ==
    \/ ServiceStep
    \/ LoadPage \/ AbandonPage \/ OpenAgain
    \/ \E i \in Slots : FetchLogs(i)
    \/ FetchMap \/ ConnectWS \/ ReadTables \/ SendFrame \/ DropWS
    \/ Receive

\* The boot goes on and docker restarts what ended; threads run and
\* requests end; the database comes back for long enough to be noticed.
ServiceFairness ==
    /\ WF_service(Start) /\ WF_service(Connect) /\ WF_service(Serve)
    /\ WF_service(BootStep \/ FileFails \/ RoleFails)
    /\ \A t \in Threads : WF_service(ThreadStep(t))
    /\ WF_service(ClosePools) /\ WF_service(Exit) /\ WF_service(DbReturns)

\* Timers fire again and again, and what is sent arrives unless its socket
\* closes.
Fairness ==
    /\ ServiceFairness
    /\ WF_vars(FetchMap) /\ WF_vars(ReceiveMap) /\ WF_vars(ReceiveFrame)
    /\ \A i \in Slots : WF_vars(FetchLogs(i)) /\ WF_vars(ReceiveLogs(i))

Spec == Init /\ [][Next]_vars

FairSpec == Spec /\ Fairness

-----------------------------------------------------------------------------
(* Properties.                                                             *)

TypeOK ==
    /\ ServiceTypeOK
    /\ page \in {"loading", "live", "unreachable"}
    /\ \A i \in Slots :
          logReply[i] # Nothing => Len(logReply[i]) <= Limit
    /\ mapReply \in 0..version \cup {Nothing}
    /\ ws \in {"closed", "idle", "read"}
    /\ read \in 0..version /\ map \in 0..version
    /\ shown \subseteq Entry

\* Each entry is counted once, although the push and the polls deliver it
\* many times and in any order, and no id is shown twice even when a new
\* life of the API gives it again (app.js:211-232).
CountedOnce ==
    /\ logTotal = Cardinality(shown)
    /\ \A d, e \in shown : d.id = e.id => d = e

\* Once nothing fails and nothing is logged any more, a live page has every
\* entry of the newest ones, or an entry that had its id in an earlier life:
\* an entry that was overtaken on its way into the ring is not lost to the
\* readers (querylog.py:26-34, app.js:213-218).
LogCatchesUp ==
    <>[](page = "live" =>
            \A e \in Range(Newest) :
               \E d \in shown : d.id = e.id /\ d.life <= e.life)

\* Once the traffic no longer changes, the map of a live page shows it for
\* good: a late poll or frame with older rows is put right (main.py:76-92,
\* app.js:179-210).
MapCatchesUp == <>[](page = "live" => map = version)
=============================================================================
