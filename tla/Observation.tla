----------------------------- MODULE Observation -----------------------------
(***************************************************************************)
(* One consistency-checked snapshot of who holds which socket:             *)
(* collect_consistent of src/src/observation.rs over the Linux collector   *)
(* (src/src/platform/linux.rs).                                            *)
(*                                                                         *)
(* A pass reads the socket tables, scans the descriptors of every listed    *)
(* process for those sockets, and reads the start marker of every owner     *)
(* found.  An attempt is two passes; if they agree the second one is        *)
(* published, and if they disagree in the last attempt it is published as   *)
(* raced.  None of the reads is atomic with another one: the world (module  *)
(* Sockets) moves between any two of them.                                 *)
(***************************************************************************)
EXTENDS Sockets

CONSTANTS
    NoName,       \* a process name that could not be read
    NoEndpoint,   \* an evidence gap that names no endpoint
    Hidden,       \* programs whose descriptors kick may not read
    Blinds,       \* sets of standing limits: "hidepid", "namespace"
    Attempts,     \* CONSISTENCY_ATTEMPTS_MAX
    MaxGaps,      \* EVIDENCE_GAPS_MAX
    ReadFaults    \* reads that may fail: "link", "identity", "pass"

NoPid == 0        \* an evidence gap that names no process

ASSUME ObservationAssumption ==
    /\ NoPid \notin Pid /\ NoName \notin Name /\ NoEndpoint \notin Endpoint
    /\ Hidden \subseteq Name /\ Blinds \subseteq SUBSET {"hidepid", "namespace"}
    /\ Attempts \in Nat \ {0} /\ MaxGaps \in Nat

VARIABLES
    blind,        \* the standing limits of this host
    phase,        \* the next read of the collector
    attempt,      \* the consistency attempt
    pass,         \* "A" or "B"
    unread,       \* sockets the table readers have not reached yet
    records,      \* sockets read in this pass
    queue,        \* PIDs still to scan or to identify
    cur,          \* the PID being scanned or identified
    links,        \* its descriptors still to resolve
    lost,         \* what was lost while scanning it
    edges,        \* owner edges of this pass: <<socket, PID>>
    gaps,         \* evidence gaps of this pass
    reads,        \* ProcessRead of each PID
    first,        \* pass A, while pass B runs
    snapshot,     \* what was published
    heldSince,    \* history: edges true at some moment of this pass
    heldThrough,  \* history: edges true ever since the attempt began
    missed        \* history: ports whose holders the attempt may have lost sight of

passVars == <<unread, records, queue, cur, links, lost, edges, gaps, reads>>
historyVars == <<heldSince, heldThrough>>
collectorVars == <<blind, phase, attempt, pass, passVars, first, snapshot, missed>>
observationVars == <<worldVars, collectorVars, historyVars>>

-----------------------------------------------------------------------------
\* Records

Losses == {"gone", "denied", "attribution"}       \* OwnerScanLoss
Reasons == {"gone", "denied", "unavailable", "raced"}  \* UnverifiedOwnerReason
Codes == Losses \cup Reasons                      \* EvidenceGapCode

\* Every gap of the Linux collector that can reach a kill concerns ownership.
Gap == [code : Codes, pid : Pid \cup {NoPid}, endpoint : Endpoint \cup {NoEndpoint}]
ScanGap(code, pid) == [code |-> code, pid |-> pid, endpoint |-> NoEndpoint]

Read == [who : Proc \cup {NoProc}, why : Reasons \cup {"none"},
         name : Name \cup {NoName}]
NoRead == [who |-> NoProc, why |-> "none", name |-> NoName]
Unverified(why) == [NoRead EXCEPT !.why = why]
Unread == [pid \in Pid |-> NoRead]

CollectedPass ==
    [records : SUBSET Socket, edges : SUBSET (Socket \X Pid), gaps : SUBSET Gap,
     reads : [Pid -> Read]]
NoPass == [records |-> {}, edges |-> {}, gaps |-> {}, reads |-> Unread]

\* What a consumer is given.  affected are the sockets the passes disagreed on.
Snapshot ==
    [records : SUBSET Socket, edges : SUBSET (Socket \X Pid), reads : [Pid -> Read],
     gaps : SUBSET Gap, omitted : BOOLEAN, raced : BOOLEAN, affected : SUBSET Socket]
NoSnapshot == [records |-> {}, edges |-> {}, reads |-> Unread, gaps |-> {},
               omitted |-> FALSE, raced |-> FALSE, affected |-> {}]

Phases == {"idle", "sockets", "list", "fds", "links", "markers", "name", "again",
           "settle", "taken", "failed"}

Owned(some) == {edge[2] : edge \in some}          \* PIDs with an owner edge
OwnersIn(some, s) == {pid \in Pid : <<s, pid>> \in some}
Earliest(pids) == CHOOSE pid \in pids : \A other \in pids : pid <= other

-----------------------------------------------------------------------------
\* A pass

\* Gaps that hold for every pass: /proc is mounted with hidepid, or kick is in
\* a nested PID namespace.
StandingGaps == IF blind = {} THEN {} ELSE {ScanGap("attribution", NoPid)}

BeginPass(which) ==
    /\ pass' = which
    /\ phase' = "sockets"
    /\ unread' = Socket
    /\ records' = {} /\ edges' = {} /\ gaps' = StandingGaps /\ reads' = Unread
    /\ queue' = {} /\ links' = {} /\ lost' = {} /\ UNCHANGED cur
    /\ heldSince' = Holding

BeginAttempt(n) ==
    /\ attempt' = n
    /\ BeginPass("A")
    /\ first' = NoPass
    /\ heldThrough' = Holding
    /\ missed' = {}

Collect ==
    /\ phase = "idle"
    /\ BeginAttempt(1)
    /\ UNCHANGED <<worldVars, blind, snapshot>>

\* The socket tables are read piece by piece.
ReadSocket ==
    /\ phase = "sockets"
    /\ \E s \in unread :
         /\ unread' = unread \ {s}
         /\ records' = IF Exists(s) THEN records \cup {s} ELSE records
         /\ phase' = IF unread' = {} THEN "list" ELSE "sockets"
    /\ UNCHANGED <<worldVars, blind, attempt, pass, queue, cur, links, lost, edges, gaps, reads,
                   first, snapshot, missed, historyVars>>

\* What /proc shows under a number: with hidepid, no process kick may not inspect.
Seen(pid) ==
    LET p == Occupant(pid)
    IN  IF p # NoProc /\ "hidepid" \in blind /\ name[p] \in Hidden THEN NoProc ELSE p

\* With no socket to attribute no process is listed.
ListPids ==
    /\ phase = "list"
    /\ queue' = IF records = {} THEN {} ELSE {pid \in Pid : Seen(pid) # NoProc}
    /\ phase' = IF queue' = {} THEN "settle" ELSE "fds"
    /\ UNCHANGED <<worldVars, blind, attempt, pass, unread, records, cur, links, lost, edges, gaps,
                   reads, first, snapshot, missed, historyVars>>

\* record_pid_losses: a loss names its process only if the scan still found an
\* owner edge of it.
LossScope(pid, found) == IF pid \in Owned(found) THEN pid ELSE NoPid

\* The scan goes on with the next process or, after the last one, the owners
\* found are identified.
ScanNext(pending_, found) ==
    IF pending_ # {} THEN phase' = "fds" /\ queue' = pending_
    ELSE IF found # {} THEN phase' = "markers" /\ queue' = Owned(found)
    ELSE phase' = "settle" /\ queue' = {}

FinishScan(pid, found, losses) ==
    /\ gaps' = gaps \cup {ScanGap(code, LossScope(pid, found)) : code \in losses}
    /\ missed' = IF losses = {} THEN missed ELSE Port
    /\ links' = {} /\ lost' = {}
    /\ ScanNext(queue \ {pid}, found)

\* Open /proc/<pid>/fd and list it.
OpenDescriptors ==
    /\ phase = "fds"
    /\ LET pid == Earliest(queue)
           who == Seen(pid)
       IN  /\ cur' = pid
           /\ \/ /\ ~Alive(who)
                 /\ FinishScan(pid, edges, {"gone"})
              \/ /\ Alive(who) /\ name[who] \in Hidden
                 /\ FinishScan(pid, edges, {"denied"})
              \/ /\ Alive(who) /\ name[who] \notin Hidden
                 /\ holds[who] \cap records = {}
                 /\ FinishScan(pid, edges, {})
              \/ /\ Alive(who) /\ name[who] \notin Hidden
                 /\ holds[who] \cap records # {}
                 /\ links' = holds[who] \cap records
                 /\ phase' = "links"
                 /\ UNCHANGED <<queue, lost, gaps, missed>>
    /\ UNCHANGED <<worldVars, blind, attempt, pass, unread, records, edges, reads, first, snapshot,
                   historyVars>>

\* Resolve one listed descriptor: again by number, and again later.
LinkTarget(s) ==
    LET who == Seen(cur)
    IN  IF ~Alive(who) THEN "gone"
        ELSE IF name[who] \in Hidden THEN "denied"
        ELSE IF s \in holds[who] THEN "edge" ELSE "gone"

ResolveLink(s, result) ==
    /\ edges' = IF result = "edge" THEN edges \cup {<<s, cur>>} ELSE edges
    /\ LET losses == IF result = "edge" THEN lost ELSE lost \cup {result}
       IN  IF links = {s} THEN FinishScan(cur, edges', losses)
           ELSE /\ links' = links \ {s} /\ lost' = losses
                /\ UNCHANGED <<phase, queue, gaps, missed>>
    /\ UNCHANGED <<blind, attempt, pass, unread, records, cur, reads, first, snapshot, historyVars>>

ReadLink ==
    /\ phase = "links"
    /\ \E s \in links : ResolveLink(s, LinkTarget(s))
    /\ UNCHANGED worldVars

\* It fails in a way that does not say the process is gone.
LinkFails ==
    /\ "link" \in ReadFaults /\ budget > 0 /\ budget' = budget - 1
    /\ phase = "links"
    /\ \E s \in links : ResolveLink(s, "attribution")
    /\ Unmoved /\ UNCHANGED holds

-----------------------------------------------------------------------------
\* Identities

PortsOwnedBy(pid) == {PortOf[EndpointOf[edge[1]]] : edge \in {e \in edges : e[2] = pid}}

Identified(pid, read) ==
    /\ reads' = [reads EXCEPT ![pid] = read]
    /\ missed' = IF read.who = NoProc THEN missed \cup PortsOwnedBy(pid) ELSE missed
    /\ queue' = queue \ {pid}
    /\ phase' = IF queue' = {} THEN "settle" ELSE "markers"

IdentityFrame == UNCHANGED <<blind, attempt, pass, unread, records, cur, links, lost, edges, gaps,
                             first, snapshot, historyVars>>

\* Pass A reads markers only (MetadataProfile::IdentityOnly).
ReadMarker ==
    /\ phase = "markers"
    /\ LET pid == Earliest(queue)
           who == Seen(pid)
       IN  IF who = NoProc THEN Identified(pid, Unverified("gone"))
           ELSE IF pass = "A" THEN Identified(pid, [NoRead EXCEPT !.who = who])
           ELSE /\ reads' = [reads EXCEPT ![pid] = [NoRead EXCEPT !.who = who]]
                /\ phase' = "name"
                /\ UNCHANGED <<queue, missed>>
    /\ UNCHANGED worldVars /\ IdentityFrame

\* Pass B reads the name between two reads of the marker.
ReadName ==
    /\ phase = "name"
    /\ LET pid == Earliest(queue)
           who == Seen(pid)
       IN  reads' = [reads EXCEPT ![pid].name = IF who = NoProc THEN NoName ELSE name[who]]
    /\ phase' = "again"
    /\ UNCHANGED <<worldVars, queue, missed>> /\ IdentityFrame

SameMarker(pid, who) == who = reads[pid].who

ReadMarkerAgain ==
    /\ phase = "again"
    /\ LET pid == Earliest(queue)
           who == Seen(pid)
       IN  Identified(pid, IF who = NoProc THEN Unverified("gone")
                           ELSE IF SameMarker(pid, who) THEN reads[pid]
                           ELSE Unverified("raced"))
    /\ UNCHANGED worldVars /\ IdentityFrame

IdentityFails ==
    /\ "identity" \in ReadFaults /\ budget > 0 /\ budget' = budget - 1
    /\ phase \in {"markers", "again"}
    /\ \E why \in {"denied", "unavailable"} :
         Identified(Earliest(queue), Unverified(why))
    /\ Unmoved /\ UNCHANGED holds /\ IdentityFrame

-----------------------------------------------------------------------------
\* Two passes

\* compare_passes: sockets, owner PIDs and identities are the same.
Disagreeing(a) ==
    {s \in Socket : \/ s \in a.records /\ s \notin records
                    \/ s \in records /\ s \notin a.records
                    \/ OwnersIn(a.edges, s) # OwnersIn(edges, s)}
IdentitiesUnchecked(a) == {}
Reidentified(a) == {pid \in Pid : a.reads[pid].who # reads[pid].who}
Stable(a) == Disagreeing(a) = {} /\ Reidentified(a) = {}
Affected(a) == Disagreeing(a) \cup
               {s \in records : OwnersIn(edges, s) \cap Reidentified(a) # {}}

\* merge_attempt_uncertainty: what pass A could not see is not forgotten.
MergedGaps(a) == a.gaps \cup gaps

\* materialize_sockets names the endpoint of every owner it cannot verify.
OwnerGaps ==
    {[code |-> reads[edge[2]].why, pid |-> edge[2], endpoint |-> EndpointOf[edge[1]]] :
        edge \in {e \in edges : reads[e[2]].who = NoProc}}

\* At most MaxGaps of them are kept; the others are only counted.
Publish(raced, found, affected) ==
    \E kept \in SUBSET found :
        /\ Cardinality(kept) = IF Cardinality(found) > MaxGaps THEN MaxGaps
                               ELSE Cardinality(found)
        /\ snapshot' = [records |-> records, edges |-> edges, reads |-> reads, gaps |-> kept,
                        omitted |-> kept # found, raced |-> raced, affected |-> affected]

Forget == /\ unread' = {} /\ records' = {} /\ edges' = {} /\ gaps' = {} /\ reads' = Unread
          /\ queue' = {} /\ links' = {} /\ lost' = {} /\ first' = NoPass /\ UNCHANGED cur

\* Pass A is kept for comparison.  After pass B the attempt is published, or
\* the next attempt begins.
EndPassA ==
    /\ phase = "settle" /\ pass = "A"
    /\ first' = [records |-> records, edges |-> edges, gaps |-> gaps, reads |-> reads]
    /\ BeginPass("B")
    /\ UNCHANGED <<worldVars, blind, attempt, snapshot, missed, heldThrough>>

LastAttempt == attempt = Attempts

EndAttempt ==
    /\ phase = "settle" /\ pass = "B"
    /\ IF Stable(first) \/ LastAttempt
       THEN /\ Publish(~Stable(first), MergedGaps(first) \cup OwnerGaps,
                       IF Stable(first) THEN {} ELSE Affected(first))
            /\ phase' = "taken"
            /\ Forget
            /\ UNCHANGED <<attempt, pass, missed, historyVars>>
       ELSE BeginAttempt(attempt + 1) /\ UNCHANGED snapshot
    /\ UNCHANGED <<worldVars, blind>>

\* A native read fails outright, or exceeds its limit: no snapshot.
CollectionFails ==
    /\ "pass" \in ReadFaults /\ budget > 0 /\ budget' = budget - 1
    /\ phase \in Phases \ {"idle", "settle", "taken", "failed"}
    /\ phase' = "failed"
    /\ Forget
    /\ Unmoved
    /\ UNCHANGED <<holds, blind, attempt, pass, snapshot, missed, historyVars>>

CollectorStep ==
    \/ Collect \/ ReadSocket \/ ListPids \/ OpenDescriptors \/ ReadLink \/ LinkFails
    \/ ReadMarker \/ ReadName \/ ReadMarkerAgain \/ IdentityFails
    \/ EndPassA \/ EndAttempt \/ CollectionFails

CollectorInit ==
    /\ blind \in Blinds
    /\ phase = "idle" /\ attempt = 1 /\ pass = "A"
    /\ unread = {} /\ records = {} /\ queue = {} /\ cur = NoPid /\ links = {} /\ lost = {}
    /\ edges = {} /\ gaps = {} /\ reads = Unread
    /\ first = NoPass /\ snapshot = NoSnapshot /\ missed = {}
    /\ heldSince = {} /\ heldThrough = {}

Collecting == phase \notin {"idle", "taken", "failed"}

\* The world moves on; what was and what stayed true until the snapshot is
\* published is remembered.
Elsewhere ==
    /\ WorldStep
    /\ IF Collecting THEN /\ heldSince' = heldSince \cup Holding'
                          /\ heldThrough' = heldThrough \cap Holding'
       ELSE UNCHANGED historyVars
    /\ UNCHANGED collectorVars

\* The collector on its own: the world is followed while it collects.
Ended == phase \in {"taken", "failed"} /\ UNCHANGED observationVars

ObservationInit == WorldInit /\ CollectorInit
ObservationNext == CollectorStep \/ (Collecting /\ Elsewhere) \/ Ended
ObservationSpec == ObservationInit /\ [][ObservationNext]_observationVars

CollectorTypeOK ==
    /\ blind \in Blinds /\ phase \in Phases
    /\ attempt \in 1..Attempts /\ pass \in {"A", "B"}
    /\ unread \subseteq Socket /\ records \subseteq Socket
    /\ queue \subseteq Pid /\ cur \in Pid \cup {NoPid}
    /\ links \subseteq Socket /\ lost \subseteq Losses
    /\ edges \subseteq Socket \X Pid
    /\ gaps \subseteq Gap
    /\ reads \in [Pid -> Read]
    /\ first \in CollectedPass
    /\ snapshot \in Snapshot
    /\ heldSince \subseteq Socket \X Proc /\ heldThrough \subseteq Socket \X Proc
    /\ missed \subseteq Port

\* Type correctness of the collector, its world and its history.
ObservationTypeOK == KernelTypeOK /\ SocketsTypeOK /\ CollectorTypeOK

\* An owner kick verified really held the socket, under the very incarnation
\* the snapshot names, at a moment of the pass that was published: the PID that
\* was scanned and the PID whose marker was read are one process, although
\* numbers are reused in between (compare_passes).
VerifiedOwnersHeld ==
    phase = "taken" /\ ~snapshot.raced =>
        \A edge \in snapshot.edges :
            LET who == snapshot.reads[edge[2]].who
            IN  who # NoProc => <<edge[1], who>> \in heldSince
=============================================================================
