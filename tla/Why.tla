--------------------------------- MODULE Why --------------------------------
(***************************************************************************)
(* `kick why`: run_why of src/src/cli/why.rs, over probe.rs and             *)
(* diagnostic/verdict.rs.                                                  *)
(*                                                                         *)
(* One snapshot of the sockets is followed by one exact bind per endpoint,  *)
(* each later than the one before, and the world moves between them.  A     *)
(* verdict explains the bind by what the snapshot showed.                   *)
(***************************************************************************)
EXTENDS KillCommand, SequencesExt

CONSTANTS
    Address,        \* addresses: an endpoint is a record with one
    V6,             \* those of them that are IPv6
    Wildcard,       \* those of them that are unspecified
    KernelSocket,   \* sockets no process holds: [at : Endpoint, state]
    WhyEndpointsMax,  \* WHY_ENDPOINTS_MAX
    WhyEvidenceMax    \* WHY_EVIDENCE_MAX

Protocols == {"tcp", "udp"}
Scopes == {"none", "unscoped", "unavailable", "eth0"}
States == {"Listen", "Bound", "TimeWait"}

WhyInvocation == [scope : {"why"}, port : Port, protocols : Seq(Protocols), addresses : Seq(Address),
                  interface : Scopes \cup {"none"}, mode : {"SystemDefault", "V6Only", "DualStack"},
                  reuse : BOOLEAN]

ASSUME WhyAssumption ==
    /\ {asked \in Invocations : asked.scope = "why"} \subseteq WhyInvocation
    /\ Endpoint \subseteq [protocol : Protocols, address : Address, port : Port, scope : Scopes]
    /\ V6 \cup Wildcard \subseteq Address
    /\ KernelSocket \subseteq [at : Endpoint, state : States] /\ IsFiniteSet(KernelSocket)
    /\ WhyEndpointsMax \in Nat \ {0} /\ WhyEvidenceMax \in Nat \ {0}

VARIABLES
    residue,      \* the sockets no process holds that there are now
    sight,        \* the snapshot: sockets, their owners, who is verified
    attributed,   \* owner_completeness of the snapshot is complete
    stable,       \* socket_set_diff_safe
    results,      \* CompletedResult of each endpoint probed
    heldThen      \* history: who held what when the snapshot was taken

whyVars == <<residue, sight, attributed, stable, results, heldThen>>

WhyTypeOK ==
    /\ residue \subseteq KernelSocket
    /\ sight \subseteq [at : Endpoint, state : States, owners : SUBSET Pid, verified : SUBSET Pid]
    /\ heldThen \subseteq Socket \X Proc

-----------------------------------------------------------------------------
\* WhyOptions::parse: protocol by protocol, address by address.

Matrix ==
    LET width == Len(invocation.addresses)
    IN  [k \in 1..(Len(invocation.protocols) * width) |->
            LET address == invocation.addresses[((k - 1) % width) + 1]
            IN  [protocol |-> invocation.protocols[((k - 1) \div width) + 1],
                 address |-> address, port |-> invocation.port,
                 scope |-> IF address \notin V6 THEN "none"
                           ELSE IF invocation.interface = "none" THEN "unscoped" ELSE invocation.interface]]

BadQuery ==
    \/ invocation.interface # "none" /\ (Len(invocation.addresses) # 1 \/ invocation.addresses[1] \notin V6)
    \/ invocation.mode # "SystemDefault" /\ ~(ToSet(invocation.addresses) \subseteq V6)
    \/ Len(invocation.protocols) * Len(invocation.addresses) \notin 1..WhyEndpointsMax

-----------------------------------------------------------------------------
\* relationship: how an observed endpoint bears on the one asked about.

AddressRelation(o, t) ==
    IF o.address = t.address THEN "Exact"
    ELSE IF o.address \in Wildcard THEN "ObservedWildcardCoversTarget"
    ELSE IF t.address \in Wildcard THEN "TargetWildcardCoversObserved"
    ELSE "Unrelated"

\* authoritative_scopes_equal
SameScope(o, t) == o.scope = t.scope /\ o.scope # "unavailable"

Relationship(o, t) ==
    LET sixO == o.address \in V6   sixT == t.address \in V6
        dual == /\ invocation.mode # "V6Only"
                /\ (IF sixO THEN o.address ELSE t.address) \in Wildcard
    IN  IF o.protocol # t.protocol \/ o.port # t.port THEN "Unrelated"
        ELSE IF sixO # sixT THEN IF dual THEN "PotentialDualStackOverlap" ELSE "Unrelated"
        ELSE IF sixT /\ AddressRelation(o, t) # "Unrelated" /\ ~SameScope(o, t)
        THEN "PotentialScopeOverlap"
        ELSE AddressRelation(o, t)

Potential == {"PotentialDualStackOverlap", "PotentialScopeOverlap"}
Authoritative(o, t) == Relationship(o, t) \notin Potential \cup {"Unrelated"}

-----------------------------------------------------------------------------
\* The snapshot of the sockets, as collector::collect_snapshot gives it: the
\* owners a reader cannot see are missing, those of a doubtful socket unverified.

OwnersSeen(s) == {PidOf[edge[2]] : edge \in {e \in Readable : e[1] = s}}
Seen(doubtful) ==
    {[at |-> EndpointOf[s], state |-> IF EndpointOf[s].protocol = "udp" THEN "Bound" ELSE "Listen",
      owners |-> OwnersSeen(s), verified |-> IF s \in doubtful THEN {} ELSE OwnersSeen(s)] :
        s \in {t \in Listening : Exists(t)}}
    \cup {[at |-> k.at, state |-> k.state, owners |-> {}, verified |-> {}] : k \in residue}

SeeSockets ==
    /\ \/ sight' = Seen({}) /\ stable' = TRUE /\ UNCHANGED budget
       \/ sight' = Seen({}) /\ stable' = FALSE /\ Fault("race")
       \/ \E s \in Listening : sight' = Seen({s}) /\ stable' = TRUE /\ Fault("owner")
    /\ attributed' = ~(unreadable /\ \E p \in Proc : Alive(p) /\ name[p] \in Foreign)
    /\ heldThen' = Holding

\* run_why up to the snapshot.
WhyCollect ==
    /\ step = "dispatch" /\ invocation.scope = "why"
    /\ \/ /\ BadQuery /\ Finish("InvalidArguments")
          /\ UNCHANGED <<sight, attributed, stable, heldThen, budget>>
       \/ /\ ~BadQuery
          /\ SeeSockets
          /\ step' = "probe" /\ UNCHANGED exit
       \/ /\ ~BadQuery /\ Fault("collect") /\ Finish("Failure")
          /\ UNCHANGED <<sight, attributed, stable, heldThen>>
    /\ Unmoved
    /\ UNCHANGED <<holds, settleVars, invocation, unreadable, rows, answered, signals,
                   residue, results>>

-----------------------------------------------------------------------------
\* probe: one exact bind, closed again at once.

\* Whether the bind fails is settled by the sockets it certainly or possibly
\* clashes with at this moment; waiting ones step aside for address reuse.
InTheWay == {EndpointOf[s] : s \in {t \in Socket : Exists(t)}}
            \cup {k.at : k \in {r \in residue : ~(invocation.reuse /\ r.state = "TimeWait")}}
Clashes(e) == \E o \in InTheWay : Authoritative(o, e)
MayClash(e) == \E o \in InTheWay : Relationship(o, e) \in Potential

OtherOutcomes == {"PermissionDenied", "AddressUnavailable", "Unsupported", "Other"}
BindOutcomes(e) ==
    IF Clashes(e) THEN {"AddressInUse"}
    ELSE IF MayClash(e) THEN {"AddressInUse", "BindableNow"} ELSE {"BindableNow"}

\* analyze
Matching(e) == {k \in sight : Authoritative(k.at, e)}
ActiveSocket(k) == <<k.at.protocol, k.state>> \in {<<"tcp", "Listen">>, <<"udp", "Bound">>}
OtherTcpState(k) == k.at.protocol = "tcp" /\ k.state # "Listen"

OwnerPossiblyHidden(k) == k.owners # k.verified \/ (k.owners = {} /\ ~attributed)

InUseVerdict(e) ==
    LET active == {k \in Matching(e) : ActiveSocket(k)}
    IN  IF ~stable THEN "ReservationOrPolicyUnknown"
        ELSE IF \E k \in active : k.verified # {} THEN "Owned"
        ELSE IF \E k \in active : OwnerPossiblyHidden(k) THEN "OwnerHidden"
        ELSE IF active # {} \/ \E k \in Matching(e) : OtherTcpState(k)
        THEN "KernelStateObserved"
        ELSE "ReservationOrPolicyUnknown"

SelectVerdict(e, outcome) ==
    IF outcome = "AddressInUse" THEN InUseVerdict(e)
    ELSE IF outcome # "Other" THEN outcome
    ELSE IF stable THEN "Indeterminate" ELSE "ObservationRaced"

\* The evidence, in the order it is appended; what comes after the bound is
\* counted and left out.
Repeat(code, n) == [i \in 1..n |-> code]
SawSocket(e) == Matching(e) # {}
AllEvidence(e, outcome) ==
    LET active == {k \in Matching(e) : ActiveSocket(k)}
        waiting == {k \in Matching(e) : OtherTcpState(k)}
        doubtful == {k \in active : k.verified = {} /\ OwnerPossiblyHidden(k)}
        near(how) == {k \in sight : Relationship(k.at, e) = how}
    IN  Repeat("VisibleVerifiedOwner",
               Cardinality(UNION {{<<k, pid>> : pid \in k.verified} : k \in active}))
        \o Repeat("VisibleUnreadableOwner", Cardinality(doubtful))
        \o Repeat("NonListeningKernelState", Cardinality(waiting))
        \o <<outcome>> \o Repeat(outcome, IF outcome = "PermissionDenied" THEN 1 ELSE 0)
        \o Repeat("LinuxTimerEstimate",
                  Cardinality({k \in Matching(e) : k.state = "TimeWait"}))
        \o Repeat("PotentialScopeOverlap", Cardinality(near("PotentialScopeOverlap")))
        \o Repeat("ScopeLimitation", Cardinality(near("PotentialDualStackOverlap")))
        \o Repeat("ObservationProbeConflict",
                  IF outcome = "BindableNow" /\ SawSocket(e) THEN 1 ELSE 0)
        \o <<"ScopeLimitation">>

Analyze(e, outcome) ==
    LET all == AllEvidence(e, outcome)
        kept == IF Len(all) < WhyEvidenceMax THEN Len(all) ELSE WhyEvidenceMax
    IN  [endpoint |-> e, outcome |-> outcome, verdict |-> SelectVerdict(e, outcome),
         evidence |-> SubSeq(all, 1, kept), omitted |-> Len(all) - kept]

\* aggregate_exit
WhyExitOf(verdict) ==
    CASE verdict = "BindableNow" -> "Success"
      [] verdict \in {"ObservationRaced", "Indeterminate"} -> "Failure"
      [] verdict = "PermissionDenied" -> "PermissionDenied"
      [] OTHER -> "NoMatch"
WorstFirst == <<"Failure", "PermissionDenied", "NoMatch", "Success">>
WhyExit(done) ==
    LET reasons == {WhyExitOf(done[i].verdict) : i \in DOMAIN done}
    IN  WorstFirst[Min({i \in DOMAIN WorstFirst : WorstFirst[i] \in reasons})]

Probe ==
    /\ step = "probe"
    /\ \/ /\ LET e == Matrix[Len(results) + 1]
             IN  \/ /\ \E outcome \in BindOutcomes(e) : results' = Append(results, Analyze(e, outcome))
                    /\ UNCHANGED budget
                 \/ /\ Fault("probe")
                    /\ \E outcome \in OtherOutcomes : results' = Append(results, Analyze(e, outcome))
          /\ step' = IF Len(results') = Len(Matrix) THEN "verdicts" ELSE "probe"
          /\ UNCHANGED exit
       \/ /\ Fault("clock") /\ Finish("Failure")  \* the probe cannot be dated
          /\ UNCHANGED results
    /\ Unmoved
    /\ UNCHANGED <<holds, settleVars, invocation, unreadable, rows, answered, signals,
                   residue, sight, attributed, stable, heldThen>>

\* The document is written; a reader gone away (a broken pipe) leaves the exit code.
WhyReport ==
    /\ step = "verdicts"
    /\ \/ UNCHANGED budget /\ Finish(WhyExit(results))
       \/ Fault("pipe") /\ Finish(WhyExit(results))
       \/ Fault("output") /\ Finish("Failure")
    /\ Unmoved
    /\ UNCHANGED <<holds, settleVars, invocation, unreadable, rows, answered, signals, whyVars>>

WhyStep == WhyCollect \/ Probe \/ WhyReport

\* A waiting socket's time is up.
Expire ==
    /\ Disturb("expire")
    /\ \E k \in residue : k.state = "TimeWait" /\ residue' = residue \ {k}
    /\ Unmoved
    /\ UNCHANGED holds

WhyInit ==
    /\ IF invocation.scope \notin Kills THEN residue \in SUBSET KernelSocket ELSE residue = {}
    /\ sight = {} /\ attributed = TRUE /\ stable = TRUE
    /\ results = <<>> /\ heldThen = {}

-----------------------------------------------------------------------------
\* Properties

\* What a verdict explains a failed bind with was so when the snapshot was taken:
\* "owned" if and only if a process that held an authoritative match is named,
\* "kernel_state_observed" (proven) only if no process at all, readable or not,
\* held one (docs/structured-output.md 817-825, verdict.rs 313-329).
VerdictsAreTrue ==
    \A i \in DOMAIN results :
        LET r == results[i]
            holders == {edge[2] : edge \in {h \in heldThen :
                            h[1] \in Listening /\ Authoritative(EndpointOf[h[1]], r.endpoint)}}
        IN  /\ r.verdict = "Owned" =>
                 holders # {} /\ "VisibleVerifiedOwner" \in ToSet(r.evidence)
            /\ r.verdict = "KernelStateObserved" => holders = {}

\* A successful command never hides what its own snapshot contradicts: success
\* means that every endpoint of the matrix was bound at its probe, and where the
\* snapshot had seen a matching socket the report says so, or says that it left
\* evidence out (docs/structured-output.md 846, 858).
SuccessIsQualified ==
    exit = "Success" /\ invocation.scope = "why" =>
        /\ Len(results) = Len(Matrix)
        /\ \A i \in DOMAIN results :
             LET r == results[i]
             IN  /\ r.outcome = "BindableNow" /\ r.endpoint = Matrix[i]
                 /\ (\E k \in sight : Authoritative(k.at, r.endpoint)) =>
                       "ObservationProbeConflict" \in ToSet(r.evidence) \/ r.omitted > 0

\* What `kick why` says of each endpoint, and what its exit code says of them all,
\* agrees with what it saw.
VerdictsHold == VerdictsAreTrue /\ SuccessIsQualified
=============================================================================
