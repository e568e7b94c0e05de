---------------------------- MODULE WatchFilter -----------------------------
(***************************************************************************)
(* The three-valued filter of kick watch: src/src/cli/watch/filter.rs.      *)
(*                                                                         *)
(* A term is TRUE, FALSE or unknown of one owner of a socket; a socket       *)
(* matches when one owner satisfies every term.  Text is modelled by what a  *)
(* needle is found in: a set of PIDs, of words, of buckets.                 *)
(***************************************************************************)
EXTENDS SnapshotDiff

CONSTANTS
    Word,           \* process names and executable names
    NoWord,         \* one that could not be read
    ProtectedWord,  \* those the configuration protects
    ByExecutable,   \* the executable name protects as well (macOS)
    MetadataOf,     \* what was read of each verified owner
    Terms           \* the filter terms of a run

\* ProcessObservation.  "partial" is set whenever a field could not be read.
Metadata ==
    [name : Word \cup {NoWord}, exe : Word \cup {NoWord},
     parentPid : Pid \cup {NoPid}, parent : Word \cup {NoWord}, partial : BOOLEAN]

\* FilterTerm: "endpoint" stands for the eight kinds that read the endpoint, the
\* state or the label only.
Term ==
    [kind : {"endpoint"}, buckets : SUBSET Bucket]
    \cup [kind : {"pid"}, pid : Pid]
    \cup [kind : {"parent"}, pids : SUBSET Pid, words : SUBSET Word]
    \cup [kind : {"protected"}, expected : BOOLEAN]
    \cup [kind : {"plain"}, buckets : SUBSET Bucket, pids : SUBSET Pid,
          words : SUBSET Word, classes : SUBSET {"protected", "unprotected"}]

ASSUME FilterAssumption ==
    /\ NoWord \notin Word /\ ProtectedWord \subseteq Word /\ ByExecutable \in BOOLEAN
    /\ MetadataOf \in [{o \in Owner : Verified(o)} -> Metadata]
    /\ Terms \subseteq Term

-----------------------------------------------------------------------------
\* Truth

Truth == {"false", "unknown", "true"}
TruthOf(b) == IF b THEN "true" ELSE "false"

\* The conjunction and the disjunction of a set of truths.
AllOf(truths) ==
    IF "false" \in truths THEN "false" ELSE IF "unknown" \in truths THEN "unknown" ELSE "true"
AnyOf(truths) ==
    IF "true" \in truths THEN "true" ELSE IF "unknown" \in truths THEN "unknown" ELSE "false"

-----------------------------------------------------------------------------
\* Terms of one owner

NoOwner == [pid |-> NoPid, start |-> NoStart]    \* the row of a socket without owners

OwnerIndependent(term) == term.kind = "endpoint"

\* is_protected_by_names
IsProtected(name, exe) == name \in ProtectedWord \/ (ByExecutable /\ exe \in ProtectedWord)

\* owner_protection: decided by the name, or by an executable that is protected.
OwnerProtection(owner) ==
    IF ~Verified(owner) THEN "unknown"
    ELSE LET m == MetadataOf[owner]
         IN IF IsProtected(m.name, m.exe) THEN "true"
            ELSE IF m.name # NoWord THEN "false" ELSE "unknown"

\* metadata_truth, of the verified owners in whose metadata the needle was found: what
\* was not found may still be in what was not read.
MetadataTruth(owner, complete, found) ==
    IF owner = NoOwner THEN IF complete THEN "false" ELSE "unknown"
    ELSE IF ~Verified(owner) THEN "unknown"
    ELSE IF owner \in found THEN "true"
    ELSE IF MetadataOf[owner].partial THEN "unknown" ELSE "false"

ParentFound(term) ==
    {o \in DOMAIN MetadataOf :
        MetadataOf[o].parentPid \in term.pids \/ MetadataOf[o].parent \in term.words}

\* process_plain_match
NameFound(term) ==
    {o \in DOMAIN MetadataOf :
        MetadataOf[o].name \in term.words \/ MetadataOf[o].exe \in term.words}

PidTruth(term, owner, complete) ==
    IF owner # NoOwner THEN TruthOf(owner.pid = term.pid)
    ELSE IF complete THEN "false" ELSE "unknown"

ProtectedTruth(term, owner, complete) ==
    IF owner = NoOwner
    THEN IF complete THEN TruthOf(~term.expected) ELSE "unknown"
    ELSE IF OwnerProtection(owner) = "unknown" THEN "unknown"
    ELSE TruthOf((OwnerProtection(owner) = "true") = term.expected)

\* protection_plain_truth
ClassTruth(term, owner) ==
    IF owner = NoOwner \/ OwnerProtection(owner) = "unknown" THEN "unknown"
    ELSE LET class == IF OwnerProtection(owner) = "true" THEN "protected" ELSE "unprotected"
         IN TruthOf(class \in term.classes)

PlainTruth(term, bucket, owner, complete) ==
    IF bucket \in term.buckets \/ (owner # NoOwner /\ owner.pid \in term.pids)
    THEN "true"
    ELSE AnyOf({ClassTruth(term, owner),
                MetadataTruth(owner, complete, NameFound(term) \cup ParentFound(term))})

\* evaluate_term
TermTruth(term, bucket, owner, complete) ==
    CASE term.kind = "endpoint" -> TruthOf(bucket \in term.buckets)
      [] term.kind = "pid" -> PidTruth(term, owner, complete)
      [] term.kind = "parent" ->
            MetadataTruth(owner, complete, ParentFound(term))
      [] term.kind = "protected" -> ProtectedTruth(term, owner, complete)
      [] term.kind = "plain" -> PlainTruth(term, bucket, owner, complete)

\* evaluate_terms_for_owner
OwnerTruth(terms, bucket, owner, complete) ==
    AllOf({TermTruth(term, bucket, owner, complete) :
              term \in {t \in terms : ~OwnerIndependent(t)}})

-----------------------------------------------------------------------------
\* A socket

\* owner_pid_constraint
WantedPids(terms) == {t.pid : t \in {u \in terms : u.kind = "pid"}}

\* A mutant that ignores the gaps that name a PID.
NamelessGapRelevant(gap, terms) == Cardinality(WantedPids(terms)) <= 1 /\ gap.pid = NoPid

\* endpointless_ownership_gap_is_relevant
GapRelevant(gap, terms) ==
    /\ Cardinality(WantedPids(terms)) <= 1
    /\ gap.pid = NoPid \/ WantedPids(terms) \subseteq {gap.pid}

\* The second case needs a snapshot with omitted evidence, which DiffSafe keeps from
\* the events: the code guards against it twice.
OwnersMayBeHidden(snapshot, terms) ==
    /\ \E term \in terms : ~OwnerIndependent(term)
    /\ \/ \E gap \in snapshot.gaps : gap.endpoint = NoEndpoint /\ GapRelevant(gap, terms)
       \/ /\ snapshot.unsafe = "omitted" /\ ~snapshot.ownersComplete
          /\ Cardinality(WantedPids(terms)) <= 1

\* evaluate_side
SideTruth(snapshot, s, terms) ==
    LET bucket == BucketOf[s]
        complete == CompleteOf[s]
        endpointTruths ==
            {TermTruth(t, bucket, NoOwner, FALSE) : t \in {u \in terms : OwnerIndependent(u)}}
        rows == IF OwnersOf[s] = {} THEN {NoOwner} ELSE OwnersOf[s]
        listed == AnyOf({OwnerTruth(terms, bucket, o, complete) : o \in rows})
        hidden == OwnersMayBeHidden(snapshot, terms) \/ (OwnersOf[s] # {} /\ ~complete)
    IN IF "false" \in endpointTruths THEN "false"
       ELSE IF listed = "false" /\ hidden THEN "unknown" ELSE listed

\* WatchOptions.  "selected" is what the protocol, address, scope and port
\* selectors leave, if there are any; selectors and terms make a filter.
Options ==
    {options \in [selectors : BOOLEAN, selected : SUBSET Bucket, terms : SUBSET Terms,
                  matchedOnly : BOOLEAN, timed : BOOLEAN] :
        options.selectors \/ options.selected = Bucket}
FilterActive(options) == options.selectors \/ options.terms # {}

\* evaluate_event: a release is judged by what was released, a replacement by either side.
EventTruth(event, previous, current, terms) ==
    AnyOf({SideTruth(previous, s, terms) : s \in {event.previous} \ {NoSocket}} \cup
          {SideTruth(current, s, terms) : s \in {event.current} \ {NoSocket}})

FilterResult(event, previous, current, options) ==
    LET truth == EventTruth(event, previous, current, options.terms)
    IN IF Place(event) \notin options.selected THEN "none"
       ELSE IF ~FilterActive(options) THEN "not_applied"
       ELSE IF truth = "true" THEN "matched"
       ELSE IF truth = "unknown" /\ ~options.matchedOnly THEN "indeterminate"
       ELSE "none"

-----------------------------------------------------------------------------
\* Reference: what the filter means, over every process that could be behind an
\* owner that was read in part, or be an owner that was not seen at all.

Row ==
    [pid : Pid, name : Word, exe : Word,
     parentPid : Pid \cup {NoPid}, parent : Word \cup {NoWord}]

\* A field that was read is right; one that was not may be anything.
CouldBe(row, m) ==
    /\ m.name = row.name \/ (m.partial /\ m.name = NoWord)
    /\ m.exe = row.exe \/ (m.partial /\ m.exe = NoWord)
    /\ m.parentPid = row.parentPid \/ (m.partial /\ m.parentPid = NoPid)
    /\ m.parent = row.parent \/ (m.partial /\ m.parent = NoWord)
RowsOf(owner) ==
    {row \in Row :
        row.pid = owner.pid /\ (Verified(owner) => CouldBe(row, MetadataOf[owner]))}

UnseenRows(snapshot, s) ==
    {row \in Row :
        \/ ~CompleteOf[s]
        \/ \E gap \in snapshot.gaps : gap.endpoint = NoEndpoint /\ gap.pid \in {NoPid, row.pid}}

RowSatisfies(row, term, bucket) ==
    LET class == IF IsProtected(row.name, row.exe) THEN "protected" ELSE "unprotected"
    IN CASE term.kind = "endpoint" -> bucket \in term.buckets
         [] term.kind = "pid" -> row.pid = term.pid
         [] term.kind = "parent" -> row.parentPid \in term.pids \/ row.parent \in term.words
         [] term.kind = "protected" -> (class = "protected") = term.expected
         [] term.kind = "plain" ->
               \/ bucket \in term.buckets \/ class \in term.classes
               \/ {row.pid, row.parentPid} \cap term.pids # {}
               \/ {row.name, row.exe, row.parent} \cap term.words # {}

OwnerlessSatisfies(term, bucket) ==
    CASE term.kind \in {"endpoint", "plain"} -> bucket \in term.buckets
      [] term.kind = "protected" -> ~term.expected
      [] OTHER -> FALSE

RowMatches(row, s, terms) == \A term \in terms : RowSatisfies(row, term, BucketOf[s])
OwnerlessMatches(s, terms) == \A term \in terms : OwnerlessSatisfies(term, BucketOf[s])

\* The socket matches in one of the worlds the snapshot allows.
MayMatch(snapshot, s, terms) ==
    \/ \E owner \in OwnersOf[s] : \E row \in RowsOf(owner) : RowMatches(row, s, terms)
    \/ \E row \in UnseenRows(snapshot, s) : RowMatches(row, s, terms)
    \/ OwnersOf[s] = {} /\ OwnerlessMatches(s, terms)

\* The socket matches in all of them.
MustMatch(snapshot, s, terms) ==
    \/ \E owner \in OwnersOf[s] : \A row \in RowsOf(owner) : RowMatches(row, s, terms)
    \/ /\ OwnersOf[s] = {} /\ OwnerlessMatches(s, terms)
       /\ \A row \in UnseenRows(snapshot, s) : RowMatches(row, s, terms)
=============================================================================
