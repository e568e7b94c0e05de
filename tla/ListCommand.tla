----------------------------- MODULE ListCommand ----------------------------
(***************************************************************************)
(* `kick list`: run_list_snapshot of src/src/cli/list.rs, over the filters  *)
(* and orders of query.rs and the explanations of owner_visibility.rs.      *)
(*                                                                         *)
(* One snapshot becomes rows, one per owner of each open socket; a filter   *)
(* keeps some, an order arranges them, a note explains those without a PID, *)
(* and the exit code tells a script whether anything matched.               *)
(*                                                                         *)
(* A text typed to be searched for is the set of texts that contain it.     *)
(* Labels and the texts of executables and command lines are left out.      *)
(***************************************************************************)
EXTENDS Why

CONSTANTS
    Loopback,       \* the addresses that are loopback
    Collation       \* names and addresses in ascending order

\* A request to list: port 0 is no port, anyProcess no --process.
ASSUME ListAssumption ==
    /\ Loopback \subseteq Address
    /\ \A asked \in {i \in Invocations : i.scope = "list"} :
          /\ DOMAIN asked = {"scope", "port", "process", "anyProcess", "terms", "sort",
                             "hideSystem", "output"}
          /\ asked.port \in Port \cup {0}
          /\ asked.sort \in {"port", "pid", "protocol", "process", "parent", "scope"}
          /\ asked.output \in {"table", "json", "snapshot"}

VARIABLES
    listing,      \* the rows printed, in their order
    notes         \* what the notes say of the rows printed, by kind

listVars == <<listing, notes>>

NoNotes == [otherUser |-> {}, unattributed |-> {}, noHolder |-> {}, nameless |-> {}]

-----------------------------------------------------------------------------
\* Rows

Unowned == 0   \* the PID column reads "-"

\* port_entry_descriptors and port_entry_view: an owner that could not be verified
\* keeps its number and nothing else; a socket without owners keeps one row.
OpenSocket(k) == k.state \in {"Listen", "Bound"}
ListRows ==
    UNION {IF k.owners = {} THEN {[at |-> k.at, state |-> k.state, pid |-> Unowned, known |-> FALSE]}
           ELSE {[at |-> k.at, state |-> k.state, pid |-> pid, known |-> pid \in k.verified] :
                    pid \in k.owners} :
             k \in {open \in sight : OpenSocket(open)}}

Who(row) == rows.who[row.pid]
NameIn(row) == IF row.known THEN rows.named[Who(row)] ELSE "none"
ParentIn(row) == IF row.known THEN rows.parentPid[Who(row)] ELSE Unowned
ParentNameIn(row) ==
    LET parentOf == ParentIn(row)
    IN  IF parentOf \in Pid /\ rows.who[parentOf] # NoProc THEN rows.named[rows.who[parentOf]]
        ELSE "none"
RowProtected(row) == NameIn(row) \in Protected
BindScope(address) ==
    IF address \in Loopback THEN "loopback" ELSE IF address \in Wildcard THEN "public" ELSE "local"

\* is_unix_system_process
SystemRow(row) ==
    \/ row.pid = 1
    \/ ParentIn(row) = 1
    \/ NameIn(row) \in SystemName

-----------------------------------------------------------------------------
\* Filters

\* validate_filter_text: a token that names no value of its field, or an interface
\* asked for together with IPv4.
BadFilter ==
    LET terms == ToSet(invocation.terms)
    IN  \/ \E t \in terms : t.field = "bad"
        \/ /\ \E t \in terms : t.field = "scope_id"
           /\ \E t \in terms : \/ t.field = "family" /\ t.value = "ipv4"
                               \/ t.field = "address" /\ t.value \notin V6

\* contains_ascii, MetadataMatchCache::contains: the text is there and has the needle.
Found(needle, text) == text # "none" /\ text \in needle
ParentMatches(row, needle) ==
    \/ ParentIn(row) # Unowned /\ Found(needle, ToString(ParentIn(row)))
    \/ Found(needle, ParentNameIn(row))
PlainMatches(row, needle) ==
    \/ \E text \in {row.at.protocol, row.state, BindScope(row.at.address), row.at.address,
                    ToString(row.at.port), NameIn(row)} : Found(needle, text)
    \/ row.pid # Unowned /\ Found(needle, ToString(row.pid))
    \/ ParentMatches(row, needle)

TermMatches(row, t) ==
    CASE t.field = "plain" -> PlainMatches(row, t.value)
      [] t.field = "pid" -> row.pid # Unowned /\ row.pid = t.value
      [] t.field = "port" -> row.at.port = t.value
      [] t.field = "proto" -> row.at.protocol = t.value
      [] t.field = "scope" -> BindScope(row.at.address) = t.value
      [] t.field = "protected" -> RowProtected(row) = t.value
      [] t.field = "parent" -> ParentMatches(row, t.value)
      [] t.field = "address" -> row.at.address = t.value
      [] t.field = "scope_id" -> row.at.scope = t.value
      [] t.field = "family" -> (row.at.address \in V6) = (t.value = "ipv6")

\* entry_matches
EntryMatches(row) ==
    /\ invocation.port # 0 => row.at.port = invocation.port
    /\ invocation.anyProcess \/ Found(invocation.process, NameIn(row))
    /\ \A t \in ToSet(invocation.terms) : TermMatches(row, t)

Kept(row) == ~(invocation.hideSystem /\ SystemRow(row)) /\ EntryMatches(row)
ExplicitFilter ==
    invocation.port # 0 \/ ~invocation.anyProcess \/ invocation.terms # <<>>

-----------------------------------------------------------------------------
\* Orders

Rank(order, x) == Min({i \in DOMAIN order : order[i] = x} \cup {Len(order) + 1})
NoneLast(x, none) == IF x = none THEN 1 ELSE 0

PrimaryKey(row) ==
    CASE invocation.sort = "port" -> <<>>
      [] invocation.sort = "pid" -> <<NoneLast(row.pid, Unowned), row.pid>>
      [] invocation.sort = "protocol" -> <<Rank(<<"tcp", "udp">>, row.at.protocol)>>
      [] invocation.sort = "process" -> <<Rank(Collation, NameIn(row))>>
      [] invocation.sort = "parent" -> <<Rank(Collation, ParentNameIn(row)),
                                         NoneLast(ParentIn(row), Unowned), ParentIn(row)>>
      [] invocation.sort = "scope" -> <<Rank(<<"public", "local", "loopback">>,
                                             BindScope(row.at.address))>>
SortKey(row) ==
    PrimaryKey(row) \o <<row.at.port, Rank(<<"tcp", "udp">>, row.at.protocol),
                         Rank(Collation, row.at.address), row.pid>>

ComesBefore(one, other) ==
    LET a == SortKey(one)   b == SortKey(other)
    IN  \E i \in DOMAIN a : a[i] < b[i] /\ \A j \in 1..(i - 1) : a[j] = b[j]

\* query_view_indices_by; the snapshot document has every socket, as it was seen.
Visible ==
    IF invocation.output = "snapshot" THEN SetToSeq(ListRows)
    ELSE SetToSortSeq({row \in ListRows : Kept(row)}, ComesBefore)

-----------------------------------------------------------------------------
\* OwnerVisibility: why a row has no PID

Hidden(row) == row.pid = Unowned
\* The user a socket belongs to is recorded in it; the kernel's are root's.
OfOtherUser(row) ==
    \/ \E k \in KernelSocket : k.at = row.at
    \/ \E edge \in heldThen : EndpointOf[edge[1]] = row.at /\ rows.named[edge[2]] \in Foreign

Classify(row) ==
    IF attributed THEN "noHolder" ELSE IF OfOtherUser(row) THEN "otherUser" ELSE "unattributed"

TableNotes(shown) ==
    LET of(kind) == {row \in shown : Hidden(row) /\ Classify(row) = kind}
    IN  [otherUser |-> of("otherUser"), unattributed |-> of("unattributed"),
         noHolder |-> of("noHolder"),
         nameless |-> {row \in shown : ~Hidden(row) /\ NameIn(row) = "none"}]

-----------------------------------------------------------------------------
\* The command

ListCollect ==
    /\ step = "dispatch" /\ invocation.scope = "list"
    /\ \/ /\ invocation.output # "snapshot" /\ BadFilter /\ Finish("InvalidArguments")
          /\ UNCHANGED <<rows, sight, attributed, stable, heldThen, budget>>
       \/ /\ ~BadFilter
          /\ SeeSockets /\ rows' = ViewNow
          /\ step' = "list" /\ UNCHANGED exit
       \/ /\ ~BadFilter /\ Fault("collect") /\ Finish("Failure")
          /\ UNCHANGED <<rows, sight, attributed, stable, heldThen>>
    /\ Unmoved
    /\ UNCHANGED <<holds, settleVars, invocation, unreadable, answered, signals,
                   residue, results, listVars>>

\* Nothing more is written after a failed write; a reader that went away is no
\* failure of this command.
ListPrint ==
    /\ step = "list"
    /\ \/ /\ listing' = Visible
          /\ notes' = IF invocation.output = "table" THEN TableNotes(ToSet(Visible)) ELSE NoNotes
          /\ Finish(IF invocation.output # "snapshot" /\ ExplicitFilter /\ Visible = <<>>
                    THEN "NoMatch" ELSE "Success")
          /\ UNCHANGED budget
       \/ Fault("pipe") /\ Finish("Success") /\ UNCHANGED listVars
       \/ Fault("output") /\ Finish("Failure") /\ UNCHANGED listVars
    /\ Unmoved
    /\ UNCHANGED <<holds, settleVars, invocation, unreadable, rows, answered, signals, whyVars>>

ListStep == ListCollect \/ ListPrint

ListInit == listing = <<>> /\ notes = NoNotes

-----------------------------------------------------------------------------
\* Properties

\* A row without a PID is said to have no holder only if nobody, readable or not,
\* held that socket when the snapshot was taken, and the named owner of any other
\* row did hold it (owner_visibility.rs 1-8: the wording separates another user's
\* process from no holder at all).
NotesAreTrue ==
    LET held(row) == {edge[2] : edge \in {e \in heldThen :
                        e[1] \in Listening /\ EndpointOf[e[1]] = row.at}}
    IN  /\ \A row \in notes.noHolder : held(row) = {}
        /\ invocation.scope = "list" =>
             \A row \in ToSet(listing) : row.known => Who(row) \in held(row)

\* The exit code of a list by port probes its occupancy: no match means that nothing
\* had the port open when the snapshot was taken, and a listing that was printed
\* means that something had (list.rs 137-142).
ExitProbesOccupancy ==
    /\ step = "done" /\ invocation.scope = "list" /\ invocation.port # 0 /\ ~invocation.hideSystem
    /\ invocation.terms = <<>> /\ invocation.anyProcess /\ invocation.output # "snapshot"
    => LET open == \/ \E edge \in heldThen : /\ edge[1] \in Listening
                                            /\ PortOf[EndpointOf[edge[1]]] = invocation.port
                   \/ \E k \in sight : k.at.port = invocation.port /\ OpenSocket(k)
       IN  /\ exit = "NoMatch" => ~open
           /\ listing # <<>> => exit = "Success" /\ open

ListIsTrue == NotesAreTrue /\ ExitProbesOccupancy
=============================================================================
