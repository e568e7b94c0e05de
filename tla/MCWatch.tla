------------------------------ MODULE MCWatch -------------------------------
EXTENDS WatchLoop

\* Two listeners.  Of the first, two sockets that look alike, one that another
\* incarnation of the same PID holds, one whose owner cannot be seen; of the second,
\* one with a known owner, and two with the same listed owner and more behind it.
MCBucketOf == [s \in 1 .. 7 |-> IF s <= 4 THEN 1 ELSE 2]
MCEndpointOf == [b \in {1, 2} |-> IF b = 1 THEN "any:80" ELSE "any:81"]
MCShownOf == [s \in 1 .. 7 |-> CASE s = 2 -> 1 [] s = 7 -> 6 [] OTHER -> s]
V(pid, start) == [pid |-> pid, start |-> start]
MCOwnersOf == [s \in 1 .. 7 |->
    CASE s \in {1, 2} -> {V(7, "early")} [] s = 3 -> {V(7, "late")} [] s = 4 -> {}
      [] s = 5 -> {V(8, "early")} [] s = 6 -> {V(8, "early"), V(7, "?")}
      [] s = 7 -> {V(8, "early"), V(7, "late")}]
MCCompleteOf == [s \in 1 .. 7 |-> s < 6]

\* The later incarnation of 7 has an executable that cannot be read; of 8, the name
\* and the parent cannot.
MCMetadataOf == [o \in {p \in Owner : Verified(p)} |->
    CASE o = V(7, "early") -> [name |-> "app", exe |-> "app", parentPid |-> 8,
                               parent |-> "db", partial |-> FALSE]
      [] o = V(7, "late") -> [name |-> "app", exe |-> "-", parentPid |-> 8,
                              parent |-> "db", partial |-> TRUE]
      [] OTHER -> [name |-> "-", exe |-> "app", parentPid |-> NoPid,
                   parent |-> "-", partial |-> TRUE]]

Shot(sockets, gaps) ==
    [sockets |-> sockets, unsafe |-> "none", ownersComplete |-> gaps = {}, gaps |-> gaps]
Failed == [sockets |-> {1}, unsafe |-> "raced", ownersComplete |-> TRUE, gaps |-> {}]
HiddenBy(pid) == [endpoint |-> NoEndpoint, pid |-> pid]
Unsure == [endpoint |-> "any:81", pid |-> 7]

\* A release, a bind, a replacement, sockets that look alike, owners that cannot all
\* be seen, and a snapshot that is not fit to be compared.
MCSnapshots ==
    {Shot(x, {}) : x \in {{}, {1, 2}, {3}, {1, 2, 3}}}
    \cup {Shot({3, 6, 7}, {Unsure}), Shot({4, 5}, {HiddenBy(7)}), Shot({4}, {HiddenBy(NoPid)}),
          Failed}

PidTerm(pid) == [kind |-> "pid", pid |-> pid]
ProtectedTerm(b) == [kind |-> "protected", expected |-> b]
ParentTerm == [kind |-> "parent", pids |-> {}, words |-> {"db"}]
PlainTerm == [kind |-> "plain", buckets |-> {2}, pids |-> {}, words |-> {"db"}, classes |-> {}]
ClassTerm == [kind |-> "plain", buckets |-> {}, pids |-> {}, words |-> {},
              classes |-> {"unprotected"}]
FirstTerm == [kind |-> "endpoint", buckets |-> {1}]
MCTerms == {PidTerm(7), PidTerm(8), ProtectedTerm(TRUE), ProtectedTerm(FALSE), ParentTerm,
            PlainTerm, ClassTerm, FirstTerm}

Choice(selected, terms, only, timed) ==
    [selectors |-> selected # {1, 2}, selected |-> selected, terms |-> terms,
     matchedOnly |-> only, timed |-> timed]
\* With no filter, with one port only, and with filters on the endpoint and on what
\* was seen of the owners.
MCChoices ==
    {Choice({1, 2}, {}, FALSE, TRUE), Choice({1}, {}, FALSE, FALSE),
     Choice({1, 2}, {FirstTerm}, TRUE, FALSE)}
    \cup {Choice({1, 2}, terms, FALSE, FALSE) : terms \in
           {{PidTerm(7), ParentTerm}, {PidTerm(8), ProtectedTerm(TRUE)},
            {ProtectedTerm(FALSE), PlainTerm}, {ClassTerm}}}
=============================================================================
