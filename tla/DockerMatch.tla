----------------------------- MODULE DockerMatch ----------------------------
(***************************************************************************)
(* What a listing of containers says about one row of the port table:       *)
(* docker_context_from_ps_output of src/src/docker.rs.                      *)
(*                                                                         *)
(* A listing is a sequence of rows.  A row the parser cannot read has        *)
(* readable = FALSE; a readable one names a container and the ports it       *)
(* publishes, host range onto container range.                              *)
(***************************************************************************)
EXTENDS Naturals, FiniteSets, SequencesExt

CONSTANTS
    RowCap,        \* DOCKER_ROWS_MAX
    MatchCap,      \* DOCKER_MATCHES_MAX
    SegmentCap     \* DOCKER_PORT_SEGMENTS_MAX

ASSUME DockerMatchAssumption == {RowCap, MatchCap, SegmentCap} \subseteq Nat

NoPort == 0
AnyAddress == "any"    \* 0.0.0.0 or ::, by the family beside it
NoAddress == "none"    \* the published port names no host address

\* should_try_docker_enrichment: the owner looks like Docker, or is hidden.
ShouldTry(entry) == entry.docker \/ (entry.hidden /\ ~entry.named)

\* PortRange::mapped_port: the place in the peer range, if it reaches that far.
Mapped(range, peer, port) ==
    IF port \notin range[1]..range[2] THEN NoPort
    ELSE IF peer[1] = peer[2] THEN peer[1]
    ELSE IF peer[1] + (port - range[1]) <= peer[2] THEN peer[1] + (port - range[1])
    ELSE NoPort

\* host_addr_matches
AddressMatches(entry, published) ==
    \/ published.addr = NoAddress
    \/ /\ published.family = entry.family
       /\ \/ published.addr = entry.addr
          \/ AnyAddress \in {published.addr, entry.addr}

\* matched_container_port
PortFor(entry, published) ==
    IF published.proto = entry.proto /\ AddressMatches(entry, published)
    THEN Mapped(published.host, published.container, entry.port) ELSE NoPort

\* parse_container_row and parse_published_ports: what can be read of a row.
Published(row) ==
    IF row.readable /\ Len(row.published) <= SegmentCap THEN row.published ELSE <<>>

\* contains_container_match
SameContainer(found, match) == \E i \in DOMAIN found.containers : found.containers[i].id = match.id
AlreadyFound(found, match) == Contains(found.containers, match)

\* docker_context_from_ps_output: one published port after the other.
Matched(entry, found, row, published) ==
    LET match == [id |-> row.id, port |-> PortFor(entry, published)]
    IN  IF found.truncated \/ match.port = NoPort \/ AlreadyFound(found, match) THEN found
        ELSE IF Len(found.containers) >= MatchCap THEN [found EXCEPT !.truncated = TRUE]
        ELSE [found EXCEPT !.containers = Append(@, match)]

ContextFrom(entry, listing) ==
    LET inRow(found, row) ==
            FoldLeft(LAMBDA acc, published : Matched(entry, acc, row, published), found,
                     Published(row))
        beyond == Len(listing) > RowCap
        found == FoldLeft(inRow, [containers |-> <<>>, truncated |-> FALSE],
                          IF beyond THEN SubSeq(listing, 1, RowCap) ELSE listing)
    IN  [found EXCEPT !.truncated = @ \/ beyond]

\* The same, said at once: the containers of readable rows that publish the port
\* of the entry.
Publishers(entry, listing) ==
    {m \in UNION {{[id |-> row.id, port |-> PortFor(entry, Published(row)[i])] :
                     i \in DOMAIN Published(row)} : row \in {listing[j] : j \in DOMAIN listing}} :
        m.port # NoPort}
=============================================================================
