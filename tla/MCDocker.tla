------------------------------- MODULE MCDocker -----------------------------
EXTENDS Docker

MCCall == 1..2

\* A row of a hidden owner, and one of an owner of another kind.
Row(hidden) == [docker |-> FALSE, hidden |-> hidden, named |-> FALSE, proto |-> "tcp",
                family |-> 4, addr |-> "lo", port |-> 81]
MCEntries == {Row(TRUE), Row(FALSE)}

Publish(host, container, addr, proto) ==
    [proto |-> proto, family |-> 4, addr |-> addr, host |-> host, container |-> container]
Shown(id, published) == [readable |-> TRUE, id |-> id, published |-> published]
Prints(rows) == [rows |-> rows, success |-> TRUE, utf8 |-> TRUE]

web == Publish(<<80, 82>>, <<180, 182>>, "any", "tcp")
again == Publish(<<81, 81>>, <<181, 181>>, "lo", "tcp")
second == Publish(<<81, 81>>, <<99, 99>>, "none", "tcp")
short == Publish(<<80, 81>>, <<10, 10>>, "lo", "tcp")
past == Publish(<<70, 90>>, <<5, 7>>, "lo", "tcp")
other == Publish(<<81, 81>>, <<53, 53>>, "any", "udp")
Garbled == [readable |-> FALSE, id |-> "?", published |-> <<web>>]

MCListings ==
    LET full == <<Shown("a", <<web, again, other>>), Garbled, Shown("b", <<past, second>>)>>
        both == <<Shown("a", <<web, second>>), Shown("b", <<short>>)>>
        over == <<Shown("a", <<web>>), Shown("a", <<past>>), Shown("b", <<past>>), Shown("c", <<web>>)>>
    IN  {Prints(full), Prints(both), Prints(over),
         [Prints(full) EXCEPT !.success = FALSE], [Prints(full) EXCEPT !.utf8 = FALSE]}
=============================================================================
