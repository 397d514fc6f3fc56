------------------------- MODULE MCFailoverConfig -------------------------
(***************************************************************************)
(* The files of two nodes of a cluster of three. A second is two units.    *)
(***************************************************************************)
EXTENDS FailoverConfig

CONSTANTS a, b

MCIP == [n \in Nodes |-> IF n = a THEN 1 ELSE 2]

\* The file that leaves out what can be left out, for a node of this name.
Plain(name, peers) ==
    [poll |-> 0, confirm |-> 0, threshold |-> 0, minimum |-> 0, healthPoll |-> 0,
     grace |-> 0, override |-> FALSE, distance |-> 0, commands |-> TRUE, hooks |-> TRUE,
     name |-> name, priority |-> None, peers |-> peers]

Priorities == {None, 0, 1, 2}

\* Two peers by name, address and priority.
Two(p, i, x, q, j, y) ==
    {[name |-> p, ip |-> i, priority |-> x], [name |-> q, ip |-> j, priority |-> y]}

\* Durations below zero and below the floor, in order and out of it, and a
\* negative grace.
Timings ==
    {[Plain("a", Two("b", 2, None, "c", 3, None)) EXCEPT
          !.poll = poll, !.confirm = confirm, !.threshold = threshold,
          !.minimum = health[1], !.healthPoll = health[2], !.grace = health[3],
          !.override = distance > 0, !.distance = IF distance > 0 THEN distance - 1 ELSE 0,
          !.commands = there[1], !.hooks = there[2]] :
        poll \in {-1, 0, 1, 2, 4}, confirm \in {-2, 0, 1, 2, 4, 12}, threshold \in {-1, 0, 1},
        health \in {<<0, 0, 0>>, <<1, 1, -1>>, <<-1, 1, 0>>, <<1, -1, 2>>}, distance \in 0 .. 4,
        there \in {<<TRUE, TRUE>>, <<FALSE, TRUE>>, <<TRUE, FALSE>>}}

\* The files of a node called name: it declares the other one at ip, by the
\* other's name or by its own, and c, with any priorities.
Declared(name, other, ip) ==
    {[Plain(name, Two(p, ip, x, "c", 3, y)) EXCEPT !.priority = z] :
        p \in {name, other}, x \in Priorities, y \in Priorities, z \in Priorities}

\* Node a declares a node twice, itself, an address that is none, one node
\* only, nobody, or priorities below zero.
Misdeclared ==
    {Plain("a", Two("b", i, None, "c", 3, None)) : i \in {3, 1, 0}}
        \cup {Plain("a", {[name |-> "b", ip |-> 2, priority |-> None]}),
              Plain("a", {})}
        \cup {[Plain("a", Two("b", 2, x, "c", 3, 2)) EXCEPT !.priority = z] :
                  x \in {-1, 0}, z \in {-1, 1}}

Cluster(f, g) == [n \in Nodes |-> IF n = a THEN f ELSE g]

MCFiles ==
    {Cluster(f, g) : f \in Declared("a", "b", 2), g \in Declared("b", "a", 1)}
        \cup {Cluster(f, Plain("b", Two("a", 1, None, "c", 3, None))) :
                  f \in Timings \cup Misdeclared}
===========================================================================
