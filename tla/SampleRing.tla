----------------------------- MODULE SampleRing ---------------------------
(***************************************************************************)
(* recording.Ring: a fixed array, the slot to write next and the number of *)
(* slots in use. Nothing but the HA loop touches it.                       *)
(***************************************************************************)
EXTENDS Naturals, Sequences

CONSTANT RingSize   \* ringSize

ASSUME RingSizeAssumption == RingSize \in Nat \ {0}

Slots == 0 .. RingSize - 1

\* A ring whose slots still hold the zero sample.
NewRing(zero) == [samples |-> [i \in Slots |-> zero], head |-> 0, size |-> 0]

\* Mutant of Add: the size is counted past the number of slots.
AddUncapped(ring, s) ==
    [samples |-> [ring.samples EXCEPT ![ring.head] = s],
     head    |-> (ring.head + 1) % RingSize,
     size    |-> IF ring.size <= RingSize THEN ring.size + 1 ELSE ring.size]

\* The sample goes where the oldest one is.
Add(ring, s) ==
    [samples |-> [ring.samples EXCEPT ![ring.head] = s],
     head    |-> (ring.head + 1) % RingSize,
     size    |-> IF ring.size < RingSize THEN ring.size + 1 ELSE ring.size]

\* Mutant of Snapshot: read from the first slot on, as if it never wrapped.
SnapshotFromFirstSlot(ring) == [i \in 1 .. ring.size |-> ring.samples[i - 1]]

\* The samples of a ring, oldest first.
Snapshot(ring) ==
    LET start == (ring.head + RingSize - ring.size) % RingSize
    IN  [i \in 1 .. ring.size |-> ring.samples[(start + i - 1) % RingSize]]
===========================================================================
