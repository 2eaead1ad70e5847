------------------------------ MODULE Schedule ------------------------------
(***************************************************************************)
(* The schedule a compiled simulation runs: staticSimulationEvents follows *)
(* every change from the sources of a definition through its combinational *)
(* cells, then from the cells those changes may clock, and so on, and      *)
(* compileCircuit keeps the last update of each cell in each group.  The   *)
(* groups alternate: combinational, clocked, combinational, ...            *)
(***************************************************************************)
EXTENDS CellSemantics, Ordering, Sequences, Functions

CONSTANTS
  Circuits,      \* the definitions that are compiled
  MaxGroups      \* bound: groups of one schedule; one that needs more is not followed

VARIABLES
  def,           \* the definition
  combChanges,   \* the ports of the group under construction, in order
  freshChanges,  \* the ports whose cells have yet to pass their change on
  seqChanges,    \* the clock and reset ports reached
  visit,         \* those the loop over seqChanges has yet to come to
  updates,       \* the groups, as compileCircuit filters them
  phase          \* "spreading", "clocking", then "compiled"

scheduling == <<def, combChanges, freshChanges, seqChanges, visit, updates, phase>>

\* combinationalDependencies: no port of a register, and none of a memory, its read address
\* no more than the others.  The clocks and resets are sequentialDependencies (SeqReceivers).
CombDependencies(n, c) == {s \in CombReceivers(n, c) : s.cell \notin Registers(n) \cup Memories(n)}

\* The cells whose outputs move with those of the cells of S.
Reached(n, S) ==
  {c \in Cells(n) : \A R \in SUBSET Cells(n) :
     S \subseteq R /\ (\A d \in R : \A s \in CombDependencies(n, d) : s.cell \in R) => c \in R}

InOrder(S) == InOrderOf(S, Below)

Sources(n) == Cells(n) \ (Evaluated(n) \ Memories(n))

\* What the sources pass on, source by source.
PassedOn(n) == {p \in Sources(n) \X [cell : CellId, port : Port] : p[2] \in CombDependencies(n, p[1])}

ScheduleInit ==
  /\ def \in Circuits
  /\ LET first == InOrderOf(PassedOn(def),
                    LAMBDA p, q : p[1] < q[1] \/ (p[1] = q[1] /\ Below(p[2], q[2])))
     IN  combChanges = [i \in DOMAIN first |-> first[i][2]]
  /\ freshChanges = UNION {CombDependencies(def, c) : c \in Sources(def)}
  /\ seqChanges = UNION {SeqReceivers(def, c) : c \in Sources(def)}
  /\ visit = {}
  /\ updates = <<>>
  /\ phase = "spreading"

\* fault: a cell with nobody to pass its change on to is not taken out
SpreadKeeps ==
  /\ phase = "spreading" /\ freshChanges # {}
  /\ LET s    == First(freshChanges)
         deps == CombDependencies(def, s.cell)
     IN  /\ combChanges' = combChanges \o InOrder(deps)
         /\ freshChanges' = IF deps = {} THEN freshChanges ELSE (freshChanges \ {s}) \cup deps
         /\ seqChanges' = seqChanges \cup SeqReceivers(def, s.cell)
  /\ UNCHANGED <<def, visit, updates, phase>>

\* A cell that may have changed passes the change on.
Spread ==
  /\ phase = "spreading" /\ freshChanges # {}
  /\ LET s    == First(freshChanges)
         deps == CombDependencies(def, s.cell)
     IN  /\ combChanges' = combChanges \o InOrder(deps)
         /\ freshChanges' = (freshChanges \ {s}) \cup deps
         /\ seqChanges' = seqChanges \cup SeqReceivers(def, s.cell)
  /\ UNCHANGED <<def, visit, updates, phase>>

\* compileCircuit: the cells of a group, each at the place of its last update.
LastUpdates(ports) ==
  {i \in DOMAIN ports : \A j \in DOMAIN ports : i < j => ports[j].cell # ports[i].cell}

\* fault: the first update of a cell is kept
FirstUpdates(ports) ==
  {i \in DOMAIN ports : \A j \in DOMAIN ports : j < i => ports[j].cell # ports[i].cell}

FilteredFirst(ports) ==
  LET kept == InOrderOf(FirstUpdates(ports), <)
  IN  [i \in DOMAIN kept |-> ports[kept[i]].cell]

Filtered(ports) ==
  LET kept == InOrderOf(LastUpdates(ports), <)
  IN  [i \in DOMAIN kept |-> ports[kept[i]].cell]

\* Both groups are complete, and the loop over seqChanges begins.
Emit ==
  /\ phase = "spreading" /\ freshChanges = {}
  /\ Len(updates) < MaxGroups
  /\ updates' = updates \o <<Filtered(combChanges), Filtered(InOrder(seqChanges))>>
  /\ combChanges' = <<>>
  /\ visit' = seqChanges
  /\ phase' = "clocking"
  /\ UNCHANGED <<def, freshChanges, seqChanges>>

\* A turn of that loop.  It inserts into the set it runs through, and so comes to what
\* it inserts behind its place.
Clocking ==
  /\ phase = "clocking" /\ visit # {}
  /\ LET s     == First(visit)
         again == [cell |-> s.cell, port |-> IF s.cell \in Memories(def) THEN "RADDR" ELSE "OUT"]
         deps  == CombDependencies(def, s.cell)
         more  == SeqReceivers(def, s.cell) \ seqChanges
     IN  /\ combChanges' = Append(combChanges, again) \o InOrder(deps)
         /\ freshChanges' = freshChanges \cup {again} \cup deps
         /\ seqChanges' = seqChanges \cup more
         /\ visit' = (visit \ {s}) \cup {t \in more : Below(s, t)}
  /\ UNCHANGED <<def, updates, phase>>

\* The loop ends, and the schedule with it if nothing was clocked.
Clocked ==
  /\ phase = "clocking" /\ visit = {}
  /\ seqChanges' = {}
  /\ phase' = IF combChanges = <<>> THEN "compiled" ELSE "spreading"
  /\ UNCHANGED <<def, combChanges, freshChanges, visit, updates>>

Compile == Spread \/ Emit \/ Clocking \/ Clocked

-----------------------------------------------------------------------------
\* The schedule follows every change but one of a read address, in an order in which no gate
\* is evaluated before what it reads: the first group has every combinational cell but the
\* memories; within a group a cell comes before the gates that read it, and all of them come;
\* whatever a group may clock is in the clocked group after it, and all of that in the
\* combinational group after that: this is the only way a memory comes to be read.
ScheduleCovers ==
  phase \notin {"spreading", "clocking"} =>
    /\ Evaluated(def) \ Memories(def) \subseteq Range(updates[1])
    /\ Memories(def) = {} \/ (Len(updates) > 2 /\ Memories(def) \subseteq Range(updates[3]))
    /\ \A g \in {i \in DOMAIN updates : i % 2 = 1} :
         LET group == updates[g]
         IN  /\ \A i \in DOMAIN group : \A s \in CombDependencies(def, group[i]) :
                  \E j \in DOMAIN group : i < j /\ group[j] = s.cell
             /\ \A c \in Range(group) \cup (IF g = 1 THEN Sources(def) ELSE {}) :
                  \A s \in SeqReceivers(def, c) : s.cell \in Range(updates[g + 1])
             /\ g > 1 => Range(updates[g - 1]) \subseteq Range(group)

\* compileCircuit returns.  (Circuits with no cycle of gates, and no register that
\* helps to clock itself.)
ScheduleEnds == <>(phase \notin {"spreading", "clocking"})
=============================================================================
