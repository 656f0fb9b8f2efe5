-------------------------------- MODULE MCUx --------------------------------
(* The parts of a task are explored one at a time, and those together that *)
(* a command reads or clears together: a claim with the preflight, an      *)
(* iteration with coverage.  The manifest asks for a web UX, or else for   *)
(* anything and only preflight and claim are looked at.  Commands overlap, *)
(* are killed, and rebuild the metadata while little else has happened.    *)
EXTENDS Ux, FiniteSets
CONSTANTS p1, p2, g1, g2

Parts ==
  {part \in {"mockups", "coverage", "packets", "choice", "claim"} :
     CASE part = "mockups"  -> files # {} \/ \E p \in Proc, l \in Label : mem[p].mockups[l] # "none"
       [] part = "coverage" -> task.coverage # {}
       [] part = "packets"  -> written > 0
       [] part = "choice"   -> task.options + task.selection + task.iterations > 0
       [] part = "claim"    -> task.claim # "no"}

Web == [listed |-> TRUE, ux |-> "web", hard |-> FALSE]

Overlap ==
  /\ manifest = Web
  /\ Cardinality(Parts) <= 1
  /\ ~(synced \/ updated \/ hasty) /\ trouble = 0
  /\ \E p \in Proc : pc[p] # "idle"
  /\ \A r \in {task, mem[p1], mem[p2]} : Len(r.cases) + r.iterations + r.options <= 1
  /\ written <= 1 /\ files \subseteq {<<1, "ascii">>, <<1, "html">>}

Alone ==
  /\ pc[p2] = "idle"
  /\ \/ Cardinality(Parts) <= 1
     \/ /\ Parts \in {{"claim", "packets"}, {"choice", "coverage"}}
        /\ ~(synced \/ updated) /\ trouble = 0
        /\ Len(task.cases) <= 1
  /\ Len(task.cases) = 2 => Parts \subseteq {"choice"} /\ ~(synced \/ updated) /\ trouble = 0
  /\ manifest # Web =>
       /\ Parts \subseteq {"claim", "packets"}
       /\ Len(task.cases) = 0 /\ trouble = 0
       /\ task.status \in {"none", "pending"}

Small == IF overlapped THEN Overlap ELSE Alone
=============================================================================
