--------------------------- MODULE MCAnnotationHub ---------------------------
(* Small instances of AnnotationHub for TLC. *)
EXTENDS AnnotationHub

\* At most so many edits and deletions, and one of each of the other kinds.
Mix(edits, deletes, faults) ==
    [k \in Kinds |-> CASE k = "edits" -> edits [] k = "deletes" -> deletes
                       [] OTHER -> IF k \in faults THEN 1 ELSE 0]

Mixed == {Mix(1, 0, {"lost"}), Mix(1, 0, {"restart"}), Mix(1, 0, {"refused", "moves"}),
          Mix(0, 1, {"lost"}), Mix(0, 1, {"restart"}), Mix(0, 1, {"refused"}),
          Mix(0, 1, {"closes"}), Mix(0, 1, {"stuck", "sweeps"}), Mix(0, 0, {"lost", "closes"})}

==============================================================================
