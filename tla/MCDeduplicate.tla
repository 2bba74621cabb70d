--------------------------- MODULE MCDeduplicate ---------------------------
(* Small instance of Deduplicate: a zip of two files, one of which is also a  *)
(* source object, and a zip that holds another beyond the depth cap.         *)
EXTENDS Deduplicate, TLC

CONSTANTS w1, w2, album, photo, note, photo2, box, inner, stub

MCWorkers == {w1, w2}
MCRoots == {album, photo2, box, stub}
MCItems == MCRoots \cup {photo, note, inner}
MCZips == {album, box, inner}
MCMembers == [i \in MCItems |-> CASE i = album -> {photo, note}
                                  [] i = box -> {inner}
                                  [] OTHER -> {}]
MCRootOf == [i \in MCItems |-> CASE i \in {photo, note} -> album
                                 [] i = inner -> box
                                 [] OTHER -> i]
MCDepth == [i \in MCItems |-> IF i \in MCRoots THEN 0 ELSE 1]
MCContents == {"picture", "text"}
MCContent == [i \in MCItems |-> IF i \in {photo, photo2} THEN "picture" ELSE "text"]
MCKey == photo2 :> 1 @@ photo :> 2 @@ [i \in MCItems |-> 3]

\* Without the zip that nests too deep.
MCFewRoots == {album, photo2}
MCFewItems == MCFewRoots \cup {photo, note}
MCFewZips == {album}
MCFew(f) == [i \in MCFewItems |-> f[i]]
MCFewMembers == MCFew(MCMembers)
MCFewRootOf == MCFew(MCRootOf)
MCFewDepth == MCFew(MCDepth)
MCFewContent == MCFew(MCContent)
MCFewKey == MCFew(MCKey)
=============================================================================
