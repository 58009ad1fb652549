----------------------------- MODULE SurfaceSwap -----------------------------
(***************************************************************************)
(* What `sks align` promises the other users of the TriWiki state lock: it *)
(* replaces the generated surfaces of a workspace in one step, the wiki by *)
(* a new generation that carries the same canonical memory, the others by  *)
(* nothing.  Between replacements records are added to the wiki, and       *)
(* surfaces that are absent come into being.                               *)
(***************************************************************************)
CONSTANTS
    Surface,   \* the generated surfaces of a workspace
    Wiki,      \* the one that holds the canonical memory
    Record,    \* canonical memory records
    Gen,       \* generations, one per align run; 0 is the state found
    None       \* a surface that is absent

Content == [gen : Gen, canon : SUBSET Record]

VARIABLE seen   \* the surfaces as a lock holder may rely on them

CanonOf(c) == IF c = None THEN {} ELSE c.canon

\* Nothing yet, or the surfaces that earlier versions of SKS left.
Init == \E s \in SUBSET Surface :
            seen = [x \in Surface |->
                        IF x \in s THEN [gen |-> 0, canon |-> {}] ELSE None]

Replace(g) ==
    seen' = [s \in Surface |->
                IF s = Wiki THEN [gen |-> g, canon |-> CanonOf(seen[Wiki])] ELSE None]

\* A record written into an absent wiki brings the wiki into being.
WithRecord(c, r) ==
    [gen |-> IF c = None THEN 0 ELSE c.gen, canon |-> CanonOf(c) \cup {r}]

Write(r) == seen' = [seen EXCEPT ![Wiki] = WithRecord(seen[Wiki], r)]

\* A compiled graph or a cache where there was none.
Create(s) ==
    seen[s] = None /\ seen' = [seen EXCEPT ![s] = [gen |-> 0, canon |-> {}]]

Next ==
    \/ \E g \in Gen : Replace(g)
    \/ \E r \in Record : Write(r)
    \/ \E s \in Surface : Create(s)

Spec == Init /\ [][Next]_seen
=============================================================================
