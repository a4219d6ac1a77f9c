----------------------------- MODULE MCPipeline -----------------------------
(* Pipeline on small instances: one mailbox in several spellings, a text   *)
(* that is no e-mail, passwords around both limits, names around theirs.   *)
EXTENDS Pipeline, TLC

CONSTANTS me, junk, short, good, long, huge

MCWord == {Empty, me, junk, short, good, long, huge}

(* long has 40 characters of 2 bytes each. *)
MCRunes ==
  [w \in MCWord |-> CASE w = Empty -> 0 [] w \in {me, junk} -> 12 [] w = short -> 7
                      [] w = good -> 8 [] w = long -> 40 [] w = huge -> 256]
MCBytes == [w \in MCWord |-> IF w = long THEN 80 ELSE MCRunes[w]]

MCMailbox == {me}

Shout(t) == [t EXCEPT !.upper = TRUE]
Pad(t) == [t EXCEPT !.padded = TRUE]

MCEmail == {Plain(me), Shout(Plain(me)), Pad(Plain(me)), Plain(junk), Pad(Plain(Empty))}
MCPassword == {Pad(Plain(short)), Plain(good), Plain(long), Plain(short)}
MCNames == {Plain(Empty), Plain(huge)}

Symmetry == Permutations(Proc)
=============================================================================
