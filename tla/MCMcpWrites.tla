----------------------------- MODULE MCMcpWrites -----------------------------
(* Small instances of McpWrites: one profile and one kind of write. *)
EXTENDS McpWrites, TLC

CONSTANTS p1, k1, k2, rows, insert, w1, w2

Profile1  == {p1}
Conn1     == {k1}
Kind1     == {rows}
Insert1   == {insert}
KindOf1   == [o \in {insert} |-> rows]
Served1   == [s \in Servers |-> p1]
Write1    == {w1}
ConnOf1   == [w \in {w1} |-> k1]
OpsOf1    == [w \in {w1} |-> {insert}]
KindOfW1  == [w \in {w1} |-> rows]

\* Two payloads, each on a connection of its own: nothing but an operation id is shared.
Conn2     == {k1, k2}
Write2    == {w1, w2}
ConnOf2   == [w \in {w1, w2} |-> IF w = w1 THEN k1 ELSE k2]
KindOfW2  == [w \in {w1, w2} |-> rows]
OpsOf2    == [w \in {w1, w2} |-> {insert}]

\* No operation has a name of its own: nothing runs without asking.
KindOf0   == [o \in {} |-> rows]
OpsOf0    == [w \in {w1} |-> {}]

\* The ids are random, and a profile is served by processes that are alike.
Symmetric == Permutations(Calls) \cup Permutations(Grants) \cup Permutations(Servers)
                 \cup Permutations(Screens)

\* With two connections, they may be exchanged together with the payloads they take.
Symmetric2 == Symmetric \cup {(k1 :> k2) @@ (k2 :> k1) @@ (w1 :> w2) @@ (w2 :> w1)}
=============================================================================
