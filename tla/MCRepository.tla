---------------------------- MODULE MCRepository ----------------------------
EXTENDS Repository

\* Every command by itself, and beside each of the commands that disturb most; at most
\* one of two commands works on the peer.
Runs(c, d, r) == [p \in Procs |-> IF p = 1 THEN [cmd |-> c, home |-> "local"]
                                  ELSE [cmd |-> d, home |-> r]]
MCScenes == {Runs(c, "none", "local") : c \in Commands}
            \cup {Runs(c, d, "local") : c \in Commands \ {"clone"}, d \in {"add", "commit", "branch", "delete", "merge"}}
            \cup {Runs(c, "commit", "peer") : c \in {"fetch", "clone", "push", "bundle", "fetch_wire", "push_wire"}}
            \cup {Runs("fetch_wire", "fetch_wire", "local")}
=============================================================================
