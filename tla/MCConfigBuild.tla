----------------------------- MODULE MCConfigBuild -----------------------------
EXTENDS ConfigBuild

\* to_ascii_lowercase on the names of the model.
MCLower == [n \in {"alice", "Alice", "bob", "default"} |->
              IF n = "Alice" THEN "alice" ELSE n]
=============================================================================
