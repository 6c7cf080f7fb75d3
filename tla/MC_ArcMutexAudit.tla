-------------------------- MODULE MC_ArcMutexAudit --------------------------
EXTENDS ArcMutexAudit, TLC

CONSTANTS f1, f2, f3

\* Two files for the test-tag trace; three for the report, so that two
\* files with occurrences can tie and the top_files cut can drop a third.
MCFiles == {f1, f2}
MCFileOrder == <<f1, f2>>
MCFiles3 == {f1, f2, f3}
MCFileOrder3 == <<f1, f2, f3>>

\* A production path, a test path by directory and one by file name.
MCPaths ==
    {[dir |-> "src", stem |-> "lib"], [dir |-> "tests", stem |-> "lib"]}

\* A production module whose name holds "test_" (latest_value.rs).
MCPathsLatest == {[dir |-> "src", stem |-> "latest_value"]}

\* A primitive behind the lock, and a map whose context window is
\* read-heavy and whose line builds and clones the Arc.
MCOccs ==
    {[type |-> "bool", read_heavy |-> FALSE, defensive |-> FALSE],
     [type |-> "HashMap<K, V", read_heavy |-> TRUE, defensive |-> TRUE]}

\* A threaded file without clones, and an unthreaded one with six clones
\* that uses channels.
MCFileSigs ==
    {[clone_count |-> 0, threading |-> TRUE, channel |-> FALSE],
     [clone_count |-> 6, threading |-> FALSE, channel |-> TRUE]}
=============================================================================
