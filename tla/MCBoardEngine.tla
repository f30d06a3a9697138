--------------------------- MODULE MCBoardEngine ----------------------------
(* Instances of BoardEngine.  A driver is described by how it may end a send of *)
(* each kind; the configurations choose one of these.                           *)
EXTENDS BoardEngine

\* A driver that tells a page send's fate truthfully, and whose silence and message
\* sends land or fail.
Honest == [page |-> Ends \ {"cut"}, silence |-> {"landed", "refused", "timedout"},
           message |-> {"landed", "refused", "timedout"}]

\* The same, but for writes that outlive their budget.
Prompt == [k \in Kinds |-> Honest[k] \ {"timedout"}]

\* A board whose transitions are run frame by frame.
Streaming == [k \in Kinds |-> {"landed", "refused", "cut"}]
=============================================================================
