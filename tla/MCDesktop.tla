--------------------------------- MODULE MCDesktop ---------------------------------
(* Model values for Desktop: two checkouts and a worker, three documents, two      *)
(* projects that a connection may be of, a review, knowledge of two contents, by two *)
(* calls of the window, a session, the checkout of the first one in the second's, or *)
(* an agent with two threads.                                                      *)
EXTENDS Desktop

CONSTANTS r1, r2, w1, p1, p2, c1, c2, m1, f1, f2, d1, d2, k1, k2, s1, h1, h2

MCRoots == {r1, r2}
MCAdoptions == {{}, {r1}}
MCWorkers == {w1}

Block(id, version, from, until) == [id |-> id, version |-> version, from |-> from, until |-> until]
Notice(id, from, until, ours) == [id |-> id, from |-> from, until |-> until, ours |-> ours]
Document(seq, issued, expires, bs, ns) ==
    [seq |-> seq, issued |-> issued, expires |-> expires, blocks |-> bs, notices |-> ns]

\* The second document keeps the first one's block and drops its notice; it has a
\* notice for another version too.
MCDocuments ==
    {Document(1, 1, 2, {Block("b1", 1, 1, 2)}, {Notice("n1", 1, 2, TRUE)}),
     Document(2, 1, 3, {Block("b1", 2, 1, 3)}, {Notice("n1", 1, 2, TRUE), Notice("n3", 1, 2, FALSE)}),
     Document(3, 2, 3, {Block("b2", 1, 2, 3)}, {Notice("n2", 2, 3, TRUE)})}
MCVersions == {1}

MCScopes == {p1, p2}
MCLinked == {c1, c2}
MCPaths == {m1}
MCFlows == {f1, f2}

MCContents == {d1, d2}
MCTasks == {k1, k2}

MCDepth == [p \in MCScopes |-> IF p = CHOOSE q \in MCScopes : TRUE THEN 2 ELSE 1]
MCObserved == {{p2}}
MCRefreshes == {s1}

MCThreads == {h1, h2}

\* The variables of the other parts keep their first values, and those are determined.
View ==
    <<part,
      CASE part = "projects" -> projectVars
        [] part = "updates" -> updateVars
        [] part = "connection" -> connectionVars
        [] part = "review" -> reviewVars
        [] part = "knowledge" -> knowledgeVars
        [] part = "sessions" -> sessionVars
        [] OTHER -> <<knowledgeVars, bridgeVars>>>>
====================================================================================
