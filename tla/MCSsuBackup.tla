----------------------------- MODULE MCSsuBackup -----------------------------
EXTENDS SsuBackup

CONSTANTS s1, s2

MCFiles   == {<<"d", "a">>, <<"d", "e", "b">>}
MCDeepFile == {<<"d", "e", "b">>}
MCTwoNames == {<<"a">>, <<"ab">>}
MCNew     == {<<"n">>}
MCNone    == {}

MCSameName(S) == {<<Last(f), Last(f)>>: f \in S}
MCNames     == MCSameName(MCFiles)
MCDeepNames == MCSameName(MCDeepFile)
MCPrefixes == MCSameName(MCTwoNames) \cup {<<"a", "ab">>}

MCContents == {<<"u">>, <<"v", "w">>}
MCOneContent == {<<"v", "w">>}

MCDigest(alg, c) == c

View == <<home, backup, bdirs, userVars, pc, cmd, tree, todo, list, open>>

MCAllOps   == [s \in Shells |-> {"add", "remove", "clear", "recover"}]
MCCrowdOps == [s \in Shells |-> IF s = s1 THEN {"add", "recover"} ELSE {"remove"}]
MCAddClear == [s \in Shells |-> {"add", "clear"}]
=============================================================================
