----------------------------- MODULE MCUserStore -----------------------------
(* Two requests and resetpass, two names and paths.  One password will do: *)
(* every hash has its own salt.                                            *)
EXTENDS UserStore, TLC

CONSTANTS request1, request2, name1, name2, password1, path1, path2, value1

MCRequest  == {request1, request2}
MCUsername == {name1, name2}
MCPassword == {password1}
MCPath     == {path1, path2}
MCValue    == {value1}

Interchangeable ==
    Permutations(MCRequest) \cup Permutations(MCUsername) \cup Permutations(MCPath)
=============================================================================
