---------------------------- MODULE MCGitHubAccess ----------------------------
(* Instances of GitHubAccess for TLC. *)
EXTENDS GitHubAccess, TLC

CONSTANTS s1, s2, r1, r2, r3, i1

\* One sweep over three repositories, another one over the first of them.
SharedRepo == {<<s1, r1>>, <<s1, r2>>, <<s2, r1>>}

OneInst == [r \in Repos |-> i1]

\* Two runs on two pages for the first repository, one for the others.
TwoPages == [r \in Repos |-> IF r = r1 THEN <<2, 1>> ELSE <<1>>]

Once == [k \in Kinds |-> 1]
===============================================================================
