------------------------------ MODULE MCRuleSvc ------------------------------
(* Small instances of RuleSvc for TLC.                                     *)
EXTENDS RuleSvc, TLC

CONSTANTS tcp1, udp1, ssh,   \* sockets: two on the same port, and a reserved one
          r1, r2, c1, ip1, h1, h2

\* "both" listens on tcp1 and udp1, "tcp" on one of them.
MCListens == {{tcp1}, {udp1}, {tcp1, udp1}, {ssh}}
OneListen == {{tcp1}}

\* Rules, domains and the two sockets of a port are interchangeable: nothing but the
\* reserved socket is told apart, and MCListens has both of a pair.
Sym == Permutations(Ids) \cup Permutations(Hosts) \cup Permutations({tcp1, udp1})

\* Two rules on literal addresses at one moment, or one rule on domains while their
\* addresses and the clock change; all of it at once has too many states.
OnLiterals ==
    /\ \A i \in Ids : db[i].st = "live" => db[i].target \notin Hosts
    /\ clock = 1 /\ \A h \in Hosts : zone[h] = 1
OneRule ==
    \E i \in Ids : /\ db[i].st = "live" => db[i].listen = {tcp1, udp1}
                   /\ \A j \in Ids \ {i} : db[j] = Blank
Bounded == OnLiterals \/ OneRule
=============================================================================
