------------------------------- MODULE MCSccd -------------------------------
(***************************************************************************)
(* Small instances of Sccd.                                                *)
(***************************************************************************)
EXTENDS Sccd

CONSTANTS c1, c2, c3

One == {c1}
Two == {c1, c2}
Nobody == {}
Second == {c2}

\* scc -p a -f on, scc -p advrestart -l blueflash -r 5
\* ("a" is a power command that scc offers and the daemon rejects)
Asked == {[power |-> 97, fan |-> 98],
          [power |-> AdvRestart, led |-> BlueFlash, rate |-> 5]}
Settings == {[power |-> 97, fan |-> 98], [fan |-> 98, hot |-> 60]}
AskedBlue == {[led |-> Blue], [rate |-> 5]}
AskedFlash == {[led |-> BlueFlash]}
AskedCold == {[cold |-> 0]}

RateOnly == {[rate |-> 0]}
Power == {[rate |-> 0], [power |-> Stop]}

AllFaults == {"late", "lose", "kill", "fork", "term"}
LineFaults == {"late", "lose", "fork"}
Early == {"early"}
Kill == {"kill"}
NoFault == {}
=============================================================================
