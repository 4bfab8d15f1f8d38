------------------------------- MODULE MCPing -------------------------------
(* Three clients behind proxies that name them in different ways, two of one
   address; two of different addresses that no header names; and one task that
   waits for a cell of the first address. *)
EXTENDS PingService

Plain(ip) == [ip |-> ip, blanks |-> FALSE]
KeysMC == {Plain("A"), Plain("B"), Global}
ClientsMC == {"a1", "a2", "b", "c", "d"}
AddressMC == [a1 |-> "A", a2 |-> "A", b |-> "B", c |-> "C", d |-> "D"]
HeadersMC ==
  [a1 |-> [forwarded |-> << [ip |-> "A", blanks |-> TRUE], Plain("B") >>, real |-> <<>>],
   a2 |-> [forwarded |-> <<>>, real |-> << Plain("A") >>],
   b |-> [forwarded |-> << Plain("B") >>, real |-> << Plain("A") >>],
   c |-> [forwarded |-> <<>>, real |-> <<>>],
   d |-> [forwarded |-> <<>>, real |-> <<>>]]
ThrottledMC == {"w"}
WantsMC == [w |-> Plain("A")]

\* 'a', 'b', 'c' and a byte outside ASCII
chA == {0, 5, 6}
chB == {1, 5, 6}
chC == {0, 1, 5, 6}
high == {0, 1, 6, 7}
EnvironmentsMC ==
  {[rps |-> <<2>>, key |-> << <<chA, chB>> >>], [rps |-> <<1>>, key |-> << <<>> >>],
   [rps |-> <<>>, key |-> << <<chC>> >>], [rps |-> <<0>>, key |-> <<>>],
   [rps |-> <<>>, key |-> << <<chA, high>> >>]}
BearersMC ==
  {<<>>} \cup {<< [scheme |-> s, token |-> t] >> :
                 s \in {"Bearer", "Basic"},
                 t \in {<<>>, <<chA>>, <<chC>>, <<chA, chB>>, <<chB, chA>>, <<chA, chC>>,
                        <<chA, high>>}}
=============================================================================
