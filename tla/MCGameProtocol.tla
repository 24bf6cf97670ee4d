--------------------------- MODULE MCGameProtocol ---------------------------
(* A session of the game with numbers that differ in each of their bytes. *)
EXTENDS GameProtocol

\* Two sizes, of which one is the other's with its sides swapped.
MCWindows == {[w |-> <<3, 4>>, h |-> <<1, 2>>], [w |-> <<1, 2>>, h |-> <<3, 4>>]}
MCPoints == {[x |-> <<0, 5>>, y |-> <<2, 6>>]}

\* Two keys that turn left.
MCKeys == {37, 65}

MCSessionID == <<0, 0, 1, 7>>
MCAppVersion == <<0, 3>>
MCStars == <<<<4, 0>>, <<0, 9>>, <<8, 1>>, <<6, 0>>>>

\* One ship and one player: all that matters of the numbers is that they differ.
MCShips == {[x |-> <<11, 12>>, y |-> <<13, 14>>, angle |-> <<15, 16>>,
             flags |-> <<7>>, lives |-> <<3>>]}
MCPlayers == {[ox |-> <<21, 22>>, oy |-> <<23, 24>>, score |-> <<25, 26, 27, 28>>,
               phase |-> <<0, 1>>]}
=============================================================================
