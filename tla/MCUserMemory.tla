--------------------------- MODULE MCUserMemory ---------------------------
EXTENDS UserMemory

\* Virtual pages as paths: two of an image in one table, one in another,
\* and the stack behind another entry of the root.
Text == <<1, 0, 0, 0>>
Data == <<1, 0, 0, 1>>
Far == <<1, 0, 1, 0>>
Top == <<2, 3, 3, 3>>

MCImages == {<<>>, <<Text>>, <<Text, Data>>, <<Text, Far>>}
MCStack == <<Top>>
MCExecutable == {Text}
MCReserved == {0, 1, 6}
=============================================================================
