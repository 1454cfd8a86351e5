------------------------ MODULE MCServiceEnumeration ------------------------
EXTENDS ServiceEnumeration

\* Lists of up to three services of one to five units of the buffer.
MCLists ==
  {<<>>, <<1>>, <<4>>, <<5>>} \cup {<<m, m + n>> : m, n \in 1..4}
    \cup {<<m, m + n, m + n + o>> : m, n, o \in {1, 2, 4}}

\* From one unit to four.
MCSizes == <<1, 2, 4>>
=============================================================================
