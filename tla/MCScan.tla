------------------------------- MODULE MCScan -------------------------------
EXTENDS Scan, TLC
MCSlots == {<<0, 0, 0>>, <<0, 1, 0>>, <<0, 0, 1>>, <<1, 0, 0>>}
MCPatterns == {{0, 1}, {1}}
MCHScans == {<<k, {0, 1}>> : k \in Keys}
MCMaxVersion == [k \in Keys |-> IF k = 0 THEN 1 ELSE 0]
\* Of the table, what the client's cursor finds, whether there may be another
\* cursor, and whether that one may have the client's number.
MCView ==
    <<store, [walk EXCEPT !.cursor = IF @ \in DOMAIN cursors THEN cursors[@] ELSE @],
      NewCursor <= MaxOther, walk.cursor <= MaxOther>>
=============================================================================
