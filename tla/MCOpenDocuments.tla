--------------------------- MODULE MCOpenDocuments ---------------------------
(* Instances of OpenDocuments for TLC.                                       *)
EXTENDS OpenDocuments, TLC

CONSTANTS postgres, sqlite   \* model values

MCEncodings == {"utf8", "utf16"}
MCKinds     == {postgres, sqlite}
MCSymmetry  == Permutations(MCKinds)

\* a wide character before a literal over two lines
MCContents  == {<<"w", "q", "n", "q">>}
MCInserts   == {<<>>, <<"w", "n">>}

Budget(e, o, s, r, w, l) ==
    [edits |-> e, opens |-> o, streams |-> s, ranges |-> r, words |-> w,
     reloads |-> l]

\* edits upon edits; a range; a completion; streams that cross each other, a
\* reload, another session
MCEditing == {Budget(2, 1, 0, 0, 0, 0)}
MCBudgets == MCEditing \cup {Budget(1, 1, 0, 1, 0, 0), Budget(1, 1, 0, 0, 1, 0),
                            Budget(1, 1, 3, 0, 0, 0), Budget(0, 2, 2, 0, 0, 1)}
=============================================================================
