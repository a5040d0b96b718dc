------------------------- MODULE MCDocumentHistory -------------------------
(* Small instances of DocumentHistory for TLC. *)
EXTENDS DocumentHistory

a == <<"a">>
b == <<"b">>
ab == <<"a", "b">>
aSlash == <<"a", "">>

\* Paths of one and two parts, the empty one, one with a trailing slash, and
\* the names the store uses itself.
MCStrings == {a, ab, aSlash, EmptyString, TimestampKey}

\* One or two parameters; keys that are plain, empty, that contain a slash
\* and that clash with timestamps.
MCParamKeys == {{a}, {b}, {ab}, {EmptyString}, {a, <<"a_timestamp">>}, {TimestampKey}}

\* What html.EscapeString changes, and what it leaves alone.
MCEscaped == [v \in Values |-> IF v = "<" THEN "&lt;" ELSE v]

MCPlainStrings == {a, b, ab, aSlash}
MCPlainParamKeys == {{a}, {b}}
=============================================================================
