------------------------------- MODULE MCGuard -------------------------------
(* TLC instance of Guard: a name that is a file to one writer and a        *)
(* directory to another, one that differs from it only in case, and an     *)
(* unrelated file.                                                         *)
EXTENDS Guard

Entry(ro, wr) == [readOnly |-> ro, writable |-> wr]

MCScanOrder == << <<"D">>, <<"d">>, <<"d", "x">>, <<"d", "x", "z">>, <<"e">>, <<"e", "y">> >>
MCPaths == Range(MCScanOrder)
MCFolded == [s \in {"D", "d", "x", "y", "z", "e"} |-> IF s = "D" THEN "d" ELSE s]
MCTextsAt == [p \in MCPaths |-> IF p[1] = "d" THEN {"a", "b"} ELSE {"a"}]
MCStarts == {[p \in MCPaths |-> IF p \in {<<"d", "x">>, <<"e", "y">>} THEN Plain("a") ELSE Absent]}
MCSettings ==
  { Entry({}, {}),
    Entry({<<"d">>}, {<<"D">>}),
    Entry({}, {<<"d">>}),
    Entry({<<"d", "x">>}, {}),
    Entry({<<"D">>, <<"d", "x", "z">>}, {<<"d", "x">>}) }
=============================================================================
