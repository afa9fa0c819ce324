-------------------------- MODULE MCScriptWorkspace --------------------------
(* Storage holds nothing, four folders in every order of parents there is, *)
(* cycles and missing ones included, or two scripts of one name with tabs, *)
(* folders and an active script that need not exist.                       *)
EXTENDS ScriptEditor

CONSTANTS s1, s2, f1, f2, f3, f4
MCScripts == {s1, s2}
MCFolders == {f1, f2, f3, f4}
MCSymmetry == Permutations(MCScripts) \cup Permutations(MCFolders)
MCContents == {0, 1}
MCTyped == {<<>>, <<"new folder">>}

Nothing == [scripts |-> <<>>, folders |-> <<>>, open |-> <<>>, active |-> NoScript]
FolderAs(f, name, parent) == [id |-> f, name |-> name, parent |-> parent]
ScriptAs(s, buffer, folder) ==
    [id |-> s, name |-> <<"new folder">>, saved |-> 0, buffer |-> buffer, folder |-> folder]
Tangled ==
    {[Nothing EXCEPT !.folders = <<FolderAs(f1, <<"new folder">>, p[1]), FolderAs(f2, <<"new folder">>, p[2]),
                                   FolderAs(f3, <<"b">>, p[3]), FolderAs(f4, <<"new folder", "2">>, p[4])>>] :
        p \in [1..4 -> MCFolders \cup {Root, "gone"}]}
Torn ==
    {[scripts |-> <<ScriptAs(s1, 1, p), ScriptAs(s2, 0, q)>>,
      folders |-> <<FolderAs(f1, <<"b">>, Root)>>, open |-> tabs, active |-> active] :
        p \in {Root, f1, "gone"}, q \in {f1, "gone"},
        tabs \in {<<>>, <<s2>>, <<s2, s1>>, <<"gone", s1, s1>>},
        active \in {NoScript, s1, "gone"}}
MCStored == {Nothing} \cup Tangled \cup Torn
=============================================================================
