------------------------------ MODULE MCSdkPr ------------------------------
(* Two source commits, or two setups, and one release; people edit the code *)
(* and release; the repository starts generated from the first source       *)
(* commit, or released with the same code and no inventory, or without      *)
(* anything.                                                                *)
EXTENDS SdkInstall, TLC

CONSTANTS j1, j2, s1, s2, u, v1, v2

MCSource == <<s1, s2>>

Tree(code, meta, ownership) ==
    [code |-> code, meta |-> meta, ownership |-> ownership, spec |-> NoFile, provenance |-> NoFile]
MCStart == {Tree(s1, v1, [code |-> s1, meta |-> v1]), Tree(s1, v2, NoFile)}
MCBare == {Tree(NoFile, NoFile, NoFile)}

MCChange == {[code |-> u], [meta |-> v2]}
=============================================================================
