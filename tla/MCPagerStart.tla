---------------------------- MODULE MCPagerStart ----------------------------
(* TypeScript's offset form without a start, over an API of five items.     *)
EXTENDS Pager

StartInit ==
    /\ PagerInit
    /\ pager = [lang |-> "typescript", form |-> "offset"]
    /\ from = Unset /\ honest
StartSpec == StartInit /\ [][PagerNext]_pagerVars

\* Docs: TypeScript's `<operation>Pages` iterates offset/limit pages.  Without
\* an offset, which is optional, it starts with the first item; when it ends
\* below the cap it has yielded the others too.
TraversesFromTheStart ==
    heard = "end" /\ pages < PageCap => got = Rest(from)
=============================================================================
