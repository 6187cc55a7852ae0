------------------------------- MODULE Pager -------------------------------
(***************************************************************************)
(* The page iterators that the language plugins generate for an operation  *)
(* with a pagination contract (src/crates/plugins/*/src, functions render_ *)
(* ... pager, paginator, pagination_iterator).  One consumer asks one      *)
(* iterator for page after page; each page is one call of the operation,   *)
(* which may fail.  A contract has one of the forms "page" and "pages" (a  *)
(* page number, and the API tells how many there are), "offset", "cursor"  *)
(* and "url".  Cursors and URLs are numbers that name a page.  Answers of  *)
(* another shape than declared are not modelled.                           *)
(***************************************************************************)
EXTENDS Integers, Sequences, SequencesExt

CONSTANTS
    Unset,    \* no start, limit or continuation
    PageCap,  \* 10000 in the code
    MaxPage,  \* the last integer of the language, if its integers have one
    PageSize, \* what the API returns where no limit is given
    MaxTotal, \* bound on the items of the API
    MaxCalls  \* bound on the calls of a traversal

ASSUME PagerAssumption ==
    /\ PageCap \in Nat \ {0} /\ MaxPage \in Nat \ {0} /\ PageSize \in Nat \ {0}
    /\ MaxTotal \in Nat /\ MaxCalls \in Nat
    /\ Unset \notin Nat

VARIABLES
    pager,  \* its language and form
    from,   \* the start the consumer gave
    limit,  \* the limit the consumer gave
    honest, \* the API pages through its items; otherwise it answers anything
    total,  \* items of an honest API
    cursor, \* what the next call asks for
    asked,  \* what each call asked for
    pages,  \* pages yielded
    got,    \* items yielded by an honest API
    mode,   \* what the next request meets: "more", "error" and "done" reports
            \* an error and the end, "over" nothing new
    heard   \* what the consumer heard last

contract == <<pager, from, limit, honest, total>>
pagerVars == <<contract, cursor, asked, pages, got, mode, heard>>

Form(S) == pager.form \in S
Language(S) == pager.lang \in S
Counted == Form({"page", "pages", "offset"})

Offered ==
    [lang : {"typescript", "go", "python", "rust", "java", "csharp", "php", "swift", "elixir"},
     form : {"cursor", "page", "offset", "url"}]
      \cup [lang : {"typescript", "rust", "java"}, form : {"pages"}]
      \cup {[lang |-> "ruby", form |-> "page"]}

-----------------------------------------------------------------------------
(* The API.                                                                 *)

Size == IF limit = Unset THEN PageSize ELSE limit
Default == IF Form({"offset"}) THEN 0 ELSE 1
Position(c) == IF c = Unset THEN Default ELSE c

\* Items before what c asks for, and the items of its page.
Before(c) ==
    CASE Form({"offset"}) -> Position(c)
      [] Form({"page", "pages"}) -> (Position(c) - 1) * Size
      [] OTHER -> Position(c) - 1
Length == IF Counted THEN Size ELSE 1
Span(a, b) == [i \in 1..(b - a) |-> a + i]
Rest(c) == Span(Before(c), total)
Items(c) == Span(Before(c), Min({Before(c) + Length, total}))

\* A page has a number of items and a continuation; that of "pages" is how
\* many pages there are.
Honest ==
    [count |-> Len(Items(cursor)),
     next |-> CASE Form({"pages"}) -> (total + Size - 1) \div Size
                [] Form({"cursor", "url"}) /\ Position(cursor) < total -> Position(cursor) + 1
                [] OTHER -> Unset]
Replies ==
    IF honest THEN {Honest}
    ELSE [count : IF Form({"page", "offset"}) THEN 0..Size ELSE {1},
          next : CASE Form({"page", "offset"}) -> {Unset}
                   [] Form({"pages"}) -> {1, MaxCalls}
                   [] OTHER -> {1, 2, Unset}]

-----------------------------------------------------------------------------
(* What iterators have in common.                                           *)

Following(a) ==
    CASE Form({"page", "pages"}) -> cursor + 1
      [] Form({"offset"}) -> cursor + a.count
      [] OTHER -> a.next

\* Faulty variant: a page as long as the limit is taken for the last one.
FinalIfFull(a) ==
    CASE Form({"page", "offset"}) -> a.count = 0 \/ (limit # Unset /\ a.count <= limit)
      [] Form({"pages"}) -> Following(a) > a.next
      [] OTHER -> a.next = Unset

\* The page is empty or shorter than the limit, or has no continuation.
Final(a) ==
    CASE Form({"page", "offset"}) -> a.count = 0 \/ (limit # Unset /\ a.count < limit)
      [] Form({"pages"}) -> Following(a) > a.next
      [] OTHER -> a.next = Unset

Beyond(a) == Counted /\ Following(a) > MaxPage
Same(a) == ~Counted /\ a.next = cursor

\* A number that has wrapped around, or become a float, is refused.
Callable == Counted /\ cursor # Unset /\ cursor > MaxPage => Language({"python", "ruby", "elixir"})

\* Faulty variant: only what was asked for last is remembered.
RepeatedLast == asked # <<>> /\ Last(asked) = cursor
Repeated == cursor # Unset /\ Contains(asked, cursor)

Finishes ==
    /\ mode \in {"done", "error"}
    /\ heard' = IF mode = "done" THEN "end" ELSE "error"
    /\ mode' = "over"
    /\ UNCHANGED <<contract, cursor, asked, pages, got>>

Refuses ==
    /\ mode = "more"
    /\ mode' = "over" /\ heard' = "error"
    /\ UNCHANGED <<contract, cursor, asked, pages, got>>

Calls ==
    /\ mode = "more"
    /\ Len(asked) < MaxCalls
    /\ asked' = Append(asked, cursor)
    /\ UNCHANGED contract

Misses(then) ==
    /\ Calls
    /\ mode' = then /\ heard' = "error"
    /\ UNCHANGED <<cursor, pages, got>>

Yields ==
    /\ Calls
    /\ Callable
    /\ heard' = "page"
    /\ pages' = pages + 1
    /\ got' = IF honest THEN got \o Items(cursor) ELSE got

Stops == mode' = "done" /\ UNCHANGED cursor
Breaks == mode' = "error" /\ UNCHANGED cursor
Moves(a) == mode' = "more" /\ cursor' = Following(a)

Full == pages = PageCap

-----------------------------------------------------------------------------
(* The iterators.                                                           *)

\* Neither cap nor memory.  A failed call leaves the pager as it was.
GoAfter(a) ==
    CASE Final(a) -> Stops
      [] ~Final(a) /\ Beyond(a) /\ Form({"page"}) -> Breaks
      [] OTHER -> Moves(a)

\* An omitted offset is not a number, after which there is no next one.
TypeScriptAfter(a) ==
    IF Final(a) \/ (Counted /\ cursor = Unset) \/ Beyond(a) THEN Stops ELSE Moves(a)

PythonAfter(a) == IF Final(a) THEN Stops ELSE Moves(a)

PhpAfter(a) ==
    CASE Final(a) -> Stops
      [] ~Final(a) /\ Beyond(a) /\ Form({"page"}) -> Breaks
      [] OTHER -> Moves(a)

RustAfter(a) == IF Final(a) \/ Beyond(a) THEN Stops ELSE Moves(a)

\* The cap counts failed calls as well, and reaching it is not reported.
JavaFull == Len(asked) + 1 >= PageCap
JavaAfter(a) == IF Final(a) \/ Same(a) \/ Beyond(a) \/ JavaFull THEN Stops ELSE Moves(a)

\* Only the URL form reports its cap.
CSharpAfter(a) ==
    IF Final(a) \/ (Form({"cursor"}) /\ Same(a)) \/ Beyond(a) \/ (~Form({"url"}) /\ pages + 1 = PageCap)
    THEN Stops ELSE Moves(a)

\* A cursor that was used ends the traversal, a URL is an error, also when it
\* is asked for again because its call failed.
SwiftAfter(a) ==
    CASE Final(a) \/ (Form({"cursor"}) /\ Contains(Append(asked, cursor), a.next)) -> Stops
      [] ~Final(a) /\ Beyond(a) -> Breaks
      [] OTHER -> Moves(a)

\* Where a page leaves the iterator.
After(a) ==
    CASE Language({"go"}) -> GoAfter(a)
      [] Language({"typescript"}) -> TypeScriptAfter(a)
      [] Language({"python", "ruby", "elixir"}) -> PythonAfter(a)
      [] Language({"php"}) -> PhpAfter(a)
      [] Language({"rust"}) -> RustAfter(a)
      [] Language({"java"}) -> JavaAfter(a)
      [] Language({"csharp"}) -> CSharpAfter(a)
      [] Language({"swift"}) -> SwiftAfter(a)

\* One request: the iterator gives up, or its call fails and leaves it in the
\* mode `then`, or it yields a page and looks what comes after it.
Asks(refused, then) ==
    \/ refused /\ Refuses
    \/ ~refused /\ Misses(then)
    \/ ~refused /\ Yields /\ \E a \in Replies : After(a)

GoNext == Language({"go"}) /\ Asks(FALSE, "more")
TypeScriptNext == Language({"typescript"}) /\ Asks(Full /\ ~Form({"url"}), "over")
PythonNext == Language({"python"}) /\ Asks(Full /\ Form({"page"}), "over")
RubyNext == Language({"ruby"}) /\ Asks(Full, "over")
PhpNext == Language({"php"}) /\ Asks(Full /\ Form({"page"}), "over")
RustNext == Language({"rust"}) /\ Asks(Full \/ (Form({"url"}) /\ Repeated), "over")
JavaNext == Language({"java"}) /\ Asks(FALSE, IF JavaFull THEN "done" ELSE "more")
CSharpNext == Language({"csharp"}) /\ Asks(Form({"url"}) /\ (Full \/ Repeated), "over")
ElixirNext ==
    /\ Language({"elixir"})
    /\ Asks((Full /\ ~Form({"cursor"})) \/ (Form({"url"}) /\ Repeated), "over")
SwiftNext == Language({"swift"}) /\ Asks(Full \/ (Form({"url"}) /\ Repeated), "more")

-----------------------------------------------------------------------------
\* The consumer gives a start, or a limit where the form has one, or neither.
PagerInit ==
    /\ pager \in Offered
    /\ from \in IF Form({"url"}) THEN {Unset} ELSE {Unset, Default + 1}
    /\ limit \in IF Form({"page", "offset"}) THEN {Unset} \cup 1..PageSize ELSE {Unset}
    /\ honest \in BOOLEAN
    /\ total \in IF honest THEN 0..MaxTotal ELSE {0}
    /\ cursor = IF from = Unset /\ Counted /\ pager # [lang |-> "typescript", form |-> "offset"]
                THEN Default ELSE from
    /\ asked = <<>> /\ pages = 0 /\ got = <<>>
    /\ mode = "more" /\ heard = "nothing"

PagerNext ==
    \/ Finishes
    \/ GoNext \/ TypeScriptNext \/ PythonNext \/ RubyNext \/ PhpNext
    \/ RustNext \/ JavaNext \/ CSharpNext \/ ElixirNext \/ SwiftNext

PagerSpec == PagerInit /\ [][PagerNext]_pagerVars

-----------------------------------------------------------------------------
(* Properties.                                                              *)

\* Ends that the documentation announces: "Helpers stop or report numeric
\* overflow; some targets also apply a 10,000-page guard"; and one that it does
\* not, that of TypeScript's offsets without a start.
EndsEarly ==
    \/ Language({"java"}) /\ Len(asked) >= PageCap
    \/ Language({"csharp"}) /\ pages = PageCap
    \/ Language({"typescript", "rust", "java", "csharp"}) /\ Counted /\ Position(cursor) + Length > MaxPage
    \/ Language({"typescript"}) /\ Form({"offset"}) /\ from = Unset

\* Whatever calls fail and are repeated, the items of an honest API come each
\* once and in their order from the start, and a consumer that is told of the
\* end, without an error that ended the traversal, has had all of them.
EndMeansAll ==
    honest => /\ IsPrefix(got, Rest(from))
              /\ heard = "end" /\ ~EndsEarly => got = Rest(from)

Capped ==
    \/ Language({"rust", "java", "csharp", "ruby", "swift"})
    \/ Language({"typescript"}) /\ ~Form({"url"})
    \/ Language({"python", "php"}) /\ Form({"page"})
    \/ Language({"elixir"}) /\ ~Form({"cursor"})

\* Docs: "a page cap bounds traversal", "Repeated continuations stop iteration".
\* An API whose continuations never end, or run in a circle, holds no consumer
\* of an iterator with a cap, and a URL, or one of Swift's cursors, is asked for
\* again only if its call failed.
TraversalBounded ==
    /\ Capped => pages <= PageCap
    /\ Form({"url"}) /\ Language({"rust", "csharp", "elixir", "swift"}) =>
          \A i, j \in DOMAIN asked : asked[i] = asked[j] /\ asked[i] # Unset => i = j
    /\ Form({"cursor"}) /\ Language({"swift"}) =>
          \A i, j \in DOMAIN asked : asked[i] = asked[j] => \A k \in i..j : asked[k] = asked[i]
    /\ Form({"cursor"}) /\ Language({"csharp"}) =>
          \A i \in 2..Len(asked) : asked[i] # asked[i - 1]
=============================================================================
