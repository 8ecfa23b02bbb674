----------------------------- MODULE MCPipeline -----------------------------
(***************************************************************************)
(* Inputs of Pipeline for TLC: all short texts of each of four families,   *)
(* each with what matters to it.  Characters are numbers.                  *)
(***************************************************************************)
EXTENDS Pipeline

Of(kind) == [kind |-> kind, term |-> <<>>, meaning |-> "", says |-> <<>>]
Entry(term, meaning) == [Of("entry") EXCEPT !.term = term, !.meaning = meaning]
Prose(term, meaning) == [Of("prose") EXCEPT !.term = term, !.meaning = meaning]
Speaker(says) == [Of("speaker") EXCEPT !.says = says]

Plain == [skip |-> TRUE, force |-> FALSE, translate |-> FALSE, decompose |-> FALSE,
          sentences |-> TRUE, strategy |-> "importance"]
With(lines, dictionary, prior, settings) ==
    [lines |-> lines, dictionary |-> dictionary, prior |-> prior, settings |-> settings]

Texts(lines, lengths) == UNION {[1..n -> lines] : n \in lengths}

\* How texts are cut: tables good and poor, prose, blank lines, metadata.
Cuts ==
    {With(t, <<>>, {}, [Plain EXCEPT !.skip = s]) :
        t \in Texts({Entry(<<1>>, "be"), Of("junk"), Of("blank"), Prose(<<2>>, "be")}, 0..5)
              \cup Texts({Of("date"), Of("rule"), Entry(<<1>>, "be"), Prose(<<2>>, "be")}, {4}),
        s \in BOOLEAN}

\* Where meanings come from: one term in two lines, another made up of it and of a
\* second one.  A headword may have no gloss, or one that says nothing.
Glosses == {<<"gloss">>, <<"n/a">>, <<"">>}
Dictionaries ==
    {d \in UNION {[H -> Glosses] : H \in SUBSET {<<1>>, <<2>>, <<1, 2>>}} :
        <<1, 2>> \in DOMAIN d => d[<<1, 2>>] = <<"n/a">>}
        \cup {[h \in {<<1>>, <<2>>} |-> <<"", "n/a", "gloss">>]}

Meanings ==
    {With(<<Prose(<<1>>, m[1])>> \o <<Of("section")>> \o <<Prose(<<1>>, m[2])>>
              \o <<Prose(<<1, 2>>, n)>> \o <<Prose(<<>>, "be")>>,
          d, {}, [Plain EXCEPT !.force = f[1], !.translate = f[2], !.decompose = f[3],
                               !.sentences = FALSE]) :
        <<m, n>> \in {x \in [1..2 -> Unknown \cup Given] \X {"", "be"} :
                           x[2] = "be" => x[1][1] = ""},
        d \in Dictionaries,
        f \in [1..3 -> BOOLEAN]}

\* Who says what.
Dialogues ==
    {With(<<Of("header")>> \o t, <<>>, {}, Plain) :
        t \in Texts({Of("header"), Of("section"), Of("blank"), Speaker(<<1>>), Of("junk"),
                     [Of("junk") EXCEPT !.says = <<2>>]}, 0..4)}

\* Which row a sentence goes to.
Linked ==
    {With(<<Prose(<<1>>, ""), Prose(<<1, 2>>, ""), Prose(<<2, 1>>, ""), Of("header"),
            Speaker(t)>>, <<>>, p, [Plain EXCEPT !.strategy = s]) :
        t \in Texts(0..2, 1..4),
        p \in SUBSET {[term |-> <<1>>, key |-> 2], [term |-> <<2>>, key |-> 7]},
        s \in {"importance", "random"}}

MCInputs == Cuts \cup Meanings \cup Dialogues \cup Linked
=============================================================================
