-------------------------- MODULE MCAnswerStreams --------------------------
\* The name the model was told is "ab"; the letters that stand beside it make it
\* part of a word, the end of a sentence, a file, a path or a quotation.
EXTENDS AnswerStreams

MCRules == {[from |-> <<"a", "b">>, to |-> <<"X">>]}
MCIdentifiers == {"a", "b"}

Nothing == [reasoning |-> <<>>, text |-> <<>>, tools |-> <<>>, finish |-> FALSE]
Text(t) == [Nothing EXCEPT !.text = t]
Thought(t) == [Nothing EXCEPT !.reasoning = t]
Call(i, id, name, args) == [index |-> i, id |-> id, name |-> name, args |-> args]

MCDeclared ==
  <<[kind |-> "custom", namespace |-> "", name |-> "patch"],
    [kind |-> "function", namespace |-> "fs", name |-> "read"],
    [kind |-> "function", namespace |-> "", name |-> "fs__read"]>>

MCChunks ==
  {Text(t) : t \in {<<"a">>, <<"b">>, <<".">>, <<"/">>, <<"space">>,
                    <<"a", "b">>, <<"quote", "/">>}}
  \cup {Thought(<<"a">>), Thought(<<"b", ".">>),
        [Nothing EXCEPT !.reasoning = <<"b">>, !.text = <<"a", "b">>],
        [Nothing EXCEPT !.finish = TRUE],
        [Nothing EXCEPT !.text = <<"a", "b">>, !.finish = TRUE],
        [Nothing EXCEPT !.tools = <<Call(0, "call", "fs__read", <<>>)>>],
        [Nothing EXCEPT !.tools = <<Call(0, "", "", <<"x">>)>>],
        [Nothing EXCEPT !.tools = <<Call(0, "call", "patch", <<"x">>),
                                    Call(1, "", "fs__read", <<"y">>)>>],
        [Nothing EXCEPT !.text = <<"a">>, !.tools = <<Call(1, "", "other", <<"y">>)>>]}
=============================================================================
