---------------------------- MODULE MCUrlPolicy ----------------------------
(* Instances of UrlPolicy for TLC.                                         *)
EXTENDS UrlPolicy

MCNames == {<<"a">>, <<"www", "a">>}

Plain(name)  == [name |-> name, upper |-> FALSE, dots |-> 0]
Dotted(name) == [name |-> name, upper |-> TRUE, dots |-> 1]
Upper(name)  == [name |-> name, upper |-> TRUE, dots |-> 0]
Odd(name)    == [name |-> name, upper |-> FALSE, dots |-> 2]

Page(scheme, host, port) ==
    [scheme |-> scheme, host |-> host, port |-> port, path |-> "x", slash |-> FALSE]

MCHosts == {Upper(<<"a">>), Plain(<<"www", "a">>), Plain(<<"10.0.0.1">>)}

MCLinkUrls ==
    {Page("https", Plain(<<"a">>), 443), Page("https", Dotted(<<"www", "a">>), 8080),
     Page("https", Plain(<<"10.0.0.1">>), 0), Page("other", Plain(<<"a">>), 0)}

MCPageUrls ==
    {Page("https", host, port) : host \in {Plain(n) : n \in AllNames} \cup {Odd(<<"a">>), Odd(<<"10.0.0.1">>)},
                                 port \in {0, 8080}}
    \cup {Page("https", Dotted(n), 8080) : n \in AllNames \ {<<"::1">>}}
    \cup {Page("http", Plain(<<"a">>), 443), Page("http", Plain(<<"127.0.0.1">>), 0),
          Page("other", Plain(<<"a">>), 0), Page("blank", Plain(<<"a">>), 0)}
    \cup {[Page("https", Plain(<<"a">>), 0) EXCEPT !.path = "y"],
          [Page("https", Dotted(<<"a">>), 0) EXCEPT !.slash = TRUE]}

MCAnswers == {{}, {"8.8.8.8"}, {"8.8.8.8", "10.0.0.1"}}
=============================================================================
