------------------------------ MODULE MCTinyXml ------------------------------
(* Instances of TinyXml for TLC.                                            *)
EXTENDS TinyXml

MCPieces ==
    {<<"<", "a", ">">>, <<"<", "b", "WS", "k", "=", "'v'">>, <<">">>, <<"/>">>,
     <<"</", "a", ">">>, <<"</", "b", ">">>, <<"WS">>, <<"CR">>, <<"a", "&lt;">>,
     <<"<!--c-->">>, <<"<?c?>">>, <<"<![CDATA[c]]>">>, <<"<!--">>, <<"<">>,
     <<"WS", "k", "=", "'v'">>, <<"BOM">>}

\* <a k='v'><b/></a>, mixed content, and an element that is not closed.
MCEditTexts ==
    {<<"<", "a", "WS", "k", "=", "'v'", ">", "<", "b", "/>", "</", "a", ">">>,
     <<"<", "a", "/>", "<", "b">>,
     <<"<", "a", ">", "a", "<", "b", "/>", "</", "a", ">">>}
=============================================================================
