------------------------------ MODULE MCCJson ------------------------------
(* cJSON on a small heap.                                                  *)
EXTENDS CJson

\* Well-formed texts, texts that end early, and texts that go on.
MCTexts == {<< "[", "null", ",", "{", "a", ":", "x_u", "}", "]" >>,
            << "ws", "{", "A", ":", "[", "ws", "]", "}", "ws" >>,
            << "[", "zero", ",", "]" >>,
            << "[", "[", "true" >>,
            << "{", "a", ":", "int", "}", "x" >>,
            << "{", "a", "int", "}" >>,
            << "{", "a", ":", "flt", ",", "null", "}" >>}

\* A quote, a line end, a control character, and a character of four and one of
\* two bytes; spelled with a surrogate pair.
MCContent == [a |-> << 97 >>, A |-> << 65 >>, x |-> << 34, 10, 1, 240, 159, 152, 128, 195, 169 >>]
MCSpelling == "x_u" :>
    (<< Quote, Backslash, Quote, Backslash, 110, Backslash, LetterU, 48, 48, 48, 49 >>
     \o << Backslash, LetterU, 100, 56, 51, 100, Backslash, LetterU, 100, 101, 48, 48 >>
     \o << Backslash, LetterU, 48, 48, 69, 57, Quote >>)
=============================================================================
