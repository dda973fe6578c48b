----------------------------- MODULE MCUpperWindow -----------------------------
(* Small instances of UpperWindow: one- and two-byte characters, a text      *)
(* longer than a row, and one with a newline in it.                          *)
EXTENDS UpperWindow

MCTexts ==
    {<< <<"one", "one", "one">> >>, << <<"one">>, <<"one">> >>, << <<"lead", "follow">> >>}

MCSizes == {<<2, 3>>, <<3, 4>>, <<2, 5>>}
===============================================================================
