------------------------------ MODULE MCFraming ------------------------------
(* TLC instance of Framing: messages of up to three bytes with the '\n', a   *)
(* command that fits exactly, one that is a byte too long, an empty one, one  *)
(* with a NUL in it, and files whose content takes more than one read.        *)
EXTENDS Framing

MCByte == {"nl", "nul", "f", "a", "b", "c", "d"}
MCDownload == <<"d">>
MCLines == {MCDownload, <<"a">>, <<"a", "b">>, <<"a", "b", "c">>, <<>>, <<"a", "nul">>}

===============================================================================
