------------------------ MODULE MCLiveTranscription ------------------------
(* Two letters, one of them in both cases and as a character that folds to *)
(* two of it (German sharp s), a full stop, and texts that agree up to the *)
(* middle of such a character; windows of at most four units.              *)
EXTENDS LiveTranscription

MCcasefold == [c \in {"s", "S", "sz", "b", "."} |->
                 CASE c \in {"s", "S"} -> <<"s">>
                   [] c = "sz"         -> <<"s", "s">>
                   [] c = "b"          -> <<"b">>
                   [] c = "."          -> << >>]

MCTexts == {<< >>, <<"s">>, <<"S", ".">>, <<"s", "b">>, <<"s", ".", "b">>,
            <<"b">>, <<".">>, <<"b", "s", ".">>, <<"sz">>, <<"s", "s", "b">>}
=============================================================================
