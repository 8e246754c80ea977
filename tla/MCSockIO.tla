------------------------------ MODULE MCSockIO ------------------------------
(* SockIO on a small instance: messages of one to three bytes, one of them *)
(* with a CR of its own, and a buffer that one write may fill.             *)
EXTENDS SockIO

MCTexts == {<<"a">>, <<"b", CR>>, <<"a", "b", "b">>}

=============================================================================
